------------------------------- MODULE MetaDoc ------------------------------
(***************************************************************************)
(* The metadata document of a session (pkg/host/meta.go) under concurrent  *)
(* writers: SET_META_JSON with its compare-and-set, the legacy SET_META,   *)
(* INFO, and a takeover, driven by the `runbaypty meta` commands.          *)
(*                                                                         *)
(* SetMetaJSON runs under the session's lock, event included, so it is one *)
(* step; SetMeta emits its event after the unlock, so that is two.  A      *)
(* request that is refused changes nothing and is not a step.              *)
(***************************************************************************)
EXTENDS MetaArgs

CONSTANTS Writers,      \* clients
          Spawns,       \* what sessions are spawned with: [flat, json]
          Merges, Replacements, Unsets, Increments, Flats, \* their arguments
          ReservedRoot, \* the symbol "rpty"
          CounterKey, CasKey,  \* the keys of the shared counters
          MaxSize,      \* MaxMetaBytes
          MaxVersion    \* bound: writes

VARIABLES doc, version,  \* metaDoc (Null when nil) and metaVersion
          pend,      \* versions SetMeta has committed and not announced
          announced, \* the versions on the event bus, in order
          seen,      \* what each writer has read: the value of CasKey and the version
          base,      \* history: the version this daemon began with
          late,      \* history: the versions SetMeta has announced
          counted,   \* history: the increments since the counter was last overwritten
          swapped,   \* history: the swaps since CasKey was last overwritten
          last       \* history: the last token of the newest commit, if that was a merge

vars == <<doc, version, pend, announced, seen, base, late, counted, swapped, last>>

None == [left |-> <<>>, text |-> 0]

\* func isReservedMetaKey, reservedKeyError
Reserved(patch) == \E k \in TopLevelKeys(patch) :
    k = <<ReservedRoot>> \/ (Len(k) > 1 /\ k[1] = ReservedRoot /\ k[2] = ".")

\* func ValidateSpawnAnnotations; Null stands for no annotations.
ValidateSpawnAnnotations(v) ==
    v = Null \/ (IsObject(v) /\ ~Reserved(v) /\ Size(v) <= MaxSize)

\* func initialMetaDoc
InitialMetaDoc(cfg) ==
    IF cfg.json # Null THEN MergeValue(FromFlat(cfg.flat), cfg.json)
    ELSE IF cfg.flat # NoKeys THEN FromFlat(cfg.flat) ELSE Null

\* func adoptMetaDoc; a daemon of an older version sends only the flat map.
AdoptMetaDoc(st) ==
    IF st.doc # Null THEN st.doc
    ELSE IF st.flat # NoKeys THEN FromFlat(st.flat) ELSE Null

\* A session spawned here, or adopted from a daemon of an older version.
Init ==
    /\ \E cfg \in Spawns :
         \/ ValidateSpawnAnnotations(cfg.json) /\ doc = InitialMetaDoc(cfg)
         \/ doc = AdoptMetaDoc([doc |-> Null, flat |-> cfg.flat])
    /\ version = 0 /\ pend = {} /\ announced = <<>> /\ base = 0 /\ late = {}
    /\ seen = [w \in Writers |-> [val |-> 0, version |-> MaxVersion]]
    /\ counted = 0 /\ swapped = 0 /\ last = None

-----------------------------------------------------------------------------
(* SetMetaJSON and SetMeta. *)

\* The document each mode makes.
Applied(mode, patch) ==
    CASE mode = "replace" -> MergeValue(Null, patch)
      [] mode = "incr"    -> IncrPatch(doc, patch)
      [] mode = "merge"   -> MergeValue(doc, patch)

\* Mutant: the event carries the version before the write.
SetMetaJSON_OldVersion(mode, patch, ifVersion) ==
    LET next == Applied(mode, patch)
    IN  /\ version \in ifVersion /\ ~Reserved(patch) /\ IsObject(next) /\ Size(next) <= MaxSize
        /\ doc' = next /\ version' = version + 1
        /\ announced' = Append(announced, version)

\* func SetMetaJSON, when nothing refuses it; ifVersion is the set of versions the
\* condition allows.
SetMetaJSON(mode, patch, ifVersion) ==
    LET next == Applied(mode, patch)
    IN  /\ version \in ifVersion /\ ~Reserved(patch) /\ IsObject(next) /\ Size(next) <= MaxSize
        /\ doc' = next /\ version' = version + 1
        /\ announced' = Append(announced, version + 1)

Always == 0 .. MaxVersion

\* Mutant: the legacy write does not count as one.
SetMeta_Uncounted(flat) ==
    /\ doc' = FromFlat(flat) /\ version' = version
    /\ pend' = pend

\* func SetMeta up to the unlock: no reserved keys, no cap.
SetMeta(flat) ==
    /\ doc' = FromFlat(flat) /\ version' = version + 1
    /\ pend' = pend \cup {version + 1}

-----------------------------------------------------------------------------
(* The commands.  counted and swapped follow the two counters. *)

Zero(patch, key, n) == IF key \in TopLevelKeys(patch) THEN 0 ELSE n

CounterOf(d, key) == LET v == At(FieldsOf(d), key) IN IF v.kind = "number" THEN v.text ELSE 0

More == version < MaxVersion

\* meta get: INFO answers with the document and its version.
Get(w) ==
    /\ seen' = [seen EXCEPT ![w] = [val |-> CounterOf(doc, CasKey), version |-> version]]
    /\ UNCHANGED <<doc, version, pend, announced, base, late, counted, swapped, last>>

\* meta merge
Merge(toks) ==
    LET patch == BuildMetaPatch(Obj(NoKeys), toks)
    IN  /\ More /\ \A i \in DOMAIN toks : ParseMetaPair(toks[i]).ok
        /\ SetMetaJSON("merge", patch, Always)
        /\ last' = toks[Len(toks)]
        /\ counted' = Zero(patch, CounterKey, counted) /\ swapped' = Zero(patch, CasKey, swapped)
        /\ UNCHANGED <<pend, seen, base, late>>

\* meta replace --json
Replace(json) ==
    /\ More /\ SetMetaJSON("replace", json, Always)
    /\ last' = None /\ counted' = 0 /\ swapped' = 0
    /\ UNCHANGED <<pend, seen, base, late>>

\* meta unset
Unset(keys) ==
    LET patch == BuildUnsetPatch(keys)
    IN  /\ More /\ SetMetaJSON("merge", patch, Always)
        /\ last' = None
        /\ counted' = Zero(patch, CounterKey, counted) /\ swapped' = Zero(patch, CasKey, swapped)
        /\ UNCHANGED <<pend, seen, base, late>>

\* meta incr of the shared counter and whatever else.
Incr(toks) ==
    LET patch == BuildIncrPatch(toks)
    IN  /\ More /\ SetMetaJSON("incr", patch, Always)
        /\ last' = None
        /\ counted' = IF CounterKey \in TopLevelKeys(patch)
                      THEN AddNumbers(counted, patch.of[CounterKey].text) ELSE counted
        /\ UNCHANGED <<pend, seen, base, late, swapped>>

\* meta merge --if-version: a writer adds one to what it has read.
Swap(w) ==
    LET patch == Obj(CasKey :> Num(seen[w].val + 1))
    IN  /\ More /\ SetMetaJSON("merge", patch, {seen[w].version})
        /\ last' = None /\ swapped' = swapped + 1
        /\ UNCHANGED <<pend, seen, base, late, counted>>

\* meta set, the legacy frame.
LegacySet(flat) ==
    /\ More /\ SetMeta(flat)
    /\ last' = None /\ counted' = 0 /\ swapped' = 0
    /\ UNCHANGED <<announced, seen, base, late>>

\* SetMeta after the unlock.
LegacyEmit ==
    /\ \E v \in pend : /\ pend' = pend \ {v} /\ late' = late \cup {v}
                       /\ announced' = Append(announced, v)
    /\ UNCHANGED <<doc, version, seen, base, counted, swapped, last>>

\* A takeover: document and version go over, the event bus does not.
Handover ==
    /\ base # version
    /\ doc' = AdoptMetaDoc([doc |-> doc, flat |-> Project(doc)])
    /\ base' = version /\ pend' = {} /\ announced' = <<>> /\ late' = {}
    /\ UNCHANGED <<version, seen, counted, swapped, last>>

Next ==
    \/ \E w \in Writers : Get(w) \/ Swap(w)
    \/ \E toks \in Merges : Merge(toks)
    \/ \E json \in Replacements : Replace(json)
    \/ \E keys \in Unsets : Unset(keys)
    \/ \E toks \in Increments : Incr(toks)
    \/ \E flat \in Flats : LegacySet(flat)
    \/ LegacyEmit \/ Handover

Spec == Init /\ [][Next]_vars

-----------------------------------------------------------------------------
(* Properties. *)

\* What a merge leaves at a path, by path and without recursion on values: the
\* patch rules along the path as far as it says something, else the document.
MergedAt(d, patch, path) ==
    LET part(n) == SubSeq(path, 1, n)
        said == {n \in 0 .. Len(path) : HasPath(patch, part(n))}
        stop == {n \in said : ~IsObject(LookupPath(patch, part(n)))}
    IN  IF stop # {}
        THEN LookupPath(LookupPath(patch, part(CHOOSE n \in stop : TRUE)),
                        SubSeq(path, (CHOOSE n \in stop : TRUE) + 1, Len(path)))
        ELSE IF Len(path) \in said THEN Obj(NoKeys)
        ELSE LookupPath(d, path)

Same(a, b) == a = b \/ (IsObject(a) /\ IsObject(b))

Patches == {BuildMetaPatch(Obj(NoKeys), t) : t \in {m \in Merges : \A i \in DOMAIN m : ParseMetaPair(m[i]).ok}}
           \cup {BuildUnsetPatch(k) : k \in Unsets} \cup Replacements

PathsOf(v) == {<<k>> : k \in TopLevelKeys(v)}
              \cup {<<j, k>> : j \in TopLevelKeys(v), k \in UNION {TopLevelKeys(v.of[i]) : i \in TopLevelKeys(v)}}

\* Merging a patch into any document that writers can produce changes exactly the
\* paths the patch names, whatever kinds of values meet there: "objects merge
\* recursively; a null value deletes its key" (merge.go:25).
MergeByPath ==
    \A patch \in Patches : \A path \in PathsOf(patch) \cup PathsOf(doc) :
        LET merged == MergeValue(doc, patch) want == MergedAt(doc, patch, path)
        IN  Same(LookupPath(merged, path), want) /\ (HasPath(merged, path) <=> want # Null)

\* "concurrent writers are serialized: disjoint-field merges never clobber each
\* other" (meta.go:128): a counter that several clients increment, and one that
\* they read, add to and write back under --if-version, has counted every write
\* that succeeded, through takeovers, legacy writes and merges of other fields.
NoUpdateLost == CounterOf(doc, CounterKey) = counted /\ CounterOf(doc, CasKey) = swapped

\* What `meta merge` has just set, `ls --filter` finds under the same key, with
\* dots that nest and dots that are escaped, and what it has set to null is gone
\* (metaargs.go:138 and 161).
FilterFinds ==
    last # None =>
        IF Last(last.left) # ":" THEN MetaMatches(doc, last)
        ELSE CASE last.text = NullText -> ~HasPath(doc, SplitEscapedDots(Front(last.left)))
               [] JsonOf(last.text).val.kind = "number" ->
                      MetaMatches(doc, [left |-> Front(last.left), text |-> last.text])
               [] OTHER -> TRUE

\* Every write since the daemon began is announced once, with its own version, and
\* SetMetaJSON's in order; only SetMeta's announcements may come late.
VersionsAnnounced ==
    LET said == {announced[i] : i \in DOMAIN announced}
    IN  /\ said \cup pend = base + 1 .. version
        /\ Len(announced) + Cardinality(pend) = version - base
        /\ \A i, j \in DOMAIN announced : i < j /\ announced[i] > announced[j] => announced[j] \in late
=============================================================================
