--------------------------- MODULE ProcessorUtil ---------------------------
(***************************************************************************)
(* The attribute helpers of the metrics generator's processors            *)
(* (modules/generator/processor/util/util.go), one call at a time, with    *)
(* each loop iteration a step:                                             *)
(*                                                                         *)
(*  - FindAttributeValue(key, attributes...) scans the attribute lists in  *)
(*    order and returns the string form of the first value whose key       *)
(*    matches, or ("", false); FindServiceName is the call with the        *)
(*    service.name key and one list;                                       *)
(*  - GetSpanMultiplier(ratioKey, span) starts at 1.0 and, unless ratioKey *)
(*    is empty, sets it to 1.0 / v for every attribute with that key whose *)
(*    double value v is positive.                                          *)
(*                                                                         *)
(* Values are abstracted to their kind and, for doubles, a number; 1.0 / v *)
(* is kept as the exact fraction.                                          *)
(***************************************************************************)
EXTENDS Integers, Sequences

CONSTANTS
    Keys,      \* attribute keys
    NoKey,     \* the empty ratio key ""
    Doubles,   \* the double values attributes may hold
    MaxAttrs,  \* bound on the attributes of a list or a span
    MaxLists   \* bound on the attribute lists of a FindAttributeValue call

ASSUME UtilAssumption ==
    /\ Keys # {}
    /\ NoKey \notin Keys
    /\ Doubles \subseteq Int
    /\ MaxAttrs \in Nat
    /\ MaxLists \in Nat

\* An AnyValue: a double, or a value of another kind (a string).
AnyValues == [kind : {"double"}, num : Doubles] \cup [kind : {"string"}, num : {0}]

KeyValues == [key : Keys, value : AnyValues]

\* The attribute slices of at most MaxAttrs entries.
AttrSeqs == UNION {[1..n -> KeyValues] : n \in 0..MaxAttrs}

\* AnyValue.GetDoubleValue(): the number of a double, 0 for another kind.
GetDoubleValue(v) == IF v.kind = "double" THEN v.num ELSE 0

\* deep_util.StringifyAnyValue: the string form of a value, one per value.
StringifyAnyValue(v) == [of |-> v]

\* "": the string form of no value.
EmptyString == [of |-> [kind |-> "none", num |-> 0]]

\* A multiplier num / den: 1.0, and 1.0 / v.
One == [num |-> 1, den |-> 1]
Recip(v) == [num |-> 1, den |-> v]

VARIABLES
    call,      \* "find" (FindAttributeValue) or "mult" (GetSpanMultiplier)
    pc,        \* "loop" while the call runs, "done" when it has returned
    key,       \* FindAttributeValue: the key asked for
    lists,     \* FindAttributeValue: the attribute lists, in argument order
    li,        \* FindAttributeValue: index of the current list
    ki,        \* FindAttributeValue: index in the current list
    found,     \* FindAttributeValue: the boolean it returned
    str,       \* FindAttributeValue: the string it returned
    ratioKey,  \* GetSpanMultiplier: the ratio key
    attrs,     \* GetSpanMultiplier: span.Attributes
    mi,        \* GetSpanMultiplier: index of the current attribute
    mult       \* GetSpanMultiplier: spanMultiplier

vars == <<call, pc, key, lists, li, ki, found, str, ratioKey, attrs, mi, mult>>

TypeOK ==
    /\ call \in {"find", "mult"}
    /\ pc \in {"loop", "done"}
    /\ key \in Keys
    /\ lists \in Seq(Seq(KeyValues))
    /\ li \in 1..Len(lists) + 1
    /\ ki \in Nat \ {0}
    /\ found \in BOOLEAN
    /\ str \in {StringifyAnyValue(v) : v \in AnyValues} \cup {EmptyString}
    /\ ratioKey \in Keys \cup {NoKey}
    /\ attrs \in Seq(KeyValues)
    /\ mi \in 1..Len(attrs) + 1
    /\ mult \in {One} \cup {Recip(v) : v \in Doubles}

\* A call of FindAttributeValue (or of FindServiceName) with any key and
\* lists; the multiplier variables keep their zero values.
FindCall ==
    /\ call = "find"
    /\ key \in Keys
    /\ lists \in UNION {[1..n -> AttrSeqs] : n \in 0..MaxLists}
    /\ li = 1 /\ ki = 1 /\ found = FALSE /\ str = EmptyString
    /\ ratioKey = NoKey /\ attrs = << >> /\ mi = 1 /\ mult = One

\* A call of GetSpanMultiplier: spanMultiplier := 1.0.
MultCall ==
    /\ call = "mult"
    /\ ratioKey \in Keys \cup {NoKey}
    /\ attrs \in AttrSeqs
    /\ mi = 1 /\ mult = One
    /\ key = CHOOSE k \in Keys : TRUE
    /\ lists = << >> /\ li = 1 /\ ki = 1 /\ found = FALSE /\ str = EmptyString

Init == pc = "loop" /\ (FindCall \/ MultCall)


-----------------------------------------------------------------------------
(* FindAttributeValue: for each list, for each kv, return on a match.      *)

\* Mutant: the loop keeps going after a match instead of returning.
FindMatchNoReturn ==
    /\ call = "find" /\ pc = "loop"
    /\ li <= Len(lists) /\ ki <= Len(lists[li])
    /\ lists[li][ki].key = key
    /\ found' = TRUE
    /\ str' = StringifyAnyValue(lists[li][ki].value)
    /\ ki' = ki + 1
    /\ UNCHANGED <<call, pc, key, lists, li, ratioKey, attrs, mi, mult>>

\* key == kv.Key: return StringifyAnyValue(kv.Value), true.
FindMatch ==
    /\ call = "find" /\ pc = "loop"
    /\ li <= Len(lists) /\ ki <= Len(lists[li])
    /\ lists[li][ki].key = key
    /\ found' = TRUE
    /\ str' = StringifyAnyValue(lists[li][ki].value)
    /\ pc' = "done"
    /\ UNCHANGED <<call, key, lists, li, ki, ratioKey, attrs, mi, mult>>

\* The kv has another key: go on to the next one of the list.
FindSkip ==
    /\ call = "find" /\ pc = "loop"
    /\ li <= Len(lists) /\ ki <= Len(lists[li])
    /\ lists[li][ki].key # key
    /\ ki' = ki + 1
    /\ UNCHANGED <<call, pc, key, lists, li, found, str, ratioKey, attrs, mi, mult>>

\* The list is exhausted: go on to the next list.
FindNextList ==
    /\ call = "find" /\ pc = "loop"
    /\ li <= Len(lists) /\ ki > Len(lists[li])
    /\ li' = li + 1
    /\ ki' = 1
    /\ UNCHANGED <<call, pc, key, lists, found, str, ratioKey, attrs, mi, mult>>

\* Every list is exhausted: return "", false.
FindNotFound ==
    /\ call = "find" /\ pc = "loop"
    /\ li > Len(lists)
    /\ found' = FALSE
    /\ str' = EmptyString
    /\ pc' = "done"
    /\ UNCHANGED <<call, key, lists, li, ki, ratioKey, attrs, mi, mult>>

-----------------------------------------------------------------------------
(* GetSpanMultiplier.                                                      *)

\* ratioKey == "": the loop is skipped and 1.0 returned.
MultNoKey ==
    /\ call = "mult" /\ pc = "loop"
    /\ ratioKey = NoKey
    /\ pc' = "done"
    /\ UNCHANGED <<call, key, lists, li, ki, found, str, ratioKey, attrs, mi, mult>>

\* Mutant: a ratio of zero is taken (v >= 0), dividing 1.0 by zero.
MultStepNonNegative ==
    /\ call = "mult" /\ pc = "loop"
    /\ ratioKey # NoKey
    /\ mi <= Len(attrs)
    /\ mult' = IF attrs[mi].key = ratioKey /\ GetDoubleValue(attrs[mi].value) >= 0
                 THEN Recip(GetDoubleValue(attrs[mi].value))
                 ELSE mult
    /\ mi' = mi + 1
    /\ UNCHANGED <<call, pc, key, lists, li, ki, found, str, ratioKey, attrs>>

\* Mutant: the multiplier is set to the ratio instead of its inverse.
MultStepTimesRatio ==
    /\ call = "mult" /\ pc = "loop"
    /\ ratioKey # NoKey
    /\ mi <= Len(attrs)
    /\ mult' = IF attrs[mi].key = ratioKey /\ GetDoubleValue(attrs[mi].value) > 0
                 THEN [num |-> GetDoubleValue(attrs[mi].value), den |-> 1]
                 ELSE mult
    /\ mi' = mi + 1
    /\ UNCHANGED <<call, pc, key, lists, li, ki, found, str, ratioKey, attrs>>

\* One iteration over span.Attributes: an attribute with the ratio key and a
\* positive double v sets spanMultiplier = 1.0 / v.
MultStep ==
    /\ call = "mult" /\ pc = "loop"
    /\ ratioKey # NoKey
    /\ mi <= Len(attrs)
    /\ mult' = IF attrs[mi].key = ratioKey /\ GetDoubleValue(attrs[mi].value) > 0
                 THEN Recip(GetDoubleValue(attrs[mi].value))
                 ELSE mult
    /\ mi' = mi + 1
    /\ UNCHANGED <<call, pc, key, lists, li, ki, found, str, ratioKey, attrs>>

\* The attributes are exhausted: return spanMultiplier.
MultEnd ==
    /\ call = "mult" /\ pc = "loop"
    /\ ratioKey # NoKey
    /\ mi > Len(attrs)
    /\ pc' = "done"
    /\ UNCHANGED <<call, key, lists, li, ki, found, str, ratioKey, attrs, mi, mult>>

\* A call runs until it returns; nothing follows its return.
Next ==
    \/ FindMatch \/ FindSkip \/ FindNextList \/ FindNotFound
    \/ MultNoKey \/ MultStep \/ MultEnd

Spec == Init /\ [][Next]_vars

-----------------------------------------------------------------------------
(* The reference definitions the calls are checked against.                *)

\* Position (l, k) of the lists holds the key asked for.
Matches(l, k) == lists[l][k].key = key

\* (l2, k2) comes before (l, k) in argument order.
Before(l2, k2, l, k) == l2 < l \/ (l2 = l /\ k2 < k)

\* FindAttributeValue returns the string form of the value at the first
\* position, in argument order, whose key matches, and ("", false) when
\* none does: a service name given twice, or in both the resource and the
\* span attributes, is the first one's.
FindReturnsFirstMatch ==
    call = "find" /\ pc = "done" =>
        IF \E l \in DOMAIN lists : \E k \in DOMAIN lists[l] : Matches(l, k)
        THEN /\ found
             /\ \E l \in DOMAIN lists : \E k \in DOMAIN lists[l] :
                   /\ Matches(l, k)
                   /\ str = StringifyAnyValue(lists[l][k].value)
                   /\ \A l2 \in DOMAIN lists : \A k2 \in DOMAIN lists[l2] :
                         Before(l2, k2, l, k) => ~Matches(l2, k2)
        ELSE ~found /\ str = EmptyString

\* The attribute at j is a usable sampling ratio: the ratio key with a
\* positive double value.
IsRatio(j) ==
    attrs[j].key = ratioKey /\ GetDoubleValue(attrs[j].value) > 0

\* GetSpanMultiplier returns 1.0 when the ratio key is empty or no attribute
\* is a usable ratio, and otherwise 1.0 / v for the last usable ratio v:
\* it never divides by zero or a negative ratio, and a non-positive ratio
\* after a usable one does not reset it.
MultiplierIsLastRatio ==
    call = "mult" /\ pc = "done" =>
        IF ratioKey # NoKey /\ \E j \in DOMAIN attrs : IsRatio(j)
        THEN \E j \in DOMAIN attrs :
                /\ IsRatio(j)
                /\ mult = Recip(GetDoubleValue(attrs[j].value))
                /\ \A j2 \in DOMAIN attrs : j2 > j => ~IsRatio(j2)
        ELSE mult = One

=============================================================================
