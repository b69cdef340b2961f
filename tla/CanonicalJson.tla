---------------------------- MODULE CanonicalJson ----------------------------
(***************************************************************************)
(* How each SDK turns a decision context into the commitment it hashes.    *)
(*                                                                         *)
(* A context is a tree of <<kind, content>> pairs:                         *)
(*   <<"atom", a>>     a string, number, boolean or null;                  *)
(*   <<"date", t>>     an object whose content is not in its own           *)
(*                     enumerable keys (Date, Map, Set);                   *)
(*   <<"array", s>>    a sequence of contexts;                             *)
(*   <<"object", e>>   <<key, context>> entries, in insertion order.       *)
(* Its text keeps what is written and in which order; JSON's punctuation   *)
(* and escaping are unambiguous, so equal trees stand for equal bytes.     *)
(***************************************************************************)
EXTENDS Integers, Sequences, FiniteSets, TLC

CONSTANTS
  Utf16,      \* the rank of each key by UTF-16 code units
  CodePoint,  \* the rank of each key by code points, which is that by UTF-8
  ArrayIndex  \* the keys that are decimal array indices, and their numbers

ASSUME KeysAssumption ==
  /\ DOMAIN CodePoint = DOMAIN Utf16
  /\ DOMAIN ArrayIndex \subseteq DOMAIN Utf16
  /\ \A rank \in {Utf16, CodePoint, ArrayIndex} :
       \A k, l \in DOMAIN rank : rank[k] = rank[l] => k = l

-----------------------------------------------------------------------------
(* TypeScript sorts the keys, and inserts them in that order into a fresh  *)
(* object; but an object keeps its index keys first and in numerical order *)
(* whatever order they were inserted in.                                   *)
TsBefore(k, l) ==
  LET index(x) == x \in DOMAIN ArrayIndex
  IN \/ index(k) /\ index(l) /\ ArrayIndex[k] < ArrayIndex[l]
     \/ index(k) /\ ~index(l)
     \/ ~index(k) /\ ~index(l) /\ Utf16[k] < Utf16[l]

(* encoding/json of Go and sorted() of Python.                             *)
PortBefore(k, l) == CodePoint[k] < CodePoint[l]

InKeyOrder(sdk, entries) ==
  SortSeq(entries, LAMBDA e, f :
    IF sdk = "ts" THEN TsBefore(e[1], f[1]) ELSE PortBefore(e[1], f[1]))

(* A date has no enumerable keys: norm rebuilds it as an empty object.  Go *)
(* writes it out.  (Python raises an error, and no instance has one.)      *)
DateText(sdk, t) == IF sdk = "ts" THEN <<"object", <<>>>> ELSE <<"atom", t>>

RECURSIVE Text(_, _)
Text(sdk, v) ==
  CASE v[1] = "atom"   -> v
    [] v[1] = "date"   -> DateText(sdk, v[2])
    [] v[1] = "array"  -> <<"array", [i \in DOMAIN v[2] |-> Text(sdk, v[2][i])]>>
    [] v[1] = "object" ->
         LET entries == InKeyOrder(sdk, v[2])
         IN <<"object",
              [i \in DOMAIN entries |-> <<entries[i][1], Text(sdk, entries[i][2])>>]>>

(* SHA-256 of the text, which nothing else is taken to have.               *)
HashDecisionContext(sdk, context) == <<"sha256", Text(sdk, context)>>

-----------------------------------------------------------------------------
(* The reference: what it means for two contexts to be logically the same. *)
RECURSIVE Same(_, _)
Same(v, w) ==
  /\ v[1] = w[1]
  /\ CASE v[1] \in {"atom", "date"} -> v[2] = w[2]
       [] v[1] = "array" ->
            /\ Len(v[2]) = Len(w[2])
            /\ \A i \in DOMAIN v[2] : Same(v[2][i], w[2][i])
       [] v[1] = "object" ->
            /\ Len(v[2]) = Len(w[2])
            /\ \A i \in DOMAIN v[2] : \E j \in DOMAIN w[2] :
                 v[2][i][1] = w[2][j][1] /\ Same(v[2][i][2], w[2][j][2])
=============================================================================
