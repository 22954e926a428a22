-------------------------------- MODULE Traits --------------------------------
(***************************************************************************)
(* What types and mixins promise. A value looks for a property among its   *)
(* own, if it is a type; then in its types, one after the other, each with *)
(* everything that it inherits before the next; then in All. Adding a      *)
(* mixin puts it first among the types of one value, and of whatever is    *)
(* looked up through that value, and of nothing else.                      *)
(***************************************************************************)
EXTENDS Naturals, SequencesExt

CONSTANTS
  Table,         \* types, mixins and indexes, made or not
  Object, All    \* two of them that are always there

VARIABLES
  kind,     \* "none", "type", "mixin" or "index"
  direct    \* a value's types; those that the users of a mixin inherit

vars == <<kind, direct>>

Types   == {t \in Table : kind[t] \in {"type", "mixin"}}
Made    == {t \in Table : kind[t] # "none"}
Unmade  == Table \ Made

Init ==
  /\ kind = [t \in Table |-> CASE t = Object -> "type" [] t = All -> "mixin" [] OTHER -> "none"]
  /\ direct = [t \in Table |-> <<>>]

Make(t, k, types) ==
  /\ kind[t] = "none"
  /\ kind' = [kind EXCEPT ![t] = k] /\ direct' = [direct EXCEPT ![t] = types]
Mix(v, m)    == direct' = [direct EXCEPT ![v] = <<m>> \o @] /\ UNCHANGED kind
Retype(v, types) == direct' = [direct EXCEPT ![v] = types] /\ UNCHANGED kind

Next ==
  \/ \E t \in Unmade :
       Make(t, "mixin", <<>>) \/ \E s \in Types : Make(t, "type", <<s>>) \/ Make(t, "index", <<s>>)
  \/ \E t \in Unmade, v \in Made : kind[v] # "mixin" /\ Make(t, "index", direct[v])
  \/ \E v \in Made, m \in Types : Mix(v, m) \/ (kind[v] # "mixin" /\ Retype(v, <<m>>))

Spec == Init /\ [][Next]_vars
------------------------------------------------------------------------------
(***************************************************************************)
(* All that is searched through a type, in order, and the answers.         *)
(***************************************************************************)
Searched ==
  LET searched[t \in Table] == <<t>> \o FlattenSeq([i \in DOMAIN direct[t] |-> searched[direct[t][i]]])
  IN searched
OfAll(types) == FlattenSeq([i \in DOMAIN types |-> Searched[types[i]]])
\* What a mixin is, for itself, is an object.
TypesOf(v) == OfAll(IF kind[v] = "mixin" THEN <<Object>> ELSE direct[v])
Places(v)  == (IF kind[v] = "type" THEN <<v>> ELSE <<>>) \o TypesOf(v) \o <<All>>
\* Where a property is found that the types in has hold.
FirstOf(places, has, nowhere) ==
  LET with == SelectSeq(places, LAMBDA t : t \in has) IN IF with = <<>> THEN nowhere ELSE Head(with)
\* All that v matches.
Matched(v) == ToSet(Places(v))
==============================================================================
