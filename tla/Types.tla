--------------------------------- MODULE Types ---------------------------------
(***************************************************************************)
(* Types and mixins (avm_value.cpp; newTbl, newType and newMixin of        *)
(* avm_table.cpp; typ_object.cpp, typ_mixin.cpp, typ_all.cpp). A value     *)
(* points to its type, and a type to what it hands down (inheritype):      *)
(* nothing, one type, or an array of them. addMixin makes the array, or    *)
(* changes it where it is, and lookups follow the pointers down, depth     *)
(* first. The promise is module Traits.                                    *)
(*                                                                         *)
(* Which types hold a property is left open: a lookup is asked about every *)
(* set of them. Values of other encodings have fixed types and are left    *)
(* out, lists are typed like indexes, and the call of a mixin's Init, which*)
(* addMixin ends with, is one more step.                                   *)
(***************************************************************************)
EXTENDS Naturals, SequencesExt

CONSTANTS
  Table, Object, All,
  Array,        \* arrays of types
  None,
  Irregular,    \* what the code lets happen and gets wrong: "cycle", "alias" (see README.md)
  Root,         \* bound: types that stay as they are
  MaxTypes      \* bound: types in an array

VARIABLES
  tbl,   \* flags1 (as a kind), type and inheritype of each table
  arr    \* what each array that was made holds

vars == <<tbl, arr>>

isArr(x)  == x \in Array
isTbl(x)  == x \in Table
isType(x) == isTbl(x) /\ tbl[x].kind \in {"type", "mixin"}
isPrototype(x) == isTbl(x) /\ tbl[x].kind = "type"
Tables == {t \in Table : tbl[t].kind # "none"}

unmade == [kind |-> "none", type |-> None, inheritype |-> None]
Init ==
  /\ tbl = [t \in Table |->
       CASE t = Object -> [unmade EXCEPT !.kind = "type"]
         [] t = All -> [unmade EXCEPT !.kind = "mixin", !.type = Object]
         [] OTHER -> unmade]
  /\ arr = [a \in Array |-> <<>>]

(***************************************************************************)
(* Lookup of a property that the types in has hold: which one is asked.    *)
(***************************************************************************)
getType(v) == tbl[v].type

RECURSIVE getPropR(_, _)
\* A slip: the types of an array are searched before what they inherit is.
RECURSIVE getPropRWide(_, _)
getPropRWide(type, has) ==
  LET below(t) == getPropRWide(tbl[t].inheritype, has)
      first(f(_), types) == FoldLeft(LAMBDA found, t : IF found # None THEN found ELSE f(t), None, types)
      own(t) == IF t \in has THEN t ELSE None
      among(types) == IF first(own, types) # None THEN first(own, types) ELSE first(below, types)
  IN CASE isType(type) -> among(<<type>>) [] isArr(type) -> among(arr[type]) [] OTHER -> None
getPropR(type, has) ==
  LET in(t) == IF t \in has THEN t ELSE getPropR(tbl[t].inheritype, has)
  IN CASE isType(type) -> in(type)
       [] isArr(type)  -> FoldLeft(LAMBDA found, t : IF found # None THEN found ELSE in(t), None, arr[type])
       [] OTHER        -> None

getProperty(self, has) ==
  LET inherited == getPropR(getType(self), has)
  IN CASE isPrototype(self) /\ self \in has -> self
       [] inherited # None -> inherited
       [] All \in has -> All
       [] OTHER -> None

RECURSIVE object_matchR(_, _)
object_matchR(type, valtype) ==
  \/ isType(valtype) /\ (valtype = type \/ object_matchR(type, tbl[valtype].inheritype))
  \/ isArr(valtype) /\ \E i \in DOMAIN arr[valtype] :
       LET t == arr[valtype][i] IN t = type \/ object_matchR(type, tbl[t].inheritype)
\* Of a self that has no property 'traits'.
object_match(self, val) ==
  \/ isPrototype(self) /\ self = val
  \/ self = All
  \/ object_matchR(self, getType(val))

(***************************************************************************)
(* What a lookup that starts at t can come to.                             *)
(***************************************************************************)
next(t) ==
  LET x == tbl[t].inheritype IN CASE isTbl(x) -> {x} [] isArr(x) -> ToSet(arr[x]) [] OTHER -> {}
Reached == LET step(S) == S \cup UNION {next(t) : t \in S}
           IN [t \in Table |-> FoldLeft(LAMBDA S, i : step(S), next(t), [i \in 1 .. Cardinality(Table) |-> i])]
\* Nothing is to become its own ancestor, which no line checks.
mayInherit(v, t) == v = t \/ v \in Reached[t] => "cycle" \in Irregular

(***************************************************************************)
(* Operations.                                                             *)
(***************************************************************************)
newType(t, type) ==
  tbl' = [tbl EXCEPT ![t] = [kind |-> "type", type |-> type, inheritype |-> type]] /\ UNCHANGED arr
newMixin(t, type, inheritype) ==
  tbl' = [tbl EXCEPT ![t] = [kind |-> "mixin", type |-> type, inheritype |-> inheritype]] /\ UNCHANGED arr
newTbl(t, type) ==
  tbl' = [tbl EXCEPT ![t] = [kind |-> "index", type |-> type, inheritype |-> None]] /\ UNCHANGED arr

object_new(t, self) == isType(self) /\ newType(t, self)
mixin_new(t)        == newMixin(t, Object, None)
\* The type is the property 'traits', which may be the very array that is another value's type.
index_new(t, traits) == (isArr(traits) => "alias" \in Irregular) /\ newTbl(t, traits)

\* Of a value that is no mixin.
setType(val, type) ==
  /\ tbl[val].kind # "mixin" /\ isType(type) /\ mayInherit(val, type)
  /\ tbl' = [tbl EXCEPT ![val].type = type, ![val].inheritype = IF isPrototype(val) THEN type ELSE @]
  /\ UNCHANGED arr

isMixin(val) == isType(val) /\ ~isPrototype(val)
\* val with the array for its type, or for what it hands down.
typed(val, arrtype) ==
  [tbl[val] EXCEPT !.type = IF isMixin(val) THEN @ ELSE arrtype, !.inheritype = IF isType(val) THEN arrtype ELSE @]
\* A slip: the new mixin goes behind the others.
mixedLast(mixin, types) == Append(types, mixin)
mixed(mixin, types) == <<mixin>> \o types
addMixin(val, mixin) ==
  LET type == IF isMixin(val) THEN tbl[val].inheritype ELSE tbl[val].type IN
  /\ isType(mixin) /\ mayInherit(val, mixin)
  /\ IF isArr(type)
     THEN Len(arr[type]) < MaxTypes /\ arr' = [arr EXCEPT ![type] = mixed(mixin, @)] /\ UNCHANGED tbl
     ELSE \E a \in Array :
            /\ arr[a] = <<>>
            /\ arr' = [arr EXCEPT ![a] = mixed(mixin, IF type = None THEN <<>> ELSE <<type>>)]
            /\ tbl' = [tbl EXCEPT ![val] = typed(val, a)]

Next ==
  \/ \E t \in Table \ Tables :
       mixin_new(t) \/ \E x \in Tables : object_new(t, x) \/ (isType(x) /\ index_new(t, x))
  \/ \E t \in Table \ Tables, x \in Tables : ~isMixin(x) /\ getType(x) # None /\ index_new(t, getType(x))
  \/ \E x \in Tables \ Root, y \in Tables : addMixin(x, y) \/ setType(x, y)

Spec == Init /\ [][Next]_vars
------------------------------------------------------------------------------
TypeOK ==
  LET Ref == Table \cup Array \cup {None} IN
  /\ tbl \in [Table -> [kind : {"none", "type", "mixin", "index"}, type : Ref, inheritype : Ref]]
  /\ \A a \in Array : arr[a] \in Seq(Table)

Typed(x) == CASE isTbl(x) -> <<x>> [] isArr(x) -> arr[x] [] OTHER -> <<>>
Promise == INSTANCE Traits WITH
  kind   <- [t \in Table |-> tbl[t].kind],
  direct <- [t \in Table |-> Typed(IF isMixin(t) THEN tbl[t].inheritype ELSE tbl[t].type)]
ImplementsTraits == Promise!Spec

\* A lookup ends, finds the property where the order of the types says, and a value matches just what it can look
\* up through: whatever was made of what and mixed into what before, and although a type points to its types twice
\* and only getPropR walks arrays in arrays of types.
AnswersRight ==
  LET types == {t \in Tables : isType(t)} IN
  /\ TypeOK
  /\ LET reached == Reached IN \A t \in Tables : t \notin reached[t]
  /\ \A t \in Tables : LET places == Promise!Places(t) IN \A has \in SUBSET types :
       getProperty(t, has) = Promise!FirstOf(places, has, None)
  /\ \A t \in Tables : {s \in types : object_match(s, t)} = Promise!Matched(t)
==============================================================================
