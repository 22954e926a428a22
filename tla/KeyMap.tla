------------------------------- MODULE KeyMap -------------------------------
(***************************************************************************)
(* What an Acorn table promises its users: an association from keys to     *)
(* values.  did says which operation was called with what; it does what    *)
(* its name says to the key it was called with, and nothing to any other.  *)
(* null may be stored as a value, so "no entry" is distinct from every     *)
(* value.                                                                  *)
(***************************************************************************)
CONSTANTS
  Key,  \* what may be used as a key: any value but null
  Val   \* what may be stored under a key, null included

VARIABLES
  map,  \* map[k]: <<v>> if k has the value v, <<>> if k is not in the table
  did   \* the last operation, with its operands

vars == <<map, did>>

NoEntry == <<>>

Init == map = [k \in Key |-> NoEntry] /\ did = <<"new">>

Set(k, v)    == did' = <<"set", k, v>> /\ map' = [map EXCEPT ![k] = <<v>>]
Remove(k)    == did' = <<"remove", k>> /\ map' = [map EXCEPT ![k] = NoEntry]
Resize(size) == did' = <<"resize", size>> /\ map' = map

\* (What was done is asked for first, because TLC tries every operand.)
Next ==
  \/ did'[1] = "set" /\ \E k \in Key, v \in Val : Set(k, v)
  \/ did'[1] = "remove" /\ \E k \in Key : Remove(k)
  \/ did'[1] = "resize" /\ \E size \in {did'[2]} : Resize(size)

Spec == Init /\ [][Next]_vars
=============================================================================
