--------------------------- MODULE InterestPromise ---------------------------
(***************************************************************************)
(* What a Face promises about each Interest that is expressed: it gets at  *)
(* most one result, the result is chosen before its callback is called,    *)
(* and an Interest which is removed before that gets none.                 *)
(***************************************************************************)
CONSTANT Ids   \* the IDs of the Interests

VARIABLE state

States == {"unused", "pending", "chosen", "told", "removed"}

Moves(ids, from, to) ==
  /\ \A id \in ids : state[id] = from
  /\ state' = [id \in Ids |-> IF id \in ids THEN to ELSE state[id]]

Init == state = [id \in Ids |-> "unused"]

Express(id) == Moves({id}, "unused", "pending")

(* A Data or a Nack can be the result of many Interests at once.           *)
Choose(ids) == Moves(ids, "pending", "chosen")

Tell(id) == Moves({id}, "chosen", "told")

(* Removed by the application, before or after it is pending, or expired   *)
(* without a callback.                                                     *)
Remove(id) == Moves({id}, "pending", "removed")
Forget(id) == Moves({id}, "unused", "removed")

Next ==
  \/ \E id \in Ids : Express(id) \/ Tell(id) \/ Remove(id) \/ Forget(id)
  \/ \E ids \in SUBSET Ids : Choose(ids)

Spec == Init /\ [][Next]_state
=============================================================================
