---------------------------- MODULE HeaderFields ----------------------------
(***************************************************************************)
(* What the driver of the VDIF header promises: a call sets one field to   *)
(* the value asked for, passing through the empty value, and no other      *)
(* field moves.                                                            *)
(***************************************************************************)
CONSTANTS Names, Values(_)

VARIABLES field,  \* what the formatter sees of each field
          call    \* the call under way: [name, value], or None

None == [name |-> "none"]

Init == field = [n \in Names |-> {}] /\ call = None

Clear(n) == /\ call = None
            /\ \E v \in Values(n) : call' = [name |-> n, value |-> v]
            /\ field' = [field EXCEPT ![n] = {}]

Put == /\ call # None
       /\ field' = [field EXCEPT ![call.name] = call.value]
       /\ call' = None

(* Fields that fill a whole register take one write.                       *)
Set(n) == /\ call = None /\ call' = None
          /\ \E v \in Values(n) : field' = [field EXCEPT ![n] = v]

Next == Put \/ \E n \in Names : Clear(n) \/ Set(n)

Spec == Init /\ [][Next]_<<field, call>>
=============================================================================
