------------------------------- MODULE MCExpiry -------------------------------
(***************************************************************************)
(* Expiry on a small instance: two databases, the key in the first and its *)
(* expiry records in the second.                                           *)
(***************************************************************************)
EXTENDS Expiry

CommonStripe == [k \in Keys |-> "common"]

OneDb    == [k \in Keys |-> 0]
SecondDb == [k \in Keys |-> [p \in Pads |-> 1]]

=============================================================================
