------------------------------ MODULE LogShipping ------------------------------
(***************************************************************************)
(* What replication promises, without processes, files or messages: the    *)
(* positions of a log are delivered in its order and none twice.  The log  *)
(* grows behind all it holds, and part of it may be lost to whoever comes  *)
(* later.  Positions may be left out, and they are when a slave dies       *)
(* between recording its cursor and applying what it received.             *)
(***************************************************************************)
EXTENDS Integers, Sequences

VARIABLES
  log,           \* positions of the records no crash can take away
  lost,          \* positions of records the log held and does not any more
  delivered      \* positions delivered, in that order

Before(a, b) == a.f < b.f \/ (a.f = b.f /\ a.p < b.p)

Init == log = {} /\ lost = {} /\ delivered = <<>>

\* Records become durable behind all the log holds.
Extend ==
  /\ log \subseteq log'
  /\ \A a \in log, b \in log' \ log : Before(a, b)
  /\ UNCHANGED <<lost, delivered>>

\* Part of the log is lost.
Forget ==
  /\ log' \subseteq log
  /\ lost' = lost \cup (log \ log')
  /\ UNCHANGED delivered

\* A record may be on its way when the log loses it.
Deliver ==
  /\ \E a \in log \cup lost :
       /\ \A i \in DOMAIN delivered : Before(delivered[i], a)
       /\ delivered' = Append(delivered, a)
  /\ UNCHANGED <<log, lost>>

Next == Extend \/ Forget \/ Deliver

Spec == Init /\ [][Next]_<<log, lost, delivered>>

=============================================================================
