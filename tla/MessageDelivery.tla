--------------------------- MODULE MessageDelivery ---------------------------
(***************************************************************************)
(* What an outbox promises about its messages, whoever delivers them and   *)
(* whatever is lost: a message is called delivered only after its receiver *)
(* accepted it, one that may not be dropped is due until then, and what is *)
(* delivered or dropped is never due again.  The receiver may accept a     *)
(* message more than once, and late.  DeliveryOutbox implements this.      *)
(***************************************************************************)
EXTENDS Naturals

CONSTANTS Messages,
          Droppable     \* the messages that may be superseded or given up

VARIABLES outcome,      \* per message: what has become of it
          accepted      \* how often its receiver accepted it

vars == <<outcome, accepted>>

Init ==
  /\ outcome = [m \in Messages |-> "absent"]
  /\ accepted = [m \in Messages |-> 0]

Becomes(m, o) ==
  /\ outcome' = [outcome EXCEPT ![m] = o]
  /\ UNCHANGED accepted

Submit(m) == outcome[m] = "absent" /\ Becomes(m, "due")

Deliver(m) == outcome[m] = "due" /\ accepted[m] > 0 /\ Becomes(m, "delivered")

GiveUp(m) == outcome[m] = "due" /\ Becomes(m, "dead")

Supersede(m) == outcome[m] \in {"due", "dead"} /\ Becomes(m, "superseded")

\* Requests that were on their way are accepted, never one of a message nobody submitted.
Accept ==
  /\ accepted' \in [Messages -> Nat]
  /\ \A m \in Messages :
       /\ accepted'[m] >= accepted[m]
       /\ outcome[m] = "absent" => accepted'[m] = accepted[m]
  /\ UNCHANGED outcome

Next ==
  \/ \E m \in Messages : Submit(m) \/ Deliver(m)
  \/ \E m \in Droppable : GiveUp(m) \/ Supersede(m)
  \/ Accept

Spec == Init /\ [][Next]_vars
=============================================================================
