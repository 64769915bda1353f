----------------------------- MODULE MeteredRun -----------------------------
(***************************************************************************)
(* What the server promises about one run and its bill, whatever requests, *)
(* the agent and failures do: the run begins and ends once, the agent is   *)
(* asked once and only on credit, usage arises only while the run is       *)
(* active, each measurement is counted once, and what is paid after the    *)
(* end is what was measured.  RunStream implements this.                   *)
(***************************************************************************)
EXTENDS Naturals

CONSTANTS Keys,         \* the measurements a run may take
          Costs         \* what one of them may cost

VARIABLES phase,        \* "absent", "active" or "ended"
          credit,       \* "none", "reserved", "settled" or "released"
          calls,        \* how often the agent was asked to run it
          measured,     \* the keys of the measurements taken
          cost,         \* what these cost together
          paid

usage == <<calls, measured, cost>>
vars == <<phase, credit, usage, paid>>

Init ==
  /\ phase = "absent" /\ credit = "none"
  /\ calls = 0 /\ measured = {} /\ cost = 0
  /\ paid = 0

Begin == phase = "absent" /\ phase' = "active" /\ UNCHANGED <<credit, usage, paid>>

Reserve ==
  /\ phase = "active" /\ credit = "none"
  /\ credit' = "reserved"
  /\ UNCHANGED <<phase, usage, paid>>

Call ==
  /\ phase = "active" /\ credit = "reserved" /\ calls = 0
  /\ calls' = 1
  /\ UNCHANGED <<phase, credit, measured, cost, paid>>

Measure(key) ==
  /\ phase = "active" /\ credit = "reserved" /\ key \notin measured
  /\ measured' = measured \cup {key}
  /\ \E c \in Costs : cost' = cost + c
  /\ UNCHANGED <<phase, credit, calls, paid>>

End == phase = "active" /\ phase' = "ended" /\ UNCHANGED <<credit, usage, paid>>

Settle ==
  /\ phase = "ended" /\ credit = "reserved" /\ measured # {}
  /\ credit' = "settled"
  /\ paid' = cost
  /\ UNCHANGED <<phase, usage>>

Release ==
  /\ phase = "ended" /\ credit = "reserved" /\ measured = {}
  /\ credit' = "released"
  /\ UNCHANGED <<phase, usage, paid>>

Next ==
  \/ Begin \/ Reserve \/ Call \/ (\E key \in Keys : Measure(key)) \/ End \/ Settle \/ Release

Spec == Init /\ [][Next]_vars
=============================================================================
