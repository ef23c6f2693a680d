-------------------------- MODULE SessionLifecycle --------------------------
(***************************************************************************)
(* What the server promises about sessions, without requests, threads,     *)
(* memory or time: a session is requested, confirmed and ended, each at    *)
(* most once and in that order; its log is heard only while it lives.      *)
(***************************************************************************)
CONSTANT Sessions

VARIABLES
  stage,      \* how far each session has come
  listening   \* the sessions whose log messages are forwarded

Live == {s \in Sessions : stage[s] \in {"requested", "confirmed"}}

Init ==
  /\ stage = [s \in Sessions |-> "none"]
  /\ listening = {}

Request(s) ==
  /\ stage[s] = "none"
  /\ stage' = [stage EXCEPT ![s] = "requested"]
  /\ UNCHANGED listening

Confirm(s) ==
  /\ stage[s] = "requested"
  /\ stage' = [stage EXCEPT ![s] = "confirmed"]
  /\ UNCHANGED listening

Listen(s) ==
  /\ s \in Live
  /\ listening' = listening \cup {s}
  /\ UNCHANGED stage

Mute(s) ==
  /\ listening' = listening \ {s}
  /\ UNCHANGED stage

\* One sweep may end several sessions.
End(gone) ==
  /\ stage' = [s \in Sessions |-> IF s \in gone THEN "gone" ELSE stage[s]]
  /\ listening' = listening \ gone

Next ==
  \/ \E s \in Sessions : Request(s) \/ Confirm(s) \/ Listen(s) \/ Mute(s)
  \/ \E gone \in SUBSET Live : End(gone)

Spec == Init /\ [][Next]_<<stage, listening>>
=============================================================================
