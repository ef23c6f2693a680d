--------------------------- MODULE JsonRPCCoreMC ---------------------------
(* Small instances of JsonRPCCore for TLC: one call of each kind.  Of functions  *)
(* that are given parameters they do not take only a notification is among the *)
(* ordinary calls: a call of one is answered twice.                            *)
EXTENDS JsonRPCWire

ping == [kind |-> "call", id |-> TRUE, version |-> TRUE, method |-> "plain", params |-> "absent", throws |-> FALSE]

Ordinary ==
  {ping,
   [ping EXCEPT !.id = FALSE],
   [ping EXCEPT !.id = FALSE, !.method = "silent"],
   [ping EXCEPT !.method = "param", !.params = "good"],
   [ping EXCEPT !.method = "param", !.params = "bad"],
   [ping EXCEPT !.version = FALSE],
   [ping EXCEPT !.id = FALSE, !.method = "unknown"],
   [ping EXCEPT !.id = FALSE, !.params = "good"],
   [ping EXCEPT !.throws = TRUE],
   [ping EXCEPT !.id = FALSE, !.method = "silent", !.throws = TRUE]}

\* The ids of up to seven answers; 0 is the id null.
Digits == [n \in 0..7 |-> ToString(n)]

WithBadParams == {ping, [ping EXCEPT !.method = "param", !.params = "bad"]}
=============================================================================
