--------------------------- MODULE ClientServerMC ---------------------------
(* A small instance of ClientServer for TLC: others send every single call, under its  *)
(* own method or hidden behind another, and an array whose second call is hidden.      *)
EXTENDS ClientServer

SinglesAndOneArray ==
  {body \in Body : ~body.array}
    \cup {[array |-> TRUE, found |-> "ping",
           calls |-> <<[method |-> "ping", arg |-> 0], [method |-> "logging/setLevel", arg |-> 1]>>]}
=============================================================================
