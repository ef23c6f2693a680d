--------------------------- MODULE JsonRPCService ---------------------------
(***************************************************************************)
(* What a JSON-RPC endpoint owes the caller, whatever carries it: calls    *)
(* are taken in the order they are sent, each that has an id is answered   *)
(* once, with its id and before the next is taken, and after a complaint   *)
(* about the input as such (with id null) nothing is taken any more.       *)
(***************************************************************************)
EXTENDS Naturals, Sequences

CONSTANT Places     \* where calls stand in the input, from 1

VARIABLES
  taken,      \* the place of the last call that was taken, 0 at the start, and whether it has an id
  answered,   \* the ids of the answers, in order: the places of calls, or 0 for null
  open        \* calls may still be taken

svars == <<taken, answered, open>>

Init == taken = [place |-> 0, id |-> FALSE] /\ answered = <<>> /\ open = TRUE

\* The call at place n is taken, perhaps as the last one.  One with an id is answered,
\* a notification only when it fails, with id null.
Serve(n, id) ==
  /\ open
  /\ n > taken.place
  /\ taken' = [place |-> n, id |-> id]
  /\ answered' \in IF id THEN {Append(answered, n)} ELSE {Append(answered, 0), answered}
  /\ open' \in BOOLEAN

Complain ==
  /\ open
  /\ answered' = Append(answered, 0)
  /\ open' = FALSE
  /\ UNCHANGED taken

\* The input ends.
Close == open' = FALSE /\ UNCHANGED <<taken, answered>>

Next == (\E n \in Places, id \in BOOLEAN : Serve(n, id)) \/ Complain \/ Close

Spec == Init /\ [][Next]_svars
=============================================================================
