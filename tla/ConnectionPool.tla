--------------------------- MODULE ConnectionPool ---------------------------
(***************************************************************************)
(* ConnectionPool: connections are opened when no spare one is left, lent, *)
(* and become spare when they are returned; none is ever closed.           *)
(***************************************************************************)
EXTENDS Naturals, Sequences

VARIABLES
  pool,       \* the number of connections in the list; a connection is its position
  spare       \* the vector of those that are not lent, the next to lend last

poolVars == <<pool, spare>>

PoolInit == pool = 0 /\ spare = <<>>

\* Slip: the spare connection that is lent stays in the vector.
GetConnectionKept(c) ==
  IF spare # <<>>
  THEN c = spare[Len(spare)] /\ UNCHANGED poolVars
  ELSE c = pool + 1 /\ pool' = c /\ UNCHANGED spare

\* Slip: what is lent was not put in the list.
GetConnectionUnlisted(c) ==
  IF spare # <<>>
  THEN c = spare[Len(spare)] /\ spare' = SubSeq(spare, 1, Len(spare) - 1) /\ UNCHANGED pool
  ELSE c = pool + 1 /\ UNCHANGED poolVars

\* Connection c is lent.
GetConnection(c) ==
  IF spare # <<>>
  THEN c = spare[Len(spare)] /\ spare' = SubSeq(spare, 1, Len(spare) - 1) /\ UNCHANGED pool
  ELSE c = pool + 1 /\ pool' = c /\ UNCHANGED spare

\* Slip: a connection is dropped when it is returned.
ReturnConnectionLost(c) == UNCHANGED poolVars

ReturnConnection(c) == spare' = Append(spare, c) /\ UNCHANGED pool
=============================================================================
