---------------------------- MODULE JsonRPCWire ----------------------------
(***************************************************************************)
(* What JsonRPCCore's answers to a batch look like to a client of the      *)
(* HTTP server: the text that ServerContext writes, read as a stream of    *)
(* events (which SSEReader shows SSEInfo to do).                           *)
(***************************************************************************)
EXTENDS JsonRPCCore, EventStream

CONSTANT Numerals   \* how numbers are written; a numeral counts as one character

ASSUME NumeralsAssumption ==
  \A n \in DOMAIN Numerals : Numerals[n] \notin {LineFeed, CarriageReturn, NUL}

\* Numbers that the constant leaves out are not told apart.
Numeral(n) == IF n \in DOMAIN Numerals THEN Numerals[n] ELSE "many"

\* The characters a piece of a stream is written with; names and answers count as one.
Characters(piece) ==
  CASE piece.mark = "blank" -> <<CarriageReturn, LineFeed, CarriageReturn, LineFeed>>
    [] piece.mark = "id" -> <<"id", ":", Space, Numeral(piece.number), CarriageReturn, LineFeed>>
    [] piece.mark = "item" -> <<"data", ":", Space, Numeral(piece.number)>>

Written == FlattenSeq([i \in DOMAIN context.text |-> Characters(context.text[i])])

\* A client that reads what a batch was answered finds one event for every answer, in order
\* and numbered from 1, also when the batch is given up halfway and when none of its calls
\* is answered (ServerContext::addItem and ~ServerContext).
EventsCarryAnswers ==
  transport = "server" /\ pc = "stopped" /\ context.stream =>
    Events(Written) =
      [i \in DOMAIN answers |-> [id |-> <<Numeral(i)>>, event |-> <<>>, data |-> <<Numeral(answers[i].id)>>]]
=============================================================================
