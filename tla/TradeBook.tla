------------------------------ MODULE TradeBook ------------------------------
(***************************************************************************)
(* What the engine promises about its trading database, whatever fails and *)
(* whenever it is stopped: the book of orders follows the exchange from    *)
(* below.  Trades are entered after they were made, are never taken back,  *)
(* and an order is settled once, after it left the exchange's book, with   *)
(* all that it traded.                                                     *)
(*                                                                         *)
(* LiveRunner implements it when the exchange's answers are not stale, see *)
(* Book in EngineProperties.                                               *)
(***************************************************************************)
EXTENDS Integers

CONSTANTS Orders, Size

VARIABLES
  executed,  \* what each order has traded on the exchange
  gone,      \* the orders that will trade no more
  booked,    \* what each order has traded according to the book
  settled    \* the orders whose entry is final

vars == <<executed, gone, booked, settled>>

Init ==
  /\ executed = [o \in Orders |-> 0] /\ gone = {}
  /\ booked = [o \in Orders |-> 0] /\ settled = {}

\* The order trades one unit, which may be its last.
Execute(o) ==
  /\ o \notin gone /\ executed[o] < Size
  /\ executed' = [executed EXCEPT ![o] = @ + 1]
  /\ gone' \in {gone, gone \cup {o}}
  /\ UNCHANGED <<booked, settled>>

Leave(o) ==
  /\ gone' = gone \cup {o}
  /\ UNCHANGED <<executed, booked, settled>>

\* What the order had traded at some moment is entered: it may have traded
\* more by now, but what is in the book already is not taken back.
Enter(o) ==
  /\ o \notin settled
  /\ \E amount \in booked[o]..executed[o] : booked' = [booked EXCEPT ![o] = amount]
  /\ UNCHANGED <<executed, gone, settled>>

\* The order has left: all it traded is entered, for good.
Settle(o) ==
  /\ o \in gone \ settled
  /\ booked' = [booked EXCEPT ![o] = executed[o]]
  /\ settled' = settled \cup {o}
  /\ UNCHANGED <<executed, gone>>

Next == \E o \in Orders : Execute(o) \/ Leave(o) \/ Enter(o) \/ Settle(o)

Spec == Init /\ [][Next]_vars
=============================================================================
