---------------------------- MODULE MCLiveRunner ----------------------------
(***************************************************************************)
(* Instances of LiveRunner for TLC.                                        *)
(***************************************************************************)
EXTENDS EngineProperties

\* A bid and then an ask.
BidThenAsk == [o \in OrderIds |-> IF o % 2 = 1 THEN 1 ELSE -1]
=============================================================================
