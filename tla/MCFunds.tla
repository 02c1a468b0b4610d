------------------------------ MODULE MCFunds ------------------------------
(***************************************************************************)
(* An instance of FundsTransfer for TLC: coins from X to Y and dollars     *)
(* back.                                                                   *)
(***************************************************************************)
EXTENDS FundsProperties, TLC

CONSTANTS X, Y, Coins, Dollars

ThereAndBack == (Coins :> X) @@ (Dollars :> Y)
Receivers == (Coins :> Y) @@ (Dollars :> X)
Amounts == (Coins :> 20) @@ (Dollars :> 60)
Fees == (X :> 4) @@ (Y :> 5)

\* The property of the deposits is about such amounts.
ASSUME InstanceTellsApart == Distinguishable
=============================================================================
