------------------------------ MODULE Arbitrage ------------------------------
(***************************************************************************)
(* lib/arbitrage.py: the crosses between the books of two exchanges, and   *)
(* how much of one can be taken.  A fee is a number of FeeUnit-ths of the  *)
(* price; fees and balances are therefore counted in FeeUnit-ths too.      *)
(***************************************************************************)
EXTENDS Orderbooks

CONSTANT FeeUnit

(***************************************************************************)
(* detect_directional_cross: the asks of the one book and the bids of the  *)
(* other are worked off against each other.  The loop ends when the last   *)
(* level of either is reached, whatever remains of it, and it counts the   *)
(* levels of the sell book by its asks: the next bid may not be there.     *)
(***************************************************************************)
Nothing == [a |-> 0, b |-> 0, askLeft |-> 0, bidLeft |-> 0,
            volume |-> 0, revenue |-> 0, fees |-> 0, stop |-> "no"]

NextLevels(at, asks, bids) ==
  LET a == IF at.askLeft = 0 THEN at.a + 1 ELSE at.a
      b == IF at.bidLeft = 0 THEN at.b + 1 ELSE at.b
  IN  IF b > Len(bids) THEN [at EXCEPT !.stop = "IndexError"]
      ELSE [at EXCEPT !.a = a, !.b = b,
                      !.askLeft = IF @ = 0 THEN asks[a].volume ELSE @,
                      !.bidLeft = IF @ = 0 THEN bids[b].volume ELSE @]

TakeOverlap(at, ask, bid, buyFee, sellFee) ==
  LET volume == Min({at.askLeft, at.bidLeft})
  IN  IF bid <= ask THEN [at EXCEPT !.stop = "done"]
      ELSE [at EXCEPT !.volume = @ + volume,
                      !.revenue = @ + (bid - ask) * volume,
                      !.fees = @ + (bid * sellFee + ask * buyFee) * volume,
                      !.askLeft = @ - volume,
                      !.bidLeft = @ - volume]

MatchLevels(buy, sell, buyFee, sellFee) ==
  LET Round(at, step) ==
        LET next == NextLevels(at, buy.asks, sell.bids)
        IN  IF at.stop # "no" \/ at.a >= Len(buy.asks) \/ at.b >= Len(sell.asks)
            THEN at
            ELSE IF next.stop # "no" THEN next
            ELSE TakeOverlap(next, buy.asks[next.a].price, sell.bids[next.b].price,
                             buyFee, sellFee)
  IN  FoldLeft(Round, Nothing, buy.asks \o sell.bids \o sell.asks)

Raises(buy, sell) ==
  /\ buy.asks # <<>> /\ sell.bids # <<>>
  /\ MatchLevels(buy, sell, 0, 0).stop = "IndexError"

\* The cross, if there is one and it pays its fees.
DirectionalCross(buy, sell, buyFee, sellFee) ==
  LET end == MatchLevels(buy, sell, buyFee, sellFee)
  IN  IF \/ buy.asks = <<>> \/ sell.bids = <<>> \/ end.volume = 0
         \/ end.revenue * FeeUnit <= end.fees
      THEN {}
      ELSE {[volume |-> end.volume, revenue |-> end.revenue, fees |-> end.fees]}

\* A bug: whole orders are paid for without their fee.
MaxBuyVolume_NoFee(balance, asks, fee) ==
  LET Cost(orders) == ValueOf(orders) * FeeUnit
      n == Max({i \in 0..Len(asks) : Cost(SubSeq(asks, 1, i)) <= balance})
      orders == SubSeq(asks, 1, n)
  IN  IF n = Len(asks) THEN [whole |-> VolumeOf(asks), part |-> 0, of |-> 1]
      ELSE [whole |-> VolumeOf(orders), part |-> balance - Cost(orders),
            of |-> asks[n + 1].price * (FeeUnit + fee)]

(***************************************************************************)
(* max_buy_volume: whole orders while the balance pays for them with their *)
(* fee, then the part of the next one that the rest of it pays for.  The   *)
(* volume is whole + part / of.                                            *)
(***************************************************************************)
MaxBuyVolume(balance, asks, fee) ==
  LET Cost(orders) == ValueOf(orders) * (FeeUnit + fee)
      paid == {i \in 0..Len(asks) : Cost(SubSeq(asks, 1, i)) <= balance}
      n == Max(paid)
      orders == SubSeq(asks, 1, n)
  IN  IF n = Len(asks) THEN [whole |-> VolumeOf(asks), part |-> 0, of |-> 1]
      ELSE [whole |-> VolumeOf(orders), part |-> balance - Cost(orders),
            of |-> asks[n + 1].price * (FeeUnit + fee)]

(***************************************************************************)
(* get_executable_volume: coins are the balance of the exchange that is    *)
(* sold on, money that of the one that is bought on.                       *)
(***************************************************************************)
ExecutableVolume(cross, asks, fee, money, coins) ==
  LET sell == Min({cross.volume, coins})
      buy == MaxBuyVolume(money, asks, fee)
  IN  IF buy.whole * buy.of + buy.part < sell * buy.of THEN buy
      ELSE [whole |-> sell, part |-> 0, of |-> 1]
=============================================================================
