----------------------------- MODULE LibraryProofs -----------------------------
(***************************************************************************)
(* The strategies' libraries, of any input.  The market makers' prices and *)
(* positions, for all sizes, books and fills: the bound on the position,   *)
(* and the distance of the prices from the middle of the book.  Of the     *)
(* position, both strategies are one here: "simple" has its base volume    *)
(* for a maximum and no multiplier.  Then the settings, of any file and    *)
(* any command line.                                                       *)
(***************************************************************************)
EXTENDS LibraryProperties, SumTheorems

Cap == IF strategy = "simple" THEN BaseVolume ELSE MaxPosition
MostOrdered == IF strategy = "simple" THEN BaseVolume ELSE BaseVolume * Multiplier

MakerTypeOK ==
  /\ strategy \in {"simple", "linear"}
  /\ position \in Int /\ booked \in Int
  /\ open \in [Sides -> Int] /\ sizes \in [Sides -> Int]
  /\ unknown \in [Sides -> Int] /\ lost \in [Sides -> Int] /\ strayed \in Int
  /\ listed \subseteq Sides
  /\ phase \in {"consolidate", "list", "cancel", "bid", "ask", "failed"}

OpenBounded == \A side \in Sides : open[side] >= 0 /\ open[side] <= MostOrdered

(***************************************************************************)
(* How far the position and the open order may get from the position in    *)
(* the database until the next order of the side is sized: by one order.   *)
(***************************************************************************)
Behind ==
  /\ phase \in {"list", "cancel", "bid"} =>
       position - booked + open["BID"] <= MostOrdered
  /\ phase \in {"list", "cancel", "bid", "ask"} =>
       booked - position + open["ASK"] <= MostOrdered

\* What has been cancelled before an order is placed.
Cancelled ==
  /\ phase = "cancel" => \A side \in Sides \ listed : open[side] = 0
  /\ phase = "bid" => open["BID"] = 0
  /\ phase \in {"bid", "ask"} => open["ASK"] = 0

\* The orders that the tick has yet to place.
Planned ==
  \A side \in Sides :
    phase = "bid" \/ (phase = "ask" /\ side = "ASK") =>
      /\ sizes[side] <= MostOrdered
      /\ sizes[side] > 0 => Towards(side) + sizes[side] <= Cap + MostOrdered - BaseVolume

Bounded ==
  /\ position + open["BID"] <= Cap + 2 * MostOrdered - BaseVolume
  /\ -position + open["ASK"] <= Cap + 2 * MostOrdered - BaseVolume

\* What the orders without a row may still do to the position, and have done.
Strays ==
  /\ unknown["BID"] >= 0 /\ unknown["ASK"] >= 0
  /\ strayed + unknown["BID"] <= lost["BID"]
  /\ -strayed + unknown["ASK"] <= lost["ASK"]

IInv == MakerTypeOK /\ OpenBounded /\ Behind /\ Cancelled /\ Planned /\ Bounded /\ Strays

(***************************************************************************)
(* Multiplication is monotonic, and so is what a multiplication adds.      *)
(***************************************************************************)
LEMMA Multiplied ==
  ASSUME NEW u \in Int, NEW b \in Nat, NEW m \in Nat, m >= 1, u <= b
  PROVE  /\ u * m \in Int /\ b * m \in Int
         /\ u * m <= b * m
         /\ u * m - u <= b * m - b
<1>1. u * m \in Int /\ b * m \in Int
  OBVIOUS
<1>2. (b - u) * (m - 1) >= 0
  OBVIOUS
<1>3. (b - u) * (m - 1) = b * m - b - u * m + u
  OBVIOUS
<1> QED
  BY <1>1, <1>2, <1>3

(***************************************************************************)
(* The sizes of Cap and MostOrdered, and what Furthest is in their terms.  *)
(***************************************************************************)
LEMMA SizesOK ==
  ASSUME MakerTypeOK
  PROVE  /\ BaseVolume \in Nat /\ Cap \in Nat /\ MostOrdered \in Nat
         /\ BaseVolume <= MostOrdered
         /\ Furthest = Cap + 2 * MostOrdered - BaseVolume
<1>1. /\ BaseVolume \in Nat /\ MaxPosition \in Nat /\ Multiplier \in Nat
      /\ Multiplier >= 1
  BY SizesAssumption
<1>2. CASE strategy = "simple"
  BY <1>1, <1>2 DEF Cap, MostOrdered, Furthest
<1>3. CASE strategy # "simple"
  <2>1. /\ BaseVolume * Multiplier \in Nat
        /\ BaseVolume <= BaseVolume * Multiplier
    BY <1>1, 0 <= BaseVolume, Multiplied
  <2>2. (2 * Multiplier - 1) * BaseVolume = 2 * (BaseVolume * Multiplier) - BaseVolume
    BY <1>1
  <2> QED
    BY <1>1, <1>3, <2>1, <2>2 DEF Cap, MostOrdered, Furthest
<1> QED
  BY <1>2, <1>3

(***************************************************************************)
(* An order is never too large, and brings the position in the database to *)
(* no more than the cap and what the multiplier adds.                      *)
(***************************************************************************)
LEMMA Sized ==
  ASSUME MakerTypeOK, NEW side \in Sides, NEW wide \in BOOLEAN
  PROVE  /\ SizedVolume(side, wide) \in Int
         /\ SizedVolume(side, wide) <= MostOrdered
         /\ SizedVolume(side, wide) > 0 =>
              Towards(side) + SizedVolume(side, wide) <= Cap + MostOrdered - BaseVolume
<1> DEFINE at == Towards(side)
<1>1. /\ BaseVolume \in Nat /\ MaxPosition \in Nat /\ Multiplier \in Nat
      /\ Multiplier >= 1 /\ at \in Int
  BY SizesAssumption DEF MakerTypeOK, Towards
<1>2. CASE strategy = "simple"
  <2> HIDE DEF at
  <2> QED
    BY <1>1, <1>2 DEF SizedVolume, SimpleVolume, Cap, MostOrdered, at
<1>3. CASE strategy # "simple"
  <2> DEFINE u == LinearVolume(side)
  <2>1. u \in Int /\ u <= BaseVolume /\ at + u <= MaxPosition
    BY <1>1 DEF LinearVolume
  <2>2. /\ SizedVolume(side, wide) = IF wide THEN u * Multiplier ELSE u
        /\ Cap = MaxPosition /\ MostOrdered = BaseVolume * Multiplier
    BY <1>3 DEF SizedVolume, Cap, MostOrdered
  <2> HIDE DEF at, u
  <2>3. /\ u * Multiplier \in Int /\ BaseVolume * Multiplier \in Int
        /\ u * Multiplier <= BaseVolume * Multiplier
        /\ u * Multiplier - u <= BaseVolume * Multiplier - BaseVolume
    BY <1>1, <2>1, Multiplied
  <2>4. BaseVolume <= BaseVolume * Multiplier
    BY <1>1, 0 <= BaseVolume, Multiplied
  <2> QED
    BY <1>1, <2>1, <2>2, <2>3, <2>4 DEF at
<1> QED
  BY <1>2, <1>3

LEMMA InitInv == MakerInit => IInv
<1> SUFFICES ASSUME MakerInit PROVE IInv
  OBVIOUS
<1>1. MakerTypeOK
  BY DEF MakerInit, MakerTypeOK
<1>2. /\ Cap \in Nat /\ MostOrdered \in Nat /\ BaseVolume \in Nat
      /\ BaseVolume <= MostOrdered
  BY <1>1, SizesOK
<1>3. \A side \in Sides : open[side] = 0
  BY DEF MakerInit
<1>4. "BID" \in Sides /\ "ASK" \in Sides
  BY DEF Sides
<1>5. Planned /\ Strays
  BY <1>4 DEF MakerInit, Planned, Strays
<1> QED
  BY <1>1, <1>2, <1>3, <1>4, <1>5
     DEF MakerInit, IInv, OpenBounded, Behind, Cancelled, Bounded

(***************************************************************************)
(* The orders without a row, through every step: what one buys or sells it *)
(* no longer has to, and placing it is losing its volume.                  *)
(***************************************************************************)
LEMMA StraysKept ==
  ASSUME IInv, [MakerNext]_makerVars
  PROVE  /\ Strays'
         /\ strayed' \in Int /\ unknown' \in [Sides -> Int] /\ lost' \in [Sides -> Int]
<1> USE DEF IInv
<1> DEFINE Known == /\ Strays'
                   /\ strayed' \in Int /\ unknown' \in [Sides -> Int]
                   /\ lost' \in [Sides -> Int]
<1>1. /\ unknown \in [Sides -> Int] /\ lost \in [Sides -> Int] /\ sizes \in [Sides -> Int]
      /\ strayed \in Int /\ "BID" \in Sides /\ "ASK" \in Sides
  BY DEF MakerTypeOK, Sides
<1>2. /\ unknown["BID"] \in Int /\ unknown["ASK"] \in Int
      /\ lost["BID"] \in Int /\ lost["ASK"] \in Int
  BY <1>1
<1>3. CASE UNCHANGED strayVars
  BY <1>1, <1>3 DEF Strays, strayVars
<1>4. ASSUME NEW side \in Sides, StrayFills(side) PROVE Known
  <2>1. /\ unknown' = [unknown EXCEPT ![side] = unknown[side] - 1] /\ unknown[side] > 0
        /\ lost' = lost /\ strayed' = strayed + Gain(side)
        /\ side = "BID" \/ side = "ASK"
    BY <1>4 DEF StrayFills, Sides
  <2> QED
    BY <1>1, <1>2, <2>1 DEF Strays, Gain
<1>5. ASSUME NEW side \in Sides, StrayCancelled(side) PROVE Known
  <2>1. PICK left \in 0..(unknown[side] - 1) :
          unknown' = [unknown EXCEPT ![side] = left]
    BY <1>5 DEF StrayCancelled
  <2>2. lost' = lost /\ strayed' = strayed /\ (side = "BID" \/ side = "ASK")
    BY <1>5 DEF StrayCancelled, Sides
  <2>3. left \in Int /\ 0 <= left /\ left <= unknown[side]
    BY <1>1
  <2> QED
    BY <1>1, <1>2, <2>1, <2>2, <2>3 DEF Strays
<1>6. ASSUME NEW side \in Sides, NEW here, LoseAnswer(side, here) PROVE Known
  <2>1. /\ unknown' = [unknown EXCEPT ![side] = unknown[side] + sizes[side]]
        /\ lost' = [lost EXCEPT ![side] = lost[side] + sizes[side]]
        /\ strayed' = strayed /\ sizes[side] > 0 /\ sizes[side] \in Int
        /\ side = "BID" \/ side = "ASK"
    BY <1>1, <1>6 DEF LoseAnswer, Sides
  <2> QED
    BY <1>1, <1>2, <2>1 DEF Strays
<1>7. CASE \E side \in Sides : Fill(side) \/ CancelOrder(side) \/ RecoverCancel(side)
  BY <1>3, <1>7 DEF Fill, CancelOrder, RecoverCancel
<1>8. CASE Consolidate \/ ListOrders \/ SizeOrders \/ PlaceBid \/ PlaceAsk
             \/ RequestFails \/ Recovered \/ UNCHANGED makerVars
  BY <1>3, <1>8 DEF Consolidate, ListOrders, SizeOrders, PlaceBid, PlaceAsk, PlaceOrder,
                    RequestFails, Recovered, makerVars
<1> QED
  BY <1>1, <1>4, <1>5, <1>6, <1>7, <1>8 DEF MakerNext, LoseBid, LoseAsk

(***************************************************************************)
(* The steps that change neither an order with a row nor the position.     *)
(***************************************************************************)
LEMMA Quiet ==
  ASSUME IInv, UNCHANGED <<strategy, position, open>>, Strays',
         strayed' \in Int, unknown' \in [Sides -> Int], lost' \in [Sides -> Int],
         \/ Consolidate \/ ListOrders \/ SizeOrders \/ RequestFails \/ Recovered
         \/ LoseBid \/ LoseAsk \/ \E side \in Sides : StrayFills(side) \/ StrayCancelled(side)
         \/ UNCHANGED makerVars
  PROVE  IInv'
<1> USE DEF IInv
<1> DEFINE Astray == LoseBid \/ LoseAsk
                    \/ \E side \in Sides : StrayFills(side) \/ StrayCancelled(side)
<1>1. /\ Cap \in Nat /\ MostOrdered \in Nat /\ BaseVolume \in Nat
  BY SizesOK
<1>2. Cap' = Cap /\ MostOrdered' = MostOrdered
  BY DEF Cap, MostOrdered
<1>3. CASE Astray
  <2>1. /\ UNCHANGED <<booked, listed, sizes>>
        /\ phase' = phase \/ phase' = "failed"
    BY <1>3 DEF LoseBid, LoseAsk, LoseAnswer, StrayFills, StrayCancelled
  <2>2. MakerTypeOK'
    BY <2>1 DEF MakerTypeOK
  <2>3. OpenBounded' /\ Bounded' /\ Behind' /\ Cancelled'
    BY <1>2, <2>1 DEF OpenBounded, Bounded, Behind, Cancelled
  <2>4. Planned'
    BY <1>2, <2>1 DEF Planned, Towards
  <2> QED
    BY <2>2, <2>3, <2>4
<1>4. CASE ~Astray
  <2>1. sizes' \in [Sides -> Int]
    <3>1. CASE SizeOrders
      BY <3>1, Sized DEF SizeOrders
    <3>2. CASE ~SizeOrders
      BY <1>4, <3>2 DEF MakerTypeOK, Consolidate, ListOrders, RequestFails, Recovered,
                        makerVars
    <3> QED
      BY <3>1, <3>2
  <2>2. MakerTypeOK'
    <3>1. /\ booked' \in Int /\ listed' \subseteq Sides
          /\ phase' \in {"consolidate", "list", "cancel", "bid", "ask", "failed"}
      BY <1>4 DEF MakerTypeOK, Consolidate, ListOrders, SizeOrders, RequestFails,
                  Recovered, makerVars
    <3> QED
      BY <2>1, <3>1 DEF MakerTypeOK
  <2>3. open["BID"] \in Int /\ open["ASK"] \in Int /\ position \in Int
    BY DEF MakerTypeOK, Sides
  <2>4. OpenBounded' /\ Bounded'
    BY <1>2 DEF OpenBounded, Bounded
  <2>5. open["BID"] <= MostOrdered /\ open["ASK"] <= MostOrdered
    BY DEF OpenBounded, Sides
  <2>6. Behind'
    <3>1. CASE Consolidate
      <4>1. \/ booked' = position /\ phase' = "list"
            \/ phase' = "failed"
        BY <3>1 DEF Consolidate
      <4> QED
        BY <1>1, <1>2, <2>3, <2>5, <4>1 DEF Behind
    <3>2. CASE ~Consolidate
      BY <1>2, <1>4, <3>2
         DEF Behind, ListOrders, SizeOrders, RequestFails, Recovered, makerVars
    <3> QED
      BY <3>1, <3>2
  <2>7. Cancelled'
    <3>1. CASE ListOrders
      <4>1. \A side \in Sides \ listed' : open'[side] = 0
        BY <3>1, <2>3 DEF ListOrders, MakerTypeOK, OpenBounded, Sides
      <4> QED
        BY <3>1, <4>1 DEF ListOrders, Cancelled
    <3>2. CASE SizeOrders
      BY <3>2 DEF SizeOrders, Cancelled, Sides
    <3>3. CASE ~ListOrders /\ ~SizeOrders
      BY <1>4, <3>3 DEF Consolidate, RequestFails, Recovered, makerVars, Cancelled
    <3> QED
      BY <3>1, <3>2, <3>3
  <2>8. Planned'
    <3>1. CASE SizeOrders
      <4>1. PICK wide \in [Sides -> BOOLEAN] :
              sizes' = [side \in Sides |-> SizedVolume(side, wide[side])]
        BY <3>1 DEF SizeOrders
      <4>2. ASSUME NEW side \in Sides
            PROVE  /\ sizes'[side] <= MostOrdered
                   /\ sizes'[side] > 0 =>
                        Towards(side) + sizes'[side] <= Cap + MostOrdered - BaseVolume
        <5>1. sizes'[side] = SizedVolume(side, wide[side]) /\ wide[side] \in BOOLEAN
          BY <4>1
        <5> QED
          BY <5>1, Sized
      <4>3. \A side \in Sides : Towards(side)' = Towards(side)
        BY <3>1 DEF SizeOrders, Towards
      <4> QED
        BY <1>2, <4>2, <4>3 DEF Planned
    <3>2. CASE UNCHANGED makerVars
      BY <1>2, <3>2 DEF Planned, Towards, makerVars
    <3>3. CASE ~SizeOrders /\ ~UNCHANGED makerVars
      BY <1>4, <3>3 DEF Consolidate, ListOrders, RequestFails, Recovered, Planned
    <3> QED
      BY <3>1, <3>2, <3>3
  <2> QED
    BY <2>2, <2>4, <2>6, <2>7, <2>8
<1> QED
  BY <1>3, <1>4

LEMMA FillInv ==
  ASSUME IInv, NEW side \in Sides, Fill(side), Strays'
  PROVE  IInv'
<1> USE DEF IInv
<1>1. /\ Cap \in Nat /\ MostOrdered \in Nat /\ BaseVolume \in Nat
  BY SizesOK
<1>2. Cap' = Cap /\ MostOrdered' = MostOrdered
  BY DEF Fill, Cap, MostOrdered
<1>3. /\ open["BID"] \in Int /\ open["ASK"] \in Int
      /\ position \in Int /\ booked \in Int
  BY DEF MakerTypeOK, Sides
<1>4. /\ side = "BID" => /\ open'["BID"] = open["BID"] - 1 /\ open'["ASK"] = open["ASK"]
                         /\ position' = position + 1
      /\ side = "ASK" => /\ open'["ASK"] = open["ASK"] - 1 /\ open'["BID"] = open["BID"]
                         /\ position' = position - 1
      /\ side \in {"BID", "ASK"}
  BY DEF Fill, Gain, MakerTypeOK, Sides
<1>5. /\ booked' = booked /\ sizes' = sizes /\ phase' = phase /\ listed' = listed
      /\ open[side] > 0
  BY DEF Fill
<1>6. MakerTypeOK'
  <2>1. open' \in [Sides -> Int] /\ position' \in Int
    BY <1>3, <1>4 DEF Fill, MakerTypeOK
  <2>2. UNCHANGED <<strategy, booked, listed, sizes, strayVars, phase>>
    BY DEF Fill
  <2> QED
    BY <2>1, <2>2 DEF MakerTypeOK, strayVars
<1>7. OpenBounded'
  BY <1>1, <1>2, <1>3, <1>4, <1>5 DEF OpenBounded, Sides
<1>8. Behind'
  BY <1>1, <1>2, <1>3, <1>4, <1>5 DEF Behind
<1>9. Cancelled'
  BY <1>3, <1>4, <1>5 DEF Cancelled, Sides
<1>10. Bounded'
  BY <1>1, <1>2, <1>3, <1>4, <1>5 DEF Bounded
<1>11. Planned'
  BY <1>2, <1>5 DEF Planned, Towards
<1> QED
  BY <1>6, <1>7, <1>8, <1>9, <1>10, <1>11

(***************************************************************************)
(* A cancellation, in a tick or after a failure.                           *)
(***************************************************************************)
LEMMA CancelInv ==
  ASSUME IInv, NEW side \in Sides, CancelOrder(side) \/ RecoverCancel(side), Strays'
  PROVE  IInv'
<1> USE DEF IInv
<1>1. /\ Cap \in Nat /\ MostOrdered \in Nat /\ BaseVolume \in Nat
  BY SizesOK
<1>2. /\ Cap' = Cap /\ MostOrdered' = MostOrdered
      /\ position' = position /\ booked' = booked
      /\ sizes' = sizes /\ UNCHANGED strayVars
  BY DEF CancelOrder, RecoverCancel, Cap, MostOrdered
<1>3. /\ open["BID"] \in Int /\ open["ASK"] \in Int
      /\ position \in Int /\ booked \in Int
  BY DEF MakerTypeOK, Sides
<1>4. \/ open' = [open EXCEPT ![side] = 0] /\ phase' = phase /\ phase \in {"cancel", "failed"}
         /\ (phase = "cancel" => listed' = listed \ {side})
      \/ open' = open /\ phase' = "failed"
  BY DEF CancelOrder, RecoverCancel
<1>5. MakerTypeOK'
  <2>1. /\ strategy' = strategy /\ listed' \subseteq Sides
        /\ phase' \in {"consolidate", "list", "cancel", "bid", "ask", "failed"}
    BY DEF CancelOrder, RecoverCancel, MakerTypeOK
  <2>2. open' \in [Sides -> Int]
    BY <1>4 DEF MakerTypeOK
  <2> QED
    BY <1>2, <2>1, <2>2 DEF MakerTypeOK, strayVars
<1>6. \A s \in Sides : open'[s] = open[s] \/ open'[s] = 0
  BY <1>4 DEF MakerTypeOK
<1>7. OpenBounded'
  BY <1>1, <1>2, <1>6 DEF OpenBounded
<1>8. /\ open'["BID"] \in Int /\ open'["BID"] <= open["BID"]
      /\ open'["ASK"] \in Int /\ open'["ASK"] <= open["ASK"]
  BY <1>3, <1>6 DEF OpenBounded, Sides
<1>9. Behind'
  BY <1>1, <1>2, <1>3, <1>4, <1>8 DEF Behind
<1>10. Cancelled'
  BY <1>4 DEF Cancelled, MakerTypeOK, Sides
<1>11. Bounded'
  BY <1>1, <1>2, <1>3, <1>8 DEF Bounded
<1>12. Planned'
  BY <1>2, <1>4 DEF Planned, Towards
<1> QED
  BY <1>5, <1>7, <1>9, <1>10, <1>11, <1>12

(***************************************************************************)
(* An order: before it, the position was at most one order away from the   *)
(* one in the database, and none was open on the side.                     *)
(***************************************************************************)
LEMMA PlaceInv ==
  ASSUME IInv, PlaceBid \/ PlaceAsk, Strays'
  PROVE  IInv'
<1> USE DEF IInv
<1>1. /\ Cap \in Nat /\ MostOrdered \in Nat /\ BaseVolume \in Nat
      /\ BaseVolume <= MostOrdered
  BY SizesOK
<1>2. PICK side \in Sides :
        /\ \/ side = "BID" /\ phase = "bid" /\ phase' \in {"ask", "failed"}
           \/ side = "ASK" /\ phase = "ask" /\ phase' \in {"consolidate", "failed"}
        /\ \/ sizes[side] > 0 /\ open' = [open EXCEPT ![side] = sizes[side]]
           \/ open' = open
        /\ sizes' = [sizes EXCEPT ![side] = 0]
  BY DEF PlaceBid, PlaceAsk, PlaceOrder, Sides
<1>3. UNCHANGED <<strategy, position, booked, listed, strayVars>>
  BY DEF PlaceBid, PlaceAsk, PlaceOrder
<1>4. Cap' = Cap /\ MostOrdered' = MostOrdered
  BY <1>3 DEF Cap, MostOrdered
<1>5. /\ open["BID"] \in Int /\ open["ASK"] \in Int
      /\ position \in Int /\ booked \in Int
  BY DEF MakerTypeOK, Sides
<1> DEFINE v == sizes[side]
<1>6. v \in Int /\ v <= MostOrdered
  BY <1>2 DEF MakerTypeOK, Planned
<1>7. v > 0 => IF side = "BID" THEN booked + v <= Cap + MostOrdered - BaseVolume
                               ELSE -booked + v <= Cap + MostOrdered - BaseVolume
  <2>1. v > 0 => Towards(side) + v <= Cap + MostOrdered - BaseVolume
    BY <1>2 DEF Planned
  <2> QED
    BY <2>1 DEF Towards
<1> HIDE DEF v
<1>8. MakerTypeOK'
  BY <1>2, <1>3, <1>6 DEF MakerTypeOK, strayVars, v
<1>9. \/ open' = open
      \/ side = "BID" /\ v > 0 /\ open'["BID"] = v /\ open'["ASK"] = open["ASK"]
      \/ side = "ASK" /\ v > 0 /\ open'["ASK"] = v /\ open'["BID"] = open["BID"]
  BY <1>2 DEF MakerTypeOK, Sides, v
<1>10. OpenBounded'
  BY <1>1, <1>4, <1>6, <1>9 DEF OpenBounded, Sides
<1>11. Behind'
  BY <1>1, <1>2, <1>3, <1>4, <1>5, <1>9 DEF Behind
<1>12. Cancelled'
  BY <1>2, <1>5, <1>9 DEF Cancelled
<1>13. /\ side = "BID" => position - booked <= MostOrdered
       /\ side = "ASK" => booked - position <= MostOrdered
  BY <1>1, <1>2, <1>5 DEF Behind, Cancelled
<1>14. Bounded'
  BY <1>1, <1>3, <1>4, <1>5, <1>6, <1>7, <1>9, <1>13 DEF Bounded
<1>15. Planned'
  <2>1. \A other \in Sides : Towards(other)' = Towards(other)
    BY <1>3 DEF Towards
  <2>2. \A other \in Sides \ {side} : sizes'[other] = sizes[other]
    BY <1>2 DEF MakerTypeOK
  <2>3. /\ phase' # "bid"
        /\ phase' = "ask" => side = "BID" /\ phase = "bid"
    BY <1>2
  <2> QED
    BY <1>4, <2>1, <2>2, <2>3 DEF Planned
<1> QED
  BY <1>8, <1>10, <1>11, <1>12, <1>14, <1>15

LEMMA StepInv == IInv /\ [MakerNext]_makerVars => IInv'
<1> SUFFICES ASSUME IInv, [MakerNext]_makerVars PROVE IInv'
  OBVIOUS
<1>1. /\ Strays'
      /\ strayed' \in Int /\ unknown' \in [Sides -> Int] /\ lost' \in [Sides -> Int]
  BY StraysKept
<1>2. CASE \E side \in Sides : Fill(side)
  BY <1>1, <1>2, FillInv
<1>3. CASE \E side \in Sides : CancelOrder(side) \/ RecoverCancel(side)
  BY <1>1, <1>3, CancelInv
<1>4. CASE PlaceBid \/ PlaceAsk
  BY <1>1, <1>4, PlaceInv
<1>5. CASE \/ Consolidate \/ ListOrders \/ SizeOrders \/ RequestFails \/ Recovered
           \/ LoseBid \/ LoseAsk
           \/ \E side \in Sides : StrayFills(side) \/ StrayCancelled(side)
           \/ UNCHANGED makerVars
  <2>1. UNCHANGED <<strategy, position, open>>
    BY <1>5 DEF Consolidate, ListOrders, SizeOrders, RequestFails, Recovered, LoseBid,
                LoseAsk, LoseAnswer, StrayFills, StrayCancelled, makerVars
  <2> QED
    BY <1>1, <1>5, <2>1, Quiet
<1> QED
  BY <1>2, <1>3, <1>4, <1>5 DEF MakerNext

(***************************************************************************)
(* Whatever the base volume, the maximum position and the multiplier, and  *)
(* however the orders fill between booking, listing and cancelling, and    *)
(* however often an order whose answer was lost is placed again: the       *)
(* position and the orders that add to it stay within Furthest and what    *)
(* was ordered on the side without a row.                                  *)
(***************************************************************************)
THEOREM MakerStaysWithin == MakerSpec => []PositionBounded
<1>1. IInv => PositionBounded
  <2> SUFFICES ASSUME IInv PROVE PositionBounded
    OBVIOUS
  <2>1. /\ open["BID"] \in Int /\ open["ASK"] \in Int /\ position \in Int
        /\ unknown["BID"] \in Int /\ unknown["ASK"] \in Int /\ strayed \in Int
        /\ lost["BID"] \in Int /\ lost["ASK"] \in Int
    BY DEF IInv, MakerTypeOK, Sides
  <2>2. /\ Cap \in Nat /\ MostOrdered \in Nat /\ BaseVolume \in Nat
        /\ Furthest = Cap + 2 * MostOrdered - BaseVolume
    BY SizesOK DEF IInv
  <2> QED
    BY <2>1, <2>2 DEF IInv, Bounded, Strays, PositionBounded
<1> QED
  BY <1>1, InitInv, StepInv, PTL DEF MakerSpec

-----------------------------------------------------------------------------
(* Sliding, which looks at the orders of a side from the best on.          *)

Order == [price : Nat \ {0}, volume : Nat]

BestFirst(mode, orders) ==
  \A i, j \in DOMAIN orders : i <= j => ~Deeper(mode, orders[i].price, orders[j].price)

\* The prices of the orders that are worth hiding behind.
Walls(orders, ignore) ==
  {orders[i].price : i \in {j \in DOMAIN orders : orders[j].volume > ignore}}

\* The wall that is found is the best of those behind the initial price.
Found(mode, initial, orders, ignore) ==
  LET walls == Walls(orders, ignore)
      wall == FirstWall(mode, initial, orders, ignore)
  IN  \/ wall = {} /\ \A w \in walls : ~Deeper(mode, w, initial)
      \/ \E first \in DOMAIN orders :
           /\ wall = {first} /\ Deeper(mode, orders[first].price, initial)
           /\ orders[first].price \in walls
           /\ \A w \in walls :
                Deeper(mode, w, initial) => ~Deeper(mode, orders[first].price, w)

LEMMA FirstWallIs ==
  ASSUME NEW mode \in {BID, ASK}, NEW initial \in Nat, NEW ignore \in Nat,
         NEW orders \in Seq(Order), BestFirst(mode, orders)
  PROVE  Found(mode, initial, orders, ignore)
  <1> DEFINE T == {i \in DOMAIN orders :
                     Deeper(mode, orders[i].price, initial) /\ orders[i].volume > ignore}
             Least == {i \in T : \A j \in T : i <= j}
  <1>1. FirstWall(mode, initial, orders, ignore) = Least
    BY DEF FirstWall
  <1>2. T \subseteq Nat
    OBVIOUS
  <1>3. CASE T = {}
    <2>1. Least = {}
      BY <1>3
    <2>2. \A w \in Walls(orders, ignore) : ~Deeper(mode, w, initial)
      BY <1>3 DEF Walls
    <2> QED
      BY <1>1, <2>1, <2>2 DEF Found
  <1>4. CASE T # {}
    <2>1. PICK first \in T : \A j \in T : first <= j
      BY <1>2, <1>4, LeastNumber
    <2>2. Least = {first}
      <3>1. \A i \in Least : i <= first /\ first <= i
        BY <2>1
      <3>2. \A i \in Least : i = first
        BY <1>2, <2>1, <3>1
      <3> QED
        BY <2>1, <3>2
    <2>3. orders[first].price \in Walls(orders, ignore)
      BY <2>1 DEF Walls
    <2>4. ASSUME NEW w \in Walls(orders, ignore), Deeper(mode, w, initial)
          PROVE  ~Deeper(mode, orders[first].price, w)
      <3>1. PICK i \in DOMAIN orders : orders[i].volume > ignore /\ w = orders[i].price
        BY DEF Walls
      <3>2. i \in T
        BY <2>4, <3>1
      <3>3. first <= i /\ first \in DOMAIN orders
        BY <2>1, <3>2
      <3> QED
        BY <3>1, <3>3 DEF BestFirst
    <2> QED
      BY <1>1, <2>1, <2>2, <2>3, <2>4 DEF Found
  <1> QED
    BY <1>3, <1>4

LEMMA Widened ==
  ASSUME NEW mode \in {BID, ASK}, NEW price \in Nat \ {0}, NEW amount \in Nat
  PROVE  /\ WidenPrice(mode, price, amount) \in Int
         /\ ~Deeper(mode, price, WidenPrice(mode, price, amount))
  <1>1. CASE mode = BID
    <2>1. PICK w \in {price - amount, Lowest} : \A x \in {price - amount, Lowest} : w >= x
      BY DEF Lowest
    <2>2. Max({price - amount, Lowest}) \in {price - amount, Lowest}
      BY <2>1 DEF Max
    <2> QED
      BY <1>1, <2>2 DEF WidenPrice, Deeper, Lowest
  <1>2. CASE mode = ASK
    BY <1>2 DEF WidenPrice, Deeper, BID, ASK
  <1> QED
    BY <1>1, <1>2

\* Whatever the book, an order that is slid with a limit is never nearer the centre
\* than before nor beyond the limit, and it is in front of every order worth hiding
\* behind, by at most jump unless the limit or the other side holds it back
\* (slide_order, order_sliding.py:61).
THEOREM SlidesBehindWalls ==
  ASSUME NEW mode \in {BID, ASK}, NEW initial \in Nat \ {0}, NEW ignore \in Nat,
         NEW jump \in Nat \ {0}, NEW maxSlide \in Nat,
         NEW book \in [bids : Seq(Order) \ {<<>>}, asks : Seq(Order) \ {<<>>}],
         BestFirst(BID, book.bids), BestFirst(ASK, book.asks)
  PROVE  LET new == SlideOrder(mode, initial, book, ignore, jump, maxSlide)
         IN  /\ new \in Int
             /\ InFront(mode, initial, Walls(OnSide(book, mode), ignore),
                        OnSide(book, Other(mode))[1].price, jump, maxSlide, new)
  <1> DEFINE orders == OnSide(book, mode)
             walls == Walls(orders, ignore)
             facing == OnSide(book, Other(mode))[1].price
             widest == WidenPrice(mode, initial, maxSlide)
             wall == FirstWall(mode, initial, orders, ignore)
             new == SlideOrder(mode, initial, book, ignore, jump, maxSlide)
  <1>1. orders \in Seq(Order) /\ BestFirst(mode, orders)
    BY DEF OnSide, BID, ASK
  <1>2. facing \in Nat
    <2>1. OnSide(book, Other(mode)) \in Seq(Order) \ {<<>>}
      BY DEF OnSide, Other, BID, ASK
    <2>2. \A q \in Seq(Order) \ {<<>>} : q[1].price \in Nat
      <3>1. \A q \in Seq(Order) \ {<<>>} : q[1] \in Order
        OBVIOUS
      <3> QED
        BY <3>1 DEF Order
    <2> QED
      BY <2>1, <2>2
  <1>3. widest \in Int /\ ~Deeper(mode, initial, widest) /\ maxSlide # None
    <2>1. widest \in Int /\ ~Deeper(mode, initial, widest)
      BY Widened
    <2> QED
      BY <2>1 DEF None
  <1>4. \A w \in walls : w \in Nat
    <2>1. \A i \in DOMAIN orders : orders[i] \in Order
      BY <1>1
    <2> QED
      BY <2>1 DEF Walls, Order
  <1>0. initial \in Nat
    OBVIOUS
  <1> HIDE DEF orders
  <1>7. Found(mode, initial, orders, ignore)
    BY <1>0, <1>1, FirstWallIs
  <1>5. CASE wall = {}
    <2>1. new = widest
      BY <1>3, <1>5 DEF SlideOrder, WidestAllowed, orders
    <2>2. \A w \in walls : ~Deeper(mode, w, initial)
      BY <1>5, <1>7 DEF Found
    <2> HIDE DEF walls, facing, widest, new
    <2>3. new \in Int /\ InFront(mode, initial, walls, facing, jump, maxSlide, new)
      BY <1>3, <2>1, <2>2 DEF InFront, Deeper, widest
    <2> QED
      BY <2>3 DEF orders, walls, facing, new
  <1>6. CASE wall # {}
    <2>1. PICK first \in DOMAIN orders :
            /\ wall = {first} /\ Deeper(mode, orders[first].price, initial)
            /\ orders[first].price \in walls
            /\ \A w \in walls :
                 Deeper(mode, w, initial) => ~Deeper(mode, orders[first].price, w)
      BY <1>6, <1>7 DEF Found
    <2>2. PICK price \in Nat : price = orders[first].price
      BY <1>4, <2>1
    <2>3. (CHOOSE i \in wall : TRUE) = first
      BY <2>1
    <2>4. PICK slid \in Int : slid = NarrowPrice(mode, price, jump)
      <3>1. price + jump \in Int /\ price - jump \in Int
        BY <2>2
      <3> QED
        BY <3>1 DEF NarrowPrice
    <2>5. new = IF Deeper(mode, initial, slid) \/ Deeper(mode, facing, slid) THEN initial
                ELSE IF Deeper(mode, slid, widest) THEN widest ELSE slid
      BY <1>3, <1>6, <2>2, <2>3, <2>4 DEF SlideOrder, WidestAllowed, orders
    <2> HIDE DEF orders, walls, facing, widest, wall, new
    <2>6. new \in Int
      BY <1>3, <2>5
    <2>7. Deeper(mode, price, slid) /\ Deeper(mode, price, initial)
      BY <2>1, <2>2, <2>4 DEF NarrowPrice, Deeper
    <2>8. ~Deeper(mode, initial, new) /\ ~Deeper(mode, new, widest)
      BY <1>3, <2>5, <2>6 DEF Deeper
    <2>9. Deeper(mode, price, new)
      BY <1>3, <2>5, <2>6, <2>7 DEF Deeper
    <2>10. \A w \in walls : Deeper(mode, w, initial) => Deeper(mode, w, new)
      BY <1>4, <2>1, <2>2, <2>6, <2>9 DEF Deeper
    <2>11. \/ new = widest \/ ~Deeper(mode, slid, new) \/ Deeper(mode, facing, initial)
      BY <1>2, <1>3, <2>5, <2>6 DEF Deeper
    <2>12. price \in walls
      BY <2>1, <2>2
    <2>13. InFront(mode, initial, walls, facing, jump, maxSlide, new)
      BY <2>4, <2>8, <2>9, <2>10, <2>11, <2>12 DEF InFront, widest
    <2> QED
      BY <2>6, <2>13 DEF orders, walls, facing, new
  <1> QED
    BY <1>5, <1>6

LEMMA Scaled ==
  ASSUME NEW u \in Nat \ {0}, NEW a \in Nat, NEW b \in Nat
  PROVE  /\ a * u \in Nat /\ (a # 0 => a * u # 0)
         /\ a * u < b * u => a < b
  <1>1. a * u \in Nat /\ (a # 0 => a * u # 0)
    OBVIOUS
  <1>2. ASSUME ~(a < b) PROVE ~(a * u < b * u)
    <2>1. PICK c \in Nat : a = b + c
      <3>1. a - b \in Nat /\ a = b + (a - b)
        BY <1>2
      <3> QED
        BY <3>1
    <2>2. a * u = b * u + c * u /\ c * u \in Nat /\ b * u \in Nat
      BY <2>1
    <2> HIDE <2>1
    <2> QED
      BY <2>2
  <1> QED
    BY <1>1, <1>2

\* A book in other units is as much in order.
LEMMA InUnitsOrdered ==
  ASSUME NEW u \in Nat \ {0},
         NEW book \in [bids : Seq(Order) \ {<<>>}, asks : Seq(Order) \ {<<>>}],
         BestFirst(BID, book.bids), BestFirst(ASK, book.asks)
  PROVE  /\ InUnits(book, u) \in [bids : Seq(Order) \ {<<>>}, asks : Seq(Order) \ {<<>>}]
         /\ BestFirst(BID, InUnits(book, u).bids) /\ BestFirst(ASK, InUnits(book, u).asks)
  <1> DEFINE Side(orders) == [i \in DOMAIN orders |-> [orders[i] EXCEPT !.price = @ * u]]
  <1>1. ASSUME NEW orders \in Seq(Order) \ {<<>>}
        PROVE  /\ Side(orders) \in Seq(Order) \ {<<>>}
               /\ DOMAIN Side(orders) = DOMAIN orders
               /\ \A i \in DOMAIN orders : /\ orders[i].price \in Nat
                                           /\ Side(orders)[i].price = orders[i].price * u
    <2>1. PICK n \in Nat : n = Len(orders) /\ DOMAIN orders = 1..n /\ n # 0
      OBVIOUS
    <2>2. \A i \in 1..n : orders[i] \in Order
      BY <2>1
    <2>3. \A i \in 1..n : /\ orders[i].price \in Nat
                          /\ [orders[i] EXCEPT !.price = @ * u]
                               = [price |-> orders[i].price * u, volume |-> orders[i].volume]
      <3>1. ASSUME NEW o \in Order, NEW k
            PROVE  o.price \in Nat /\ [o EXCEPT !.price = k] = [price |-> k, volume |-> o.volume]
        <4>1. o.price \in Nat /\ o = [price |-> o.price, volume |-> o.volume]
          BY DEF Order
        <4>2. PICK p, v : o = [price |-> p, volume |-> v]
          BY <4>1
        <4>3. [o EXCEPT !.price = k] = [price |-> k, volume |-> v] /\ v = o.volume
          BY <4>2
        <4> QED
          BY <4>1, <4>3
      <3>2. ASSUME NEW o \in Order
            PROVE  [o EXCEPT !.price = @ * u] = [price |-> o.price * u, volume |-> o.volume]
        BY <3>1
      <3> QED
        BY <2>2, <3>1, <3>2
    <2>4. \A i \in 1..n : [price |-> orders[i].price * u, volume |-> orders[i].volume] \in Order
      BY <2>2, Scaled DEF Order
    <2>5. Side(orders) \in [1..n -> Order]
      BY <2>1, <2>3, <2>4
    <2>6. Side(orders) \in Seq(Order) /\ Side(orders) # <<>>
      BY <2>1, <2>5
    <2> QED
      BY <2>1, <2>3, <2>6
  <1>2. ASSUME NEW mode \in {BID, ASK}, NEW orders \in Seq(Order) \ {<<>>},
               BestFirst(mode, orders)
        PROVE  BestFirst(mode, Side(orders))
    <2> HIDE DEF Side
    <2>1. SUFFICES ASSUME NEW i \in DOMAIN orders, NEW j \in DOMAIN orders, i <= j
                   PROVE  ~Deeper(mode, Side(orders)[i].price, Side(orders)[j].price)
      BY <1>1 DEF BestFirst
    <2>2. PICK a \in Nat, b \in Nat : a = orders[i].price /\ b = orders[j].price
      BY <1>1
    <2>3. Side(orders)[i].price = a * u /\ Side(orders)[j].price = b * u
      BY <1>1, <2>2
    <2>4. ~Deeper(mode, a, b)
      BY <1>2, <2>1, <2>2 DEF BestFirst
    <2>5. (a * u < b * u => a < b) /\ (b * u < a * u => b < a) /\ a * u \in Nat /\ b * u \in Nat
      BY Scaled
    <2>6. ~Deeper(mode, a * u, b * u)
      BY <2>4, <2>5 DEF Deeper
    <2> QED
      BY <2>3, <2>6
  <1>3. InUnits(book, u) = [bids |-> Side(book.bids), asks |-> Side(book.asks)]
    BY DEF InUnits
  <1> HIDE DEF Side
  <1> QED
    BY <1>1, <1>2, <1>3

\* The two prices of a tick of the linear market maker do not cross: each keeps the
\* spread's distance from the midpoint however it is slid, whatever the books
\* (multiexchange_linear's tick calls slide_order for its bid and its ask).
THEOREM QuotesNeverCross ==
  ASSUME NEW books, NEW primary, NEW weights, NEW depth \in Nat \ {0},
         NEW spread \in 0..SpreadUnit - 1, NEW ignore \in Nat,
         NEW jump \in Nat \ {0}, NEW maxSlide \in Nat,
         books[primary] \in [bids : Seq(Order) \ {<<>>}, asks : Seq(Order) \ {<<>>}],
         BestFirst(BID, books[primary].bids), BestFirst(ASK, books[primary].asks),
         GlobalMidpoint(books, weights, depth) \subseteq Nat \ {0}
  PROVE  \A q \in LinearQuotes(books, primary, weights, depth, spread, ignore, jump, maxSlide) :
           \E m \in GlobalMidpoint(books, weights, depth) :
             /\ q.bid <= m * (SpreadUnit - spread) /\ m * (SpreadUnit + spread) <= q.ask
             /\ q.bid < q.ask \/ spread = 0
  <1> USE QuotingAssumption
  <1>1. PICK unit \in Nat \ {0} : unit = LinearUnit(depth)
    <2>1. PICK s \in Nat \ {0}, w \in Nat \ {0} : s = SpreadUnit /\ w = WeightUnit
      OBVIOUS
    <2>2. 2 * depth \in Nat \ {0}
      OBVIOUS
    <2>3. 2 * depth * w \in Nat \ {0}
      BY <2>2, Scaled
    <2>4. 2 * depth * w * s \in Nat \ {0}
      BY <2>3, Scaled
    <2> QED
      BY <2>1, <2>4 DEF LinearUnit
  <1>2. PICK book \in [bids : Seq(Order) \ {<<>>}, asks : Seq(Order) \ {<<>>}] :
          /\ book = InUnits(books[primary], unit)
          /\ BestFirst(BID, book.bids) /\ BestFirst(ASK, book.asks)
    BY InUnitsOrdered
  <1>3. PICK j \in Nat \ {0}, l \in Nat : j = jump * unit /\ l = maxSlide * unit
    BY Scaled
  <1> DEFINE Slid(mode, price) == SlideOrder(mode, price, book, ignore, j, l)
  <1>4. ASSUME NEW mode \in {BID, ASK}, NEW price \in Nat \ {0}
        PROVE  Slid(mode, price) \in Int /\ ~Deeper(mode, price, Slid(mode, price))
    BY <1>2, <1>3, SlidesBehindWalls DEF InFront
  <1> HIDE DEF Slid
  <1>5. ASSUME NEW m \in Nat \ {0}
        PROVE  LET bid == Slid(BID, m * (SpreadUnit - spread))
                   ask == Slid(ASK, m * (SpreadUnit + spread))
               IN  /\ bid <= m * (SpreadUnit - spread) /\ m * (SpreadUnit + spread) <= ask
                   /\ bid < ask \/ spread = 0
    <2>1. PICK low \in Nat \ {0}, high \in Nat \ {0} :
            low = SpreadUnit - spread /\ high = SpreadUnit + spread
      OBVIOUS
    <2>2. PICK below \in Nat \ {0}, above \in Nat \ {0} :
            /\ below = m * low /\ above = m * high
            /\ below < above \/ spread = 0
      <3>1. m * low \in Nat \ {0} /\ m * high \in Nat \ {0}
        BY Scaled
      <3>2. ~(low * m < high * m) => high * m <= low * m
        BY <3>1
      <3>3. ASSUME spread # 0 PROVE m * low < m * high
        <4>1. PICK d \in Nat \ {0} : d = 2 * spread
          BY <3>3
        <4>2. high = low + d
          BY <2>1, <4>1
        <4>3. m * high = m * low + m * d
          BY <4>2
        <4>4. m * d \in Nat \ {0}
          BY Scaled
        <4> QED
          BY <3>1, <4>3, <4>4
      <3> QED
        BY <3>1, <3>3
    <2>3. PICK bid, ask : bid = Slid(BID, below) /\ ask = Slid(ASK, above)
      OBVIOUS
    <2>4. /\ bid \in Int /\ ~Deeper(BID, below, bid)
          /\ ask \in Int /\ ~Deeper(ASK, above, ask)
      BY <1>4, <2>3
    <2>5. bid <= below /\ above <= ask
      BY <2>4 DEF Deeper, BID, ASK
    <2>7. bid < ask \/ spread = 0
      <3>1. below < above \/ spread = 0
        BY <2>2
      <3>2. bid \in Int /\ ask \in Int
        BY <2>4
      <3> QED
        BY <2>5, <3>1, <3>2
    <2>6. below = m * (SpreadUnit - spread) /\ above = m * (SpreadUnit + spread)
      BY <2>1, <2>2
    <2> QED
      BY <2>3, <2>5, <2>6, <2>7
  <1>6. LinearQuotes(books, primary, weights, depth, spread, ignore, jump, maxSlide)
          = {[bid |-> Slid(BID, m * (SpreadUnit - spread)),
              ask |-> Slid(ASK, m * (SpreadUnit + spread))] :
               m \in GlobalMidpoint(books, weights, depth)}
    BY <1>1, <1>2, <1>3 DEF LinearQuotes, FixedSpread, Slid
  <1> SUFFICES ASSUME NEW q \in LinearQuotes(books, primary, weights, depth, spread, ignore,
                                             jump, maxSlide)
               PROVE  \E m \in GlobalMidpoint(books, weights, depth) :
                        /\ q.bid <= m * (SpreadUnit - spread)
                        /\ m * (SpreadUnit + spread) <= q.ask
                        /\ q.bid < q.ask \/ spread = 0
    OBVIOUS
  <1>7. PICK m \in GlobalMidpoint(books, weights, depth) :
          q = [bid |-> Slid(BID, m * (SpreadUnit - spread)),
               ask |-> Slid(ASK, m * (SpreadUnit + spread))]
    BY <1>6
  <1>8. m \in Nat \ {0}
    OBVIOUS
  <1> QED
    BY <1>5, <1>7, <1>8

-----------------------------------------------------------------------------
(* Settings, of any file and command line.                                 *)

Configured(story) ==
  /\ Len(story.order) \in Nat /\ DOMAIN story.order = 1..Len(story.order)
  /\ \A i, j \in DOMAIN story.order : story.order[i] = story.order[j] => i = j
  /\ \A i \in DOMAIN story.order :
       /\ story.order[i] # "exchanges"
       /\ \A o \in DOMAIN story.items[story.order[i]] : story.items[story.order[i]][o] # "none"
       /\ story.order[i] = "strategy" => "midpoint_weights" \notin DOMAIN story.items["strategy"]
       /\ story.order[i] = "midpoint_weights" => DOMAIN story.items["midpoint_weights"] # {}
  /\ "midpoint_weights" \notin DOMAIN story.args
  /\ \A o \in DOMAIN story.args : story.args[o] # "none"

\* What has been read after each of the first sections.
Reads(f, sections, n) ==
  f = [i \in 0..n |-> IF i = 0 THEN NoSettings ELSE ReadSection(sections[i], f[i - 1])]

LEMMA ReadMore ==
  ASSUME NEW sections, NEW n \in Nat, NEW f, Reads(f, sections, n)
  PROVE  \E g : Reads(g, sections, n + 1)
  <1> DEFINE g == [i \in 0..n + 1 |-> IF i = 0 THEN NoSettings ELSE ReadSection(sections[i], f[i - 1])]
  <1>1. \A i \in 0..n : g[i] = f[i]
    BY DEF Reads
  <1>2. \A i \in 0..n + 1 :
          g[i] = IF i = 0 THEN NoSettings ELSE ReadSection(sections[i], g[i - 1])
    <2>1. \A i \in 0..n + 1 : i # 0 => g[i - 1] = f[i - 1]
      <3>1. \A i \in 0..n + 1 : i # 0 => i - 1 \in 0..n
        OBVIOUS
      <3> HIDE DEF g
      <3> QED
        BY <1>1, <3>1
    <2> QED
      BY <2>1
  <1>3. g = [i \in 0..n + 1 |-> g[i]]
    OBVIOUS
  <1> HIDE DEF g
  <1>4. Reads(g, sections, n + 1)
    BY <1>2, <1>3 DEF Reads
  <1> QED
    BY <1>4

LEMMA ReadsExist ==
  ASSUME NEW sections, NEW n \in Nat
  PROVE  \E f : Reads(f, sections, n)
  <1> DEFINE bad == {m \in Nat : ~\E f : Reads(f, sections, m)}
  <1>1. SUFFICES ASSUME bad # {} PROVE FALSE
    OBVIOUS
  <1>2. PICK m \in bad : \A k \in bad : m <= k
    <2> HIDE DEF bad
    <2>1. bad \subseteq Nat
      BY DEF bad
    <2> QED
      BY <1>1, <2>1, LeastNumber
  <1>3. m # 0
    <2>1. Reads([i \in 0..0 |-> NoSettings], sections, 0)
      BY DEF Reads
    <2> QED
      BY <2>1
  <1>4. m - 1 \in Nat /\ m - 1 \notin bad
    BY <1>2, <1>3
  <1>5. PICK f : Reads(f, sections, m - 1)
    BY <1>4
  <1>6. \E g : Reads(g, sections, (m - 1) + 1)
    BY <1>4, <1>5, ReadMore
  <1>7. (m - 1) + 1 = m
    BY <1>4
  <1> QED
    BY <1>6, <1>7

LEMMA ReadIs ==
  ASSUME NEW sections, Len(sections) \in Nat
  PROVE  \E f : Reads(f, sections, Len(sections)) /\ ParseSections(sections) = f[Len(sections)]
  <1> DEFINE f == CHOOSE f : Reads(f, sections, Len(sections))
  <1>1. Reads(f, sections, Len(sections))
    BY ReadsExist
  <1>2. ParseSections(sections) = f[Len(sections)]
    BY DEF ParseSections, Reads
  <1> QED
    BY <1>1, <1>2

LEMMA LengthOf ==
  ASSUME NEW n \in Nat, NEW s, DOMAIN s = 1..n, NEW t, DOMAIN t = 1..n
  PROVE  Len(s) = Len(t)
  OBVIOUS

\* What has been read after the first i sections, c.
OneOf(story, i, section) == \E j \in 1..i : story.order[j] = section
WeightsLast(story, i) ==
  \E j \in 1..i : /\ story.order[j] = "midpoint_weights"
                  /\ \A k \in 1..i : story.order[k] = "strategy" => k < j

SectionRead(story, i, c, section) ==
  /\ section \in DOMAIN c <=> OneOf(story, i, section) /\ section # "midpoint_weights"
  /\ section \in DOMAIN c => c[section] = ParsedItems(story.items[section])

StrategyRead(story, i, options) ==
  /\ "midpoint_weights" \in DOMAIN options <=> WeightsLast(story, i)
  /\ "midpoint_weights" \in DOMAIN options =>
       options["midpoint_weights"] = ParsedItems(story.items["midpoint_weights"])
  /\ \A o : o # "midpoint_weights" =>
       /\ o \in DOMAIN options
            <=> OneOf(story, i, "strategy") /\ o \in DOMAIN story.items["strategy"]
       /\ o \in DOMAIN options =>
            options[o] = ParseConfigurableValue(story.items["strategy"][o])

ReadRight(story, i, c) ==
  /\ \A section : section # "strategy" => SectionRead(story, i, c, section)
  /\ StrategyRead(story, i, SectionOf(c, "strategy"))

LEMMA NothingRead ==
  ASSUME NEW story
  PROVE  ReadRight(story, 0, NoSettings)
  BY DEF ReadRight, SectionRead, StrategyRead, OneOf, WeightsLast, SectionOf, NoSettings

LEMMA ReadOne ==
  ASSUME NEW story, Configured(story), NEW i \in DOMAIN story.order, NEW c,
         ReadRight(story, i - 1, c)
  PROVE  ReadRight(story, i, ReadSection(Sections(story)[i], c))
  <1> DEFINE name == story.order[i]
             parsed == ParsedItems(story.items[name])
             d == ReadSection(Sections(story)[i], c)
  <1>1. i \in Nat /\ i >= 1 /\ i \in 1..i /\ \A j \in 1..i : j \in 1..i - 1 \/ j = i
    BY DEF Configured
  <1>2. /\ \A section : OneOf(story, i, section) <=> OneOf(story, i - 1, section) \/ section = name
        /\ ~OneOf(story, i - 1, name)
    <2>1. \A j \in 1..i - 1 : j \in 1..i /\ j \in DOMAIN story.order /\ j # i
      BY DEF Configured
    <2> QED
      BY <1>1, <2>1 DEF OneOf, Configured
  <1>3. Sections(story)[i] = [name |-> name, items |-> story.items[name],
                              parent |-> IF name = "midpoint_weights" THEN "strategy" ELSE ""]
    BY DEF Sections
  <1>4. CASE name # "midpoint_weights"
    <2>1. d = [k \in DOMAIN c \cup {name} |-> IF k = name THEN parsed ELSE c[k]]
      <3>1. d = Updated(c, Setting(name, parsed))
        <4>1. /\ Sections(story)[i].name = name /\ Sections(story)[i].parent = ""
              /\ Sections(story)[i].items = story.items[name]
          BY <1>4, i \in DOMAIN story.order DEF Sections
        <4> HIDE DEF name
        <4> QED
          BY <4>1 DEF ReadSection
      <3> HIDE DEF d, parsed, name
      <3> QED
        BY <3>1 DEF Updated, Setting
    <2>2. DOMAIN d = DOMAIN c \cup {name} /\ \A k \in DOMAIN d : d[k] = IF k = name THEN parsed ELSE c[k]
      <3> HIDE DEF d, parsed, name
      <3> QED
        BY <2>1
    <2>3. ASSUME NEW section, section # "strategy" PROVE SectionRead(story, i, d, section)
      <3>1. SectionRead(story, i - 1, c, section)
        BY <2>3 DEF ReadRight
      <3> HIDE DEF d
      <3> QED
        BY <1>2, <1>4, <2>2, <3>1 DEF SectionRead
    <2>4. CASE name # "strategy"
      <3>1. SectionOf(d, "strategy") = SectionOf(c, "strategy")
        <4> HIDE DEF d, name
        <4> QED
          BY <2>2, <2>4 DEF SectionOf
      <3>2. OneOf(story, i, "strategy") <=> OneOf(story, i - 1, "strategy")
        BY <1>2, <2>4
      <3>3. WeightsLast(story, i) <=> WeightsLast(story, i - 1)
        <4>1. \A j \in 1..i - 1 : j \in 1..i
          BY <1>1
        <4> QED
          BY <1>1, <1>4, <2>4, <4>1 DEF WeightsLast
      <3>4. StrategyRead(story, i, SectionOf(d, "strategy"))
        <4> HIDE DEF d, name
        <4> QED
          BY <3>1, <3>2, <3>3 DEF StrategyRead, ReadRight
      <3> QED
        BY <2>3, <3>4 DEF ReadRight
    <2>5. CASE name = "strategy"
      <3>1. SectionOf(d, "strategy") = parsed
        <4> HIDE DEF d, name, parsed
        <4> QED
          BY <2>2, <2>5 DEF SectionOf
      <3>2. ~WeightsLast(story, i)
        <4>1. \A j \in 1..i : j <= i
          BY <1>1
        <4> QED
          BY <1>1, <2>5, <4>1 DEF WeightsLast
      <3>3. "midpoint_weights" \notin DOMAIN story.items["strategy"]
        BY <2>5 DEF Configured
      <3>4. StrategyRead(story, i, parsed)
        BY <1>2, <2>5, <3>2, <3>3 DEF StrategyRead, ParsedItems
      <3> HIDE DEF parsed
      <3> QED
        BY <2>3, <3>1, <3>4 DEF ReadRight
    <2> QED
      BY <2>4, <2>5
  <1>5. CASE name = "midpoint_weights"
    <2> DEFINE options == SectionOf(c, "strategy")
               added == Updated(options, Setting("midpoint_weights", parsed))
    <2>1. d = Updated(c, Setting("strategy", added))
      BY <1>3, <1>5 DEF ReadSection
    <2>2. /\ DOMAIN d = DOMAIN c \cup {"strategy"} /\ d["strategy"] = added
          /\ \A k \in DOMAIN c : k # "strategy" => d[k] = c[k]
      <3> HIDE DEF d, added
      <3> QED
        BY <2>1 DEF Updated, Setting
    <2>3. /\ DOMAIN added = DOMAIN options \cup {"midpoint_weights"}
          /\ added["midpoint_weights"] = parsed
          /\ \A o \in DOMAIN options : o # "midpoint_weights" => added[o] = options[o]
      <3> HIDE DEF options, parsed
      <3> QED
        BY DEF Updated, Setting
    <2>4. ASSUME NEW section, section # "strategy" PROVE SectionRead(story, i, d, section)
      <3>1. SectionRead(story, i - 1, c, section)
        BY <2>4 DEF ReadRight
      <3> HIDE DEF d
      <3> QED
        BY <1>2, <1>5, <2>2, <2>4, <3>1 DEF SectionRead
    <2>5. WeightsLast(story, i)
      <3>1. \A k \in 1..i : story.order[k] = "strategy" => k < i
        BY <1>1, <1>5
      <3> QED
        BY <1>1, <1>5, <3>1 DEF WeightsLast
    <2>6. StrategyRead(story, i - 1, options)
      BY DEF ReadRight
    <2>7. OneOf(story, i, "strategy") <=> OneOf(story, i - 1, "strategy")
      BY <1>2, <1>5
    <2> HIDE DEF options, added, parsed, d
    <2>8. StrategyRead(story, i, added)
      BY <1>5, <2>3, <2>5, <2>6, <2>7 DEF StrategyRead, parsed
    <2>9. SectionOf(d, "strategy") = added
      BY <2>2 DEF SectionOf
    <2> QED
      BY <2>4, <2>8, <2>9 DEF ReadRight, d
  <1> QED
    BY <1>4, <1>5

LEMMA AllRead ==
  ASSUME NEW story, Configured(story)
  PROVE  ReadRight(story, Len(story.order), ParseSections(Sections(story)))
  <1> DEFINE n == Len(story.order)
             sections == Sections(story)
  <1>1. Len(sections) = n /\ n \in Nat /\ DOMAIN story.order = 1..n
    <2>1. DOMAIN sections = 1..n /\ n \in Nat
      BY DEF Sections, Configured
    <2> QED
      BY <2>1, LengthOf DEF Configured
  <1>2. PICK f : Reads(f, sections, n) /\ ParseSections(sections) = f[n]
    BY <1>1, ReadIs
  <1> DEFINE bad == {i \in 0..n : ~ReadRight(story, i, f[i])}
  <1>3. ASSUME bad # {} PROVE FALSE
    <2>1. PICK m \in bad : \A k \in bad : m <= k
      <3> HIDE DEF bad
      <3>1. bad \subseteq Nat
        BY <1>1 DEF bad
      <3> QED
        BY <1>3, <3>1, LeastNumber
    <2>2. CASE m = 0
      <3>1. f[0] = NoSettings
        BY <1>1, <1>2 DEF Reads
      <3> QED
        BY <2>1, <2>2, <3>1, NothingRead
    <2>3. CASE m # 0
      <3>1. m - 1 \in 0..n /\ m - 1 \notin bad /\ m \in DOMAIN story.order
        BY <1>1, <2>1, <2>3
      <3>2. f[m] = ReadSection(sections[m], f[m - 1])
        BY <1>1, <1>2, <2>1, <2>3 DEF Reads
      <3>3. ReadRight(story, m - 1, f[m - 1])
        BY <3>1
      <3>4. ReadRight(story, m, f[m])
        BY <3>1, <3>2, <3>3, ReadOne
      <3> QED
        BY <2>1, <3>4
    <2> QED
      BY <2>2, <2>3
  <1>4. n \in 0..n
    BY <1>1
  <1> QED
    BY <1>2, <1>3, <1>4

-----------------------------------------------------------------------------
(* Values.  A text that is not "none" is not parsed as "none".             *)

LEMMA ParsedIsSome ==
  ASSUME NEW value, value # "none"
  PROVE  ParseConfigurableValue(value) # "none"
  BY DEF ParseConfigurableValue

\* What an object gets of the file's options a and the command line's b.
LEMMA OptionIs ==
  ASSUME NEW a, NEW b, NEW o, NEW default, o \in DOMAIN a => a[o] # "none"
  PROVE  InitConfigurable(default, o, DictUpdateOverride(a, b))
           = LET said == IF o \in DOMAIN b THEN b[o] ELSE "none"
             IN  IF Truthy(said) THEN said
                 ELSE IF o \in DOMAIN a THEN a[o]
                 ELSE IF said # "none" THEN said ELSE default
  <1> DEFINE d == DictUpdateOverride(a, b)
  <1>1. /\ DOMAIN d = DOMAIN a \cup DOMAIN b
        /\ \A k \in DOMAIN d : d[k] = IF k \in DOMAIN b /\ (Truthy(b[k]) \/ k \notin DOMAIN a)
                                        THEN b[k] ELSE a[k]
    BY DEF DictUpdateOverride, Updated, Restrict
  <1>2. ~Truthy("none")
    BY DEF Truthy
  <1> HIDE DEF d
  <1> QED
    BY <1>1, <1>2 DEF InitConfigurable, d

\* Where the file's options are found.
LEMMA FileConfigIs ==
  ASSUME NEW story, Configured(story)
  PROVE  LET file == FileConfig(Sections(story))
             read == ParseSections(Sections(story))
         IN  /\ {"platform", "strategy", "exchanges"} \subseteq DOMAIN file
             /\ file["platform"] = SectionOf(read, "platform")
             /\ file["strategy"] = SectionOf(read, "strategy")
             /\ SectionOf(file["exchanges"], "bitstamp_btc_usd")
                  = SectionOf(read, "bitstamp_btc_usd")
  <1> DEFINE read == ParseSections(Sections(story))
             file == FileConfig(Sections(story))
             own == Restrict(read, DOMAIN read \cap ExchangeKeys)
             others == Restrict(read, DOMAIN read \ ExchangeKeys)
             base == [s \in {"platform", "strategy", "exchanges"} |->
                        IF s = "exchanges" THEN own ELSE NoSettings]
  <1>1. "exchanges" \notin DOMAIN read
    <2>1. ~OneOf(story, Len(story.order), "exchanges")
      BY DEF OneOf, Configured
    <2> QED
      BY <2>1, AllRead DEF ReadRight, SectionRead
  <1>2. file = Updated(base, others)
    BY DEF FileConfig
  <1> HIDE DEF file, read
  <1>3. DOMAIN others = DOMAIN read \ ExchangeKeys /\ \A s \in DOMAIN others : others[s] = read[s]
    BY DEF Restrict
  <1>4. DOMAIN own = DOMAIN read \cap ExchangeKeys /\ \A s \in DOMAIN own : own[s] = read[s]
    BY DEF Restrict
  <1>5. /\ DOMAIN base = {"platform", "strategy", "exchanges"} /\ base["exchanges"] = own
        /\ base["platform"] = NoSettings /\ base["strategy"] = NoSettings
    OBVIOUS
  <1> HIDE DEF own, others, base
  <1>6. /\ DOMAIN file = DOMAIN base \cup DOMAIN others
        /\ \A s \in DOMAIN file : file[s] = IF s \in DOMAIN others THEN others[s] ELSE base[s]
    BY <1>2 DEF Updated
  <1>7. file["platform"] = SectionOf(read, "platform")
    BY <1>3, <1>5, <1>6, SettingsAssumption DEF SectionOf
  <1>8. file["strategy"] = SectionOf(read, "strategy")
    BY <1>3, <1>5, <1>6, SettingsAssumption DEF SectionOf
  <1>9. file["exchanges"] = own
    BY <1>1, <1>3, <1>5, <1>6
  <1>10. SectionOf(own, "bitstamp_btc_usd") = SectionOf(read, "bitstamp_btc_usd")
    BY <1>4, SettingsAssumption DEF SectionOf
  <1> QED
    BY <1>5, <1>6, <1>7, <1>8, <1>9, <1>10 DEF file, read

\* Where the objects find theirs.
LEMMA ConfigurationIs ==
  ASSUME NEW story, Configured(story)
  PROVE  LET configuration == Configuration(story)
             read == ParseSections(Sections(story))
         IN  /\ configuration["platform"] = DictUpdateOverride(SectionOf(read, "platform"),
                                                               FromCommandLine(story)["platform"])
             /\ configuration["strategy"] = DictUpdateOverride(SectionOf(read, "strategy"),
                                                               FromCommandLine(story)["strategy"])
             /\ SectionOf(configuration["exchanges"], "bitstamp_btc_usd")
                  = SectionOf(read, "bitstamp_btc_usd")
  <1> DEFINE file == FileConfig(Sections(story))
             said == FromCommandLine(story)
             platform == DictUpdateOverride(file["platform"], said["platform"])
             strat == DictUpdateOverride(file["strategy"], said["strategy"])
  <1>1. Configuration(story) = [file EXCEPT !.platform = platform, !.strategy = strat]
    BY DEF Configuration, Combined
  <1>2. /\ {"platform", "strategy", "exchanges"} \subseteq DOMAIN file
        /\ file["platform"] = SectionOf(ParseSections(Sections(story)), "platform")
        /\ file["strategy"] = SectionOf(ParseSections(Sections(story)), "strategy")
        /\ SectionOf(file["exchanges"], "bitstamp_btc_usd")
             = SectionOf(ParseSections(Sections(story)), "bitstamp_btc_usd")
    BY FileConfigIs
  <1>3. /\ Configuration(story)["platform"] = platform /\ Configuration(story)["strategy"] = strat
        /\ Configuration(story)["exchanges"] = file["exchanges"]
    <2> HIDE DEF file, platform, strat
    <2> QED
      BY <1>1, <1>2
  <1> QED
    BY <1>2, <1>3

\* Values from the file are found as they are given there.
LEMMA SectionGives ==
  ASSUME NEW story, Configured(story), NEW section \in {"platform", "bitstamp_btc_usd"}, NEW o
  PROVE  LET options == SectionOf(ParseSections(Sections(story)), section)
         IN  /\ o \in DOMAIN options <=> Given(story, section, o)
             /\ o \in DOMAIN options =>
                  options[o] = FromFile(story, section, o) /\ options[o] # "none"
  <1> DEFINE read == ParseSections(Sections(story))
             options == SectionOf(read, section)
  <1>1. SectionRead(story, Len(story.order), read, section)
    BY AllRead DEF ReadRight
  <1>2. OneOf(story, Len(story.order), section) <=> Places(story, section) # {}
    BY DEF OneOf, Places, Configured
  <1> HIDE DEF read
  <1>3. CASE section \in DOMAIN read
    <2>1. options = ParsedItems(story.items[section])
      BY <1>1, <1>3 DEF SectionOf, SectionRead
    <2>2. Places(story, section) # {}
      BY <1>1, <1>2, <1>3 DEF SectionRead
    <2>3. \A p \in DOMAIN story.items[section] : story.items[section][p] # "none"
      BY <2>2 DEF Places, Configured
    <2> QED
      BY <2>1, <2>2, <2>3, ParsedIsSome DEF Given, FromFile, ParsedItems, read
  <1>4. CASE section \notin DOMAIN read
    <2>1. DOMAIN options = {}
      BY <1>4 DEF SectionOf, NoSettings
    <2>2. Places(story, section) = {}
      BY <1>1, <1>2, <1>4 DEF SectionRead
    <2> HIDE DEF options
    <2> QED
      BY <2>1, <2>2 DEF Given, options, read
  <1> QED
    BY <1>3, <1>4

LEMMA StrategyGives ==
  ASSUME NEW story, Configured(story), NEW o, o # "midpoint_weights"
  PROVE  LET options == SectionOf(ParseSections(Sections(story)), "strategy")
         IN  /\ o \in DOMAIN options <=> Given(story, "strategy", o)
             /\ o \in DOMAIN options =>
                  options[o] = FromFile(story, "strategy", o) /\ options[o] # "none"
  <1> DEFINE options == SectionOf(ParseSections(Sections(story)), "strategy")
  <1>1. StrategyRead(story, Len(story.order), options)
    BY AllRead DEF ReadRight
  <1>2. OneOf(story, Len(story.order), "strategy") <=> Places(story, "strategy") # {}
    BY DEF OneOf, Places, Configured
  <1>3. Places(story, "strategy") # {} =>
          \A p \in DOMAIN story.items["strategy"] : story.items["strategy"][p] # "none"
    BY DEF Places, Configured
  <1> HIDE DEF options
  <1> QED
    BY <1>1, <1>2, <1>3, ParsedIsSome DEF StrategyRead, Given, FromFile, options

\* An option of the harness or of the strategy is what the property expects.
LEMMA OptionReaches ==
  ASSUME NEW story, Configured(story), NEW section \in {"platform", "strategy"}, NEW o, NEW default,
         o # "midpoint_weights"
  PROVE  InitConfigurable(default, o, Configuration(story)[section])
           = Expected(story, section, o, default)
  <1> DEFINE a == SectionOf(ParseSections(Sections(story)), section)
             b == FromCommandLine(story)[section]
  <1>1. Configuration(story)[section] = DictUpdateOverride(a, b)
    BY ConfigurationIs
  <1>2. /\ o \in DOMAIN a <=> Given(story, section, o)
        /\ o \in DOMAIN a => a[o] = FromFile(story, section, o) /\ a[o] # "none"
    BY SectionGives, StrategyGives
  <1> HIDE DEF a, b
  <1>3. InitConfigurable(default, o, DictUpdateOverride(a, b))
          = LET said == IF o \in DOMAIN b THEN b[o] ELSE "none"
            IN  IF Truthy(said) THEN said
                ELSE IF o \in DOMAIN a THEN a[o]
                ELSE IF said # "none" THEN said ELSE default
    BY <1>2, OptionIs
  <1> QED
    BY <1>1, <1>2, <1>3 DEF Expected, Said, b

\* The exchange's own.
LEMMA OwnReaches ==
  ASSUME NEW story, Configured(story), NEW o, NEW default
  PROVE  LET own == SectionOf(Configuration(story).exchanges, "bitstamp_btc_usd")
         IN  /\ InitConfigurable(default, o, own) = ExpectedOwn(story, o, default)
             /\ o \in DOMAIN own => own[o] = ExpectedOwn(story, o, default)
             /\ o \in DOMAIN own <=> Given(story, "bitstamp_btc_usd", o)
  <1> DEFINE own == SectionOf(ParseSections(Sections(story)), "bitstamp_btc_usd")
  <1>1. SectionOf(Configuration(story)["exchanges"], "bitstamp_btc_usd") = own
    BY ConfigurationIs
  <1>2. /\ o \in DOMAIN own <=> Given(story, "bitstamp_btc_usd", o)
        /\ o \in DOMAIN own => own[o] = FromFile(story, "bitstamp_btc_usd", o) /\ own[o] # "none"
    BY SectionGives
  <1> HIDE DEF own
  <1> QED
    BY <1>1, <1>2 DEF InitConfigurable, ExpectedOwn

LEMMA HarnessReaches ==
  ASSUME NEW story, Configured(story), NEW o \in DOMAIN HarnessDefaults
  PROVE  Harness(Configuration(story))[o] = Expected(story, "platform", o, HarnessDefaults[o])
  <1>1. o # "midpoint_weights"
    BY DEF HarnessDefaults
  <1>2. InitConfigurable(HarnessDefaults[o], o, Configuration(story)["platform"])
          = Expected(story, "platform", o, HarnessDefaults[o])
    BY <1>1, OptionReaches
  <1> QED
    BY <1>2 DEF Harness

LEMMA StrategyReaches ==
  ASSUME NEW story, Configured(story),
         NEW own \in {SimpleMarketMakingDefaults, LinearDefaults},
         NEW o \in DOMAIN own \cup {"tick_sleep"}
  PROVE  Strategy(own, Configuration(story))[o]
           \in ExpectedOfStrategy(story, o, Updated(own, StrategyDefaults)[o])
  <1> DEFINE defaults == Updated(StrategyDefaults, own)
  <1>1. o # "midpoint_weights" /\ "tick_sleep" \notin DOMAIN own
    BY DEF SimpleMarketMakingDefaults, LinearDefaults
  <1>2. DOMAIN StrategyDefaults = {"tick_sleep"}
    BY DEF StrategyDefaults
  <1>3. o \in DOMAIN defaults /\ defaults[o] = Updated(own, StrategyDefaults)[o]
    BY <1>1, <1>2 DEF Updated
  <1> HIDE DEF defaults
  <1>4. InitConfigurable(defaults[o], o, Configuration(story)["strategy"])
          = Expected(story, "strategy", o, defaults[o])
    BY <1>1, OptionReaches
  <1>5. Strategy(own, Configuration(story))
          = [p \in DOMAIN defaults |->
               InitConfigurable(defaults[p], p, Configuration(story)["strategy"])]
    BY DEF Strategy, defaults
  <1> QED
    BY <1>3, <1>4, <1>5 DEF ExpectedOfStrategy

LEMMA WrapperReaches ==
  ASSUME NEW story, Configured(story)
  PROVE  LET wrapper == Wrapper("bitstamp_btc_usd", Configuration(story))
         IN  /\ Truthy(wrapper.use_cached_orderbook)
                  <=> Truthy(ExpectedOwn(story, "emerald",
                                         Expected(story, "platform", "emerald", "False")))
             /\ wrapper.market_order_fee
                  = ExpectedOwn(story, "market_order_fee", WrapperDefaults.market_order_fee)
  <1> DEFINE configuration == Configuration(story)
             own == SectionOf(configuration.exchanges, "bitstamp_btc_usd")
             cached == UseCachedOrderbook("bitstamp_btc_usd", configuration)
             fees == [o \in DOMAIN WrapperDefaults |-> InitConfigurable(WrapperDefaults[o], o, own)]
             wrapper == Wrapper("bitstamp_btc_usd", configuration)
  <1>1. wrapper = Updated([use_cached_orderbook |-> cached], fees)
    BY DEF Wrapper
  <1>2. DOMAIN WrapperDefaults = {"market_order_fee", "limit_order_fee", "max_tick_speed"}
    BY DEF WrapperDefaults
  <1>3. /\ InitConfigurable(WrapperDefaults.market_order_fee, "market_order_fee", own)
             = ExpectedOwn(story, "market_order_fee", WrapperDefaults.market_order_fee)
        /\ "emerald" \in DOMAIN own <=> Given(story, "bitstamp_btc_usd", "emerald")
        /\ "emerald" \in DOMAIN own =>
             \A default : own["emerald"] = ExpectedOwn(story, "emerald", default)
    BY OwnReaches
  <1>4. InitConfigurable("False", "emerald", configuration["platform"])
          = Expected(story, "platform", "emerald", "False")
    BY OptionReaches
  <1>5. ~Truthy("none") /\ ~Truthy("False")
    BY DEF Truthy
  <1> HIDE DEF configuration
  <1>6. Truthy(cached) <=> Truthy(ExpectedOwn(story, "emerald",
                                              Expected(story, "platform", "emerald", "False")))
    <2>1. CASE "emerald" \in DOMAIN own
      BY <1>3, <2>1 DEF UseCachedOrderbook
    <2>2. CASE "emerald" \notin DOMAIN own
      <3>1. ExpectedOwn(story, "emerald", Expected(story, "platform", "emerald", "False"))
              = Expected(story, "platform", "emerald", "False")
        BY <1>3, <2>2 DEF ExpectedOwn
      <3>2. cached = IF "emerald" \in DOMAIN configuration["platform"]
                       THEN configuration["platform"]["emerald"] ELSE "False"
        BY <2>2 DEF UseCachedOrderbook
      <3> HIDE DEF cached
      <3> QED
        BY <1>4, <1>5, <3>1, <3>2 DEF InitConfigurable
    <2> QED
      BY <2>1, <2>2
  <1>7. wrapper["use_cached_orderbook"] = cached
        /\ wrapper["market_order_fee"] = fees["market_order_fee"]
    <2>1. DOMAIN fees = DOMAIN WrapperDefaults
      OBVIOUS
    <2> HIDE DEF cached, fees, wrapper
    <2> QED
      BY <1>1, <1>2, <2>1 DEF Updated
  <1>8. fees["market_order_fee"]
          = ExpectedOwn(story, "market_order_fee", WrapperDefaults.market_order_fee)
    BY <1>2, <1>3
  <1> HIDE DEF cached, fees, wrapper
  <1>9. /\ Truthy(wrapper.use_cached_orderbook)
             <=> Truthy(ExpectedOwn(story, "emerald",
                                    Expected(story, "platform", "emerald", "False")))
        /\ wrapper.market_order_fee
             = ExpectedOwn(story, "market_order_fee", WrapperDefaults.market_order_fee)
    BY <1>6, <1>7, <1>8
  <1> QED
    BY <1>9 DEF wrapper, configuration

\* The subsection is replaced with its section, whatever the command line says.
LEMMA WeightsReach ==
  ASSUME NEW story, Configured(story)
  PROVE  MidpointWeights(Configuration(story)) # NoSettings
           <=> /\ Places(story, "midpoint_weights") # {}
               /\ \A i \in Places(story, "midpoint_weights"), j \in Places(story, "strategy") : j < i
  <1> DEFINE a == SectionOf(ParseSections(Sections(story)), "strategy")
             b == FromCommandLine(story)["strategy"]
             options == DictUpdateOverride(a, b)
  <1>1. Configuration(story)["strategy"] = options
    BY ConfigurationIs
  <1>2. "midpoint_weights" \notin DOMAIN b
    <2>1. DOMAIN b = {"tick_sleep"} \cup DOMAIN story.args
      BY DEF FromCommandLine, CommandLineConfig, Updated, ExtraStrategyArgs
    <2> HIDE DEF b
    <2> QED
      BY <2>1 DEF Configured
  <1>3. StrategyRead(story, Len(story.order), a)
    BY AllRead DEF ReadRight
  <1> HIDE DEF a, b
  <1>4. /\ "midpoint_weights" \in DOMAIN options <=> "midpoint_weights" \in DOMAIN a
        /\ "midpoint_weights" \in DOMAIN a => options["midpoint_weights"] = a["midpoint_weights"]
    BY <1>2 DEF DictUpdateOverride, Updated, Restrict
  <1> HIDE DEF options
  <1>5. WeightsLast(story, Len(story.order))
          <=> /\ Places(story, "midpoint_weights") # {}
              /\ \A i \in Places(story, "midpoint_weights"), j \in Places(story, "strategy") : j < i
    <2>1. \A i, j \in Places(story, "midpoint_weights") : i = j
      BY DEF Places, Configured
    <2>2. \A i : i \in 1..Len(story.order) <=> i \in DOMAIN story.order
      BY DEF Configured
    <2> QED
      BY <2>1, <2>2 DEF WeightsLast, Places
  <1>6. CASE WeightsLast(story, Len(story.order))
    <2>1. MidpointWeights(Configuration(story)) = ParsedItems(story.items["midpoint_weights"])
      BY <1>1, <1>3, <1>4, <1>6 DEF MidpointWeights, SectionOf, StrategyRead
    <2>2. DOMAIN story.items["midpoint_weights"] # {}
      BY <1>5, <1>6 DEF Places, Configured
    <2>3. ParsedItems(story.items["midpoint_weights"]) # NoSettings
      <3>1. DOMAIN ParsedItems(story.items["midpoint_weights"])
              = DOMAIN story.items["midpoint_weights"]
        BY DEF ParsedItems
      <3>2. DOMAIN NoSettings = {}
        BY DEF NoSettings
      <3> QED
        BY <2>2, <3>1, <3>2
    <2> QED
      BY <1>5, <1>6, <2>1, <2>3
  <1>7. CASE ~WeightsLast(story, Len(story.order))
    <2>1. MidpointWeights(Configuration(story)) = NoSettings
      BY <1>1, <1>3, <1>4, <1>7 DEF MidpointWeights, SectionOf, StrategyRead
    <2> QED
      BY <1>5, <1>7, <2>1
  <1> QED
    BY <1>6, <1>7

(***************************************************************************)
(* Of any configuration file and command line, every setting reaches its   *)
(* object from where it was made.                                          *)
(***************************************************************************)
THEOREM SettingsAlwaysReach == \A story : Configured(story) => SettingsReach(story)
  <1> SUFFICES ASSUME NEW story, Configured(story) PROVE SettingsReach(story)
    OBVIOUS
  <1>1. \A i, j \in Places(story, "midpoint_weights") : i = j
    BY DEF Places, Configured
  <1>2. /\ Places(story, "midpoint_weights") = {}
             => MidpointWeights(Configuration(story)) = NoSettings
        /\ \A i \in Places(story, "midpoint_weights") :
             (\A j \in Places(story, "strategy") : j < i)
               => MidpointWeights(Configuration(story)) # NoSettings
    BY <1>1, WeightsReach
  <1> QED
    BY <1>2, HarnessReaches, StrategyReaches, WrapperReaches DEF SettingsReach

LEMMA StoriesConfigured ==
  ASSUME NEW story \in SettingSubjects
  PROVE  story.about = "settings" /\ Configured(story)
  <1>1. PICK order \in SectionOrders,
             platform \in InFile("emerald", {"yes", "no"}) \cup InFile("execute", {"yes"}),
             strat \in InFile("spread", {"0.05", "0"}) \cup InFile("tick_sleep", {"0", "7"}),
             own \in InFile("emerald", {"yes", "no"}) \cup InFile("market_order_fee", {"0"}),
             args \in InFile("spread", {"bare", "0", "0.02"}) :
          /\ story.about = "settings" /\ story.order = order /\ story.args = args
          /\ story.items = [platform |-> platform, strategy |-> strat, bitstamp_btc_usd |-> own,
                            midpoint_weights |-> Setting("bitstamp", "1")]
    BY DEF SettingSubjects
  <1>2. /\ Len(order) \in Nat /\ DOMAIN order = 1..Len(order)
        /\ \A i, j \in DOMAIN order : order[i] = order[j] => i = j
        /\ \A i \in DOMAIN order :
             order[i] \in {"platform", "strategy", "bitstamp_btc_usd", "midpoint_weights"}
    BY DEF SectionOrders
  <1>3. ASSUME NEW option, NEW values, NEW items \in InFile(option, values), "none" \notin values
        PROVE  /\ \A o \in DOMAIN items : o = option
               /\ \A o \in DOMAIN items : items[o] # "none"
    BY <1>3 DEF InFile, Setting, NoSettings
  <1>4. /\ \A o \in DOMAIN platform : platform[o] # "none"
        /\ \A o \in DOMAIN strat : strat[o] # "none" /\ o # "midpoint_weights"
        /\ \A o \in DOMAIN own : own[o] # "none"
        /\ \A o \in DOMAIN args : args[o] # "none" /\ o # "midpoint_weights"
    <2>1. /\ "none" \notin {"yes", "no"} /\ "none" \notin {"yes"} /\ "none" \notin {"0.05", "0"}
          /\ "none" \notin {"0", "7"} /\ "none" \notin {"0"}
          /\ "none" \notin {"bare", "0", "0.02"}
      OBVIOUS
    <2>2. \A o \in DOMAIN platform : platform[o] # "none"
      BY <1>3, <2>1
    <2>3. \A o \in DOMAIN strat : strat[o] # "none" /\ o # "midpoint_weights"
      BY <1>3, <2>1
    <2>4. \A o \in DOMAIN own : own[o] # "none"
      BY <1>3, <2>1
    <2>5. \A o \in DOMAIN args : args[o] # "none" /\ o # "midpoint_weights"
      BY <1>3, <2>1
    <2> QED
      BY <2>2, <2>3, <2>4, <2>5
  <1>5. /\ DOMAIN Setting("bitstamp", "1") = {"bitstamp"}
        /\ Setting("bitstamp", "1")["bitstamp"] = "1"
    BY DEF Setting
  <1>6. ASSUME NEW i \in DOMAIN order
        PROVE  /\ order[i] # "exchanges"
               /\ \A o \in DOMAIN story.items[order[i]] : story.items[order[i]][o] # "none"
               /\ order[i] = "strategy" => "midpoint_weights" \notin DOMAIN story.items["strategy"]
               /\ order[i] = "midpoint_weights" => DOMAIN story.items["midpoint_weights"] # {}
    <2>1. CASE order[i] = "platform"
      BY <1>1, <1>4, <2>1
    <2>2. CASE order[i] = "strategy"
      BY <1>1, <1>4, <2>2
    <2>3. CASE order[i] = "bitstamp_btc_usd"
      BY <1>1, <1>4, <2>3
    <2>4. CASE order[i] = "midpoint_weights"
      BY <1>1, <1>5, <2>4
    <2> QED
      BY <1>2, <2>1, <2>2, <2>3, <2>4
  <1> QED
    BY <1>1, <1>2, <1>4, <1>6 DEF Configured

(***************************************************************************)
(* The subjects are built apart: those about settings are SettingSubjects. *)
(***************************************************************************)
LEMMA StrategySubjects ==
  ASSUME subject \in Quotes \cup Crosses \cup Slides \cup Histories \cup MakersBooks \cup Periods
  PROVE  subject.about # "settings"
  <1>1. CASE subject \in Quotes
    BY <1>1 DEF Quotes
  <1>2. CASE subject \in Crosses
    BY <1>2 DEF Crosses
  <1>3. CASE subject \in Slides
    BY <1>3 DEF Slides
  <1>4. CASE subject \in Histories
    BY <1>4 DEF Histories
  <1>5. CASE subject \in MakersBooks
    BY <1>5 DEF MakersBooks
  <1>6. CASE subject \in Periods
    BY <1>6 DEF Periods
  <1> QED
    BY <1>1, <1>2, <1>3, <1>4, <1>5, <1>6

StoryConfigured == subject.about = "settings" => Configured(subject)

LEMMA FirstSubject == Init => StoryConfigured
  <1> SUFFICES ASSUME Init PROVE StoryConfigured
    OBVIOUS
  <1>1. CASE StrategyInit
    BY <1>1, StrategySubjects DEF StrategyInit, StoryConfigured
  <1>2. CASE subject \in {[about |-> "books"], [about |-> "series"]}
    BY <1>2 DEF StoryConfigured
  <1>3. CASE subject \in SettingSubjects
    BY <1>3, StoriesConfigured DEF StoryConfigured
  <1>4. CASE subject \in PageSubjects
    BY <1>4 DEF PageSubjects, StoryConfigured
  <1>5. CASE subject \in BankSubjects
    BY <1>5 DEF BankSubjects, StoryConfigured
  <1> QED
    BY <1>1, <1>2, <1>3, <1>4, <1>5 DEF Init

(***************************************************************************)
(* In every state of the library's runs the settings come through.         *)
(***************************************************************************)
THEOREM SettingsAlwaysComeThrough == Spec => []SettingsComeThrough
  <1>1. StoryConfigured /\ [Next]_<<subject, makerVars, bookVars>> => StoryConfigured'
    BY DEF Next, BooksNext, StoryConfigured, Configured
  <1>2. StoryConfigured => SettingsComeThrough
    BY SettingsAlwaysReach DEF StoryConfigured, SettingsComeThrough
  <1> QED
    BY FirstSubject, <1>1, <1>2, PTL DEF Spec

(***************************************************************************)
(* The market makers stay within Furthest beside all other subjects, too.  *)
(***************************************************************************)
THEOREM LibraryStaysWithin == Spec => []PositionBounded
  <1>1. Init => MakerInit
    BY DEF Init, StrategyInit
  <1>2. [Next]_<<subject, makerVars, bookVars>> => [MakerNext]_makerVars
    BY DEF Next, StrategyNext
  <1>3. MakerInit /\ [][MakerNext]_makerVars => []PositionBounded
    BY MakerStaysWithin DEF MakerSpec
  <1> QED
    BY <1>1, <1>2, <1>3, PTL DEF Spec
===============================================================================
