------------------------ MODULE OrderHistory_proofs ------------------------
(***************************************************************************)
(* Signed orders, for any orders, sizes, prices and fee rates: no order is *)
(* overfilled, limits hold across all its fills, a closed order stays      *)
(* closed, and the inversion of the fee asks for enough.                   *)
(***************************************************************************)
EXTENDS OrderHistory, TLAPS

----------------------------------------------------------------------------
(* The arithmetic of amounts                                                *)

(* Amounts times prices and rates: no product goes below zero.              *)
LEMMA ProductIsNat ==
    ASSUME NEW a \in Nat, NEW b \in Nat
    PROVE  a * b \in Nat
  BY SMT

(* The three ways a sum is multiplied out. *)
LEMMA Distribute ==
    ASSUME NEW a \in Int, NEW b \in Int, NEW c \in Int
    PROVE  /\ (a + b) * c = a * c + b * c
           /\ c * (a + b) = c * a + c * b
           /\ c * (a - b) = c * a - c * b
  BY SMT

(* Rounding down, as the contract does: never up, and by less than a unit. *)
LEMMA DivBounds ==
    ASSUME NEW a \in Nat, NEW b \in Nat \ {0}
    PROVE  /\ a \div b \in Nat
           /\ (a \div b) * b <= a
           /\ a <= (a \div b) * b + (b - 1)
<1>1. a \div b \in Int /\ a % b \in 0 .. (b - 1) /\ a = b * (a \div b) + (a % b)
  BY SMT
<1>2. a \div b >= 0
  BY SMT
<1>3. b * (a \div b) = (a \div b) * b
  BY <1>1, SMT
<1> QED
  BY <1>1, <1>2, <1>3, SMT

(* A smaller factor makes a smaller product. *)
LEMMA ProductMonotone ==
    ASSUME NEW a \in Nat, NEW b \in Nat, NEW c \in Nat, a <= b
    PROVE  a * c <= b * c
<1>1. PICK d \in Nat : b = a + d
  BY b - a \in Nat, b = a + (b - a), SMT
<1>2. b * c = a * c + d * c
  BY <1>1, SMT
<1>3. d * c \in Nat /\ a * c \in Nat
  BY <1>1, ProductIsNat
<1> QED
  BY <1>2, <1>3, SMT

----------------------------------------------------------------------------
USE ClockConstants, OrderConstants

(* Over its life a buyer pays less than a unit a fill above its limit, and  *)
(* a seller gets less than a unit a fill below it: LimitsRespected for      *)
(* orders without a fill too.                                               *)
LimitKept(o) ==
    /\ o.buys => spent[o] * o.minAmountOut
                    <= traded[o] * o.amountIn + fills[o] * (o.minAmountOut - 1)
    /\ ~o.buys => earned[o] * o.amountIn
                    >= traded[o] * o.minAmountOut - fills[o] * (o.amountIn - 1)

IInv ==
    /\ TypeOK
    /\ NeverOverfilled
    /\ \A o \in Orders : LimitKept(o)

----------------------------------------------------------------------------
(* Rounding up                                                             *)

(* A quotient rounded up covers what it divides, by less than one divisor. *)
LEMMA CeilBounds ==
    ASSUME NEW a \in Nat, NEW b \in Nat \ {0}
    PROVE  /\ CeilDiv(a, b) \in Nat
           /\ a <= CeilDiv(a, b) * b
           /\ CeilDiv(a, b) * b <= a + (b - 1)
<1>1. CASE a = 0
  <2>1. 0 * b = 0
    BY SMT
  <2> QED BY <1>1, <2>1 DEF CeilDiv
<1>2. CASE a # 0
  <2> DEFINE q == (a - 1) \div b
  <2>1. q \in Nat /\ q * b <= a - 1 /\ a - 1 <= q * b + (b - 1)
    BY <1>2, DivBounds, a - 1 \in Nat
  <2>2. CeilDiv(a, b) = q + 1
    BY <1>2 DEF CeilDiv
  <2> HIDE DEF q
  <2>3. (q + 1) * b = q * b + b /\ q * b \in Nat
    BY <2>1, Distribute, ProductIsNat
  <2> QED BY <1>2, <2>1, <2>2, <2>3
<1> QED
  BY <1>1, <1>2

(* It is the least that does. *)
LEMMA CeilIsLeast ==
    ASSUME NEW a \in Nat, NEW b \in Nat \ {0}, NEW c \in Nat, a <= c * b
    PROVE  CeilDiv(a, b) <= c
<1> DEFINE q == CeilDiv(a, b)
<1>1. q \in Nat /\ q * b <= a + (b - 1)
  BY CeilBounds
<1> HIDE DEF q
<1>2. SUFFICES ASSUME c + 1 <= q PROVE FALSE
  BY <1>1 DEF q
<1>3. (c + 1) * b <= q * b
  BY <1>1, <1>2, ProductMonotone
<1>4. (c + 1) * b = c * b + b /\ c * b \in Nat /\ q * b \in Nat
  BY <1>1, Distribute, ProductIsNat
<1> QED
  BY <1>1, <1>3, <1>4

(* A quotient rounded down is a lower bound of every number that covers it. *)
LEMMA FloorIsBelow ==
    ASSUME NEW a \in Nat, NEW b \in Nat \ {0}, NEW c \in Nat, a <= c * b
    PROVE  a \div b <= c
<1> DEFINE q == a \div b
<1>1. q \in Nat /\ q * b <= a
  BY DivBounds
<1> HIDE DEF q
<1>2. SUFFICES ASSUME c + 1 <= q PROVE FALSE
  BY <1>1 DEF q
<1>3. (c + 1) * b <= q * b
  BY <1>1, <1>2, ProductMonotone
<1>4. (c + 1) * b = c * b + b /\ c * b \in Nat /\ q * b \in Nat
  BY <1>1, Distribute, ProductIsNat
<1> QED
  BY <1>1, <1>3, <1>4

(* Two products with one positive factor compare as the other factors do.  *)
LEMMA Cancels ==
    ASSUME NEW a \in Nat, NEW b \in Nat, NEW c \in Nat \ {0}, a * c <= b * c
    PROVE  a <= b
<1> SUFFICES ASSUME b + 1 <= a PROVE FALSE
  OBVIOUS
<1>1. (b + 1) * c <= a * c
  BY ProductMonotone
<1>2. (b + 1) * c = b * c + c /\ b * c \in Nat /\ a * c \in Nat
  BY Distribute, ProductIsNat
<1> QED
  BY <1>1, <1>2

----------------------------------------------------------------------------
(* The fee                                                                 *)

(* The cheaper side of a trade, on which the fee is charged. *)
CheaperSide(q, price) == IF price >= q THEN 0 ELSE Least(price, q - price)

(* What is left of a price after an unrounded fee, in parts of BPS. *)
NetOf(q, price) == price * BPS - CheaperSide(q, price) * feeBps

(* Rounding favours the trader: a price less its fee is at least its net.   *)
LEMMA FeeRoundsDown ==
    ASSUME OrdersTypeOK, NEW q \in Nat, NEW p \in Nat
    PROVE  /\ CheaperSide(q, p) \in Nat
           /\ CheaperSide(q, p) <= p
           /\ TradeFee(q, p) \in Nat
           /\ TradeFee(q, p) <= p
           /\ NetOf(q, p) \in Nat
           /\ (p - TradeFee(q, p)) * BPS >= NetOf(q, p)
<1> DEFINE c == CheaperSide(q, p)
           t == TradeFee(q, p)
<1>1. c \in Nat /\ c <= p
  BY DEF CheaperSide, Least
<1>2. feeBps \in Nat /\ feeBps < BPS
  BY DEF OrdersTypeOK
<1>3. c * feeBps \in Nat
  BY <1>1, <1>2, ProductIsNat
<1>4. t \in Nat /\ t * BPS <= c * feeBps
  <2>1. CASE p >= q
    <3>1. c = 0 /\ t = 0 /\ 0 * BPS = 0 /\ 0 * feeBps = 0
      BY <1>2, <2>1, SMT DEF CheaperSide, TradeFee
    <3> QED BY <3>1
  <2>2. CASE ~(p >= q)
    <3>1. t = (c * feeBps) \div BPS
      BY <2>2 DEF CheaperSide, TradeFee
    <3> QED BY <1>3, <3>1, DivBounds
  <2> QED BY <2>1, <2>2
<1>5. NetOf(q, p) = p * BPS - c * feeBps
  BY DEF NetOf
<1> HIDE DEF c, t
<1>6. (p - t) * BPS = p * BPS - t * BPS
  <2>1. \A x, y, z \in Int : (x - y) * z = x * z - y * z
    BY SMT
  <2> QED BY <1>4, <2>1
<1>7. p * BPS \in Nat /\ t * BPS \in Nat
  BY <1>4, ProductIsNat
<1>8. c * feeBps <= p * BPS
  <2>1. c * feeBps <= p * feeBps
    BY <1>1, <1>2, ProductMonotone
  <2>2. feeBps * p <= BPS * p /\ feeBps * p = p * feeBps /\ BPS * p = p * BPS
    BY <1>2, ProductMonotone, SMT
  <2> QED BY <1>2, <1>3, <1>7, <2>1, <2>2, ProductIsNat
<1>9. t <= p
  <2> SUFFICES ASSUME p + 1 <= t PROVE FALSE
    BY <1>4
  <2>1. (p + 1) * BPS <= t * BPS
    BY <1>4, ProductMonotone
  <2>2. (p + 1) * BPS = p * BPS + BPS
    BY Distribute
  <2> QED BY <1>3, <1>4, <1>7, <1>8, <2>1, <2>2
<1> QED
  BY <1>1, <1>3, <1>4, <1>5, <1>6, <1>7, <1>8, <1>9 DEF c, t

(* The inversion of the fee asks for enough: the gross nets the floor.      *)
LEMMA GrossNetsFloor ==
    ASSUME OrdersTypeOK, NEW q \in Nat, NEW net \in 0 .. q
    PROVE  /\ MinGrossForNet(net, q) \in Nat
           /\ NetOf(q, MinGrossForNet(net, q)) >= net * BPS
<1> DEFINE gross == MinGrossForNet(net, q)
           low == CeilDiv(net * BPS, BPS - feeBps)
           high == CeilDiv(net * BPS + feeBps * q, BPS + feeBps)
<1>1. feeBps \in Nat /\ feeBps < BPS
  BY DEF OrdersTypeOK
<1>2. /\ net * BPS \in Nat /\ feeBps * q \in Nat /\ net * BPS + feeBps * q \in Nat
      /\ BPS - feeBps \in Nat \ {0} /\ BPS + feeBps \in Nat \ {0}
  <2>1. net * BPS \in Nat /\ feeBps * q \in Nat
    BY <1>1, ProductIsNat
  <2> QED BY <1>1, <2>1
<1>3. CASE feeBps = 0 \/ net = 0
  <2>1. gross = net
    BY <1>3 DEF MinGrossForNet
  <2>2. CheaperSide(q, net) * feeBps = 0
    <3>1. CheaperSide(q, net) \in Nat /\ CheaperSide(q, net) <= net
      BY FeeRoundsDown
    <3>2. \A x \in Nat : x * 0 = 0 /\ 0 * x = 0
      BY SMT
    <3> QED BY <1>1, <1>3, <3>1, <3>2
  <2> QED BY <1>2, <2>1, <2>2 DEF NetOf
<1>4. CASE ~(feeBps = 0 \/ net = 0) /\ low * 2 <= q
  <2>1. gross = low
    BY <1>4 DEF MinGrossForNet
  <2>2. low \in Nat /\ net * BPS <= low * (BPS - feeBps)
    BY <1>2, CeilBounds
  <2> HIDE DEF gross, low, high
  <2>3. CheaperSide(q, low) <= low /\ CheaperSide(q, low) \in Nat
    BY <2>2, FeeRoundsDown
  <2>4. CheaperSide(q, low) * feeBps <= low * feeBps
    BY <1>1, <2>2, <2>3, ProductMonotone
  <2>5. low * (BPS - feeBps) = low * BPS - low * feeBps
    BY <1>1, <2>2, Distribute
  <2>6. /\ low * BPS \in Nat /\ low * feeBps \in Nat
        /\ CheaperSide(q, low) * feeBps \in Nat
    BY <1>1, <2>2, <2>3, ProductIsNat
  <2> QED BY <1>2, <2>1, <2>2, <2>4, <2>5, <2>6 DEF NetOf, gross
<1>5. CASE ~(feeBps = 0 \/ net = 0) /\ ~(low * 2 <= q)
  <2>1. gross = high
    BY <1>5 DEF MinGrossForNet
  <2>2. high \in Nat /\ net * BPS + feeBps * q <= high * (BPS + feeBps)
    BY <1>2, CeilBounds
  <2> HIDE DEF gross, low, high
  <2>3. CheaperSide(q, high) <= q - high \/ (high >= q /\ CheaperSide(q, high) = 0)
    BY <2>2 DEF CheaperSide, Least
  <2>4. CheaperSide(q, high) \in Nat
    BY <2>2, FeeRoundsDown
  <2>5. CASE high >= q /\ CheaperSide(q, high) = 0
    <3>1. net * BPS <= high * BPS
      BY <2>2, <2>5, ProductMonotone
    <3>2. 0 * feeBps = 0 /\ high * BPS \in Nat
      BY <1>1, <2>2, ProductIsNat, SMT
    <3>3. NetOf(q, high) = high * BPS
      BY <2>5, <3>2 DEF NetOf
    <3> QED BY <2>1, <2>2, <3>1, <3>2, <3>3 DEF gross
  <2>6. CASE CheaperSide(q, high) <= q - high
    <3>1. q - high \in Nat
      BY <2>2, <2>4, <2>6
    <3>2. CheaperSide(q, high) * feeBps <= (q - high) * feeBps
      BY <1>1, <2>4, <2>6, <3>1, ProductMonotone
    <3>3. (q - high) * feeBps = feeBps * q - high * feeBps
      <4>1. \A x, y, z \in Int : (x - y) * z = z * x - y * z
        BY SMT
      <4> QED BY <1>1, <2>2, <4>1
    <3>4. high * (BPS + feeBps) = high * BPS + high * feeBps
      BY <1>1, <2>2, Distribute
    <3>5. /\ high * BPS \in Nat /\ high * feeBps \in Nat
          /\ CheaperSide(q, high) * feeBps \in Nat
      BY <1>1, <2>2, <2>4, ProductIsNat
    <3> QED BY <1>2, <2>1, <2>2, <3>2, <3>3, <3>4, <3>5 DEF NetOf, gross
  <2> QED BY <2>3, <2>5, <2>6
<1>6. gross \in Nat
  <2>1. low \in Nat /\ high \in Nat
    BY <1>2, CeilBounds
  <2> HIDE DEF low, high
  <2> QED BY <2>1 DEF MinGrossForNet, low, high
<1> QED
  BY <1>3, <1>4, <1>5, <1>6

(* What a price nets is proportional, at least: a price no lower for each   *)
(* token nets no less for each token.                                       *)
LEMMA NetScales ==
    ASSUME OrdersTypeOK, NEW size \in Nat \ {0}, NEW quote \in Nat,
           NEW n \in Nat, NEW p \in Nat, n * quote <= p * size
    PROVE  n * NetOf(size, quote) <= NetOf(n, p) * size
<1> DEFINE c == CheaperSide(n, p)
           d == CheaperSide(size, quote)
           X == p * size - n * quote
           Y == c * size - n * d
<1>1. c \in Nat /\ c <= p /\ d \in Nat /\ d <= quote
  BY FeeRoundsDown
<1>2. feeBps \in Nat /\ feeBps <= BPS
  BY DEF OrdersTypeOK
<1>3. /\ p * size \in Nat /\ n * quote \in Nat /\ c * size \in Nat /\ n * d \in Nat
      /\ n * size \in Nat
  BY <1>1, ProductIsNat
<1>4. X \in Nat /\ Y \in Int
  BY <1>3
<1>5. Y <= X
  <2>1. c * size <= p * size
    BY <1>1, ProductMonotone
  <2>2. CASE quote >= size
    <3>1. d = 0 /\ n * 0 = 0
      BY <2>2, SMT DEF CheaperSide
    <3>2. n * size <= p * size
      <4>1. size * n <= quote * n /\ size * n = n * size /\ quote * n = n * quote
        BY <2>2, ProductMonotone, SMT
      <4> QED BY <1>3, <4>1
    <3>3. c = 0 /\ 0 * size = 0
      BY <3>2, Cancels, SMT DEF CheaperSide
    <3> QED BY <1>4, <3>1, <3>3
  <2>3. CASE quote < size /\ d = quote
    <3> HIDE DEF c, d
    <3> QED BY <1>3, <2>1, <2>3
  <2>4. CASE quote < size /\ d = size - quote
    <3>1. CASE p >= n
      <4>1. c = 0 /\ 0 * size = 0
        BY <3>1, SMT DEF CheaperSide
      <4> HIDE DEF c, d
      <4> QED BY <1>3, <1>4, <4>1
    <3>2. CASE p < n
      <4>1. c <= n - p
        BY <3>2 DEF CheaperSide, Least
      <4> HIDE DEF c, d
      <4>2. c * size <= (n - p) * size
        BY <1>1, <3>2, <4>1, n - p \in Nat, ProductMonotone
      <4>3. (n - p) * size = n * size - p * size /\ n * d = n * size - n * quote
        <5>1. \A x, y, z \in Int : (x - y) * z = x * z - y * z /\ z * (x - y) = z * x - z * y
          BY SMT
        <5> QED BY <2>4, <5>1
      <4> QED BY <1>3, <4>2, <4>3
    <3> QED BY <3>1, <3>2
  <2> QED BY <2>2, <2>3, <2>4 DEF CheaperSide, Least
<1>6. NetOf(n, p) * size - n * NetOf(size, quote) = BPS * X - feeBps * Y
  <2>1. NetOf(n, p) = p * BPS - c * feeBps /\ NetOf(size, quote) = quote * BPS - d * feeBps
    BY DEF NetOf
  <2>2. \A x1, x2, x3, x4, x5, x6, b, f \in Int :
          (x1 * b - x2 * f) * x3 - x4 * (x5 * b - x6 * f)
            = b * (x1 * x3 - x4 * x5) - f * (x2 * x3 - x4 * x6)
    BY SMT
  <2> HIDE DEF c, d
  <2> QED BY <1>1, <1>2, <2>1, <2>2
<1>7. feeBps * Y <= BPS * X
  <2> HIDE DEF X, Y
  <2>1. CASE Y <= 0
    <3>1. feeBps * Y <= 0
      <4>1. \A x, y \in Int : x * (0 - y) = 0 - x * y
        BY SMT
      <4>2. 0 - Y \in Nat /\ Y = 0 - (0 - Y)
        BY <1>4, <2>1
      <4>3. feeBps * (0 - Y) \in Nat
        BY <1>2, <4>2, ProductIsNat
      <4> QED BY <1>2, <1>4, <4>1, <4>2, <4>3
    <3>2. BPS * X \in Nat /\ feeBps * Y \in Int
      <4>1. \A x, y \in Int : x * y \in Int
        BY SMT
      <4> QED BY <1>2, <1>4, <4>1, ProductIsNat
    <3> QED BY <3>1, <3>2
  <2>2. CASE Y > 0
    <3>1. Y \in Nat
      BY <1>4, <2>2
    <3>2. Y * feeBps <= X * feeBps /\ feeBps * X <= BPS * X
      BY <1>2, <1>4, <1>5, <3>1, ProductMonotone
    <3>3. Y * feeBps = feeBps * Y /\ X * feeBps = feeBps * X
      BY <1>2, <1>4, SMT
    <3>4. feeBps * Y \in Nat /\ feeBps * X \in Nat /\ BPS * X \in Nat
      BY <1>2, <1>4, <3>1, ProductIsNat
    <3> QED BY <3>2, <3>3, <3>4
  <2> QED BY <1>4, <2>1, <2>2
<1>8. NetOf(n, p) * size \in Nat /\ n * NetOf(size, quote) \in Nat
  BY FeeRoundsDown, ProductIsNat
<1>9. BPS * X \in Nat /\ feeBps * Y \in Int
  <2>1. \A x, y \in Int : x * y \in Int
    BY SMT
  <2> HIDE DEF X, Y
  <2> QED BY <1>2, <1>4, <2>1, ProductIsNat
<1> HIDE DEF X, Y
<1> QED
  BY <1>6, <1>7, <1>8, <1>9

(* What the server asks of an order's proceeds is its share of the debt,    *)
(* rounded up, and no more than the order's size while the debt is no more  *)
(* than the holding.                                                        *)
LEMMA RequiredCovers ==
    ASSUME NEW held \in Nat \ {0}, NEW debt \in 0 .. held, NEW offered \in 1 .. held
    PROVE  /\ RequiredProceeds(offered, debt, held) \in 0 .. offered
           /\ debt * offered <= RequiredProceeds(offered, debt, held) * held
<1>1. debt * offered \in Nat /\ offered \in Nat /\ debt \in Nat
  BY ProductIsNat
<1>2. CASE offered >= held
  BY <1>1, <1>2 DEF RequiredProceeds
<1>3. CASE ~(offered >= held)
  <2>1. RequiredProceeds(offered, debt, held) = CeilDiv(debt * offered, held)
    BY <1>3 DEF RequiredProceeds
  <2>2. debt * offered <= offered * held
    <3>1. debt * offered <= held * offered /\ held * offered = offered * held
      BY <1>1, ProductMonotone, SMT
    <3> QED BY <3>1
  <2>3. CeilDiv(debt * offered, held) <= offered
    BY <1>1, <2>2, CeilIsLeast
  <2> QED BY <1>1, <2>1, <2>3, CeilBounds
<1> QED
  BY <1>2, <1>3

(* A fill's share of the debt is rounded down. *)
LEMMA ShareIsBelow ==
    ASSUME NEW held \in Nat \ {0}, NEW debt \in Nat, NEW n \in 1 .. held
    PROVE  /\ DebtShare(n, debt, held) \in Nat
           /\ DebtShare(n, debt, held) * held <= n * debt
<1>1. debt * n \in Nat /\ n * debt = debt * n
  BY ProductIsNat, n \in Nat, SMT
<1>2. CASE n >= held
  BY <1>1, <1>2 DEF DebtShare
<1>3. CASE ~(n >= held)
  <2>1. DebtShare(n, debt, held) = (debt * n) \div held
    BY <1>3 DEF DebtShare
  <2> QED BY <1>1, <2>1, DivBounds
<1> QED
  BY <1>2, <1>3

(* A first fill of any size, at a floor that nets the proceeds asked for,   *)
(* pays its fee and its share of the debt.                                  *)
LEMMA FillPaysItsShare ==
    ASSUME OrdersTypeOK, NEW held \in Nat \ {0}, NEW debt \in 0 .. held,
           NEW offered \in 1 .. held, NEW n \in 1 .. offered,
           NEW quote \in Nat, NEW required \in Nat,
           debt * offered <= required * held,
           NetOf(offered, quote) >= required * BPS
    PROVE  LET price == CeilDiv(n * quote, offered)
           IN  price >= TradeFee(n, price) + DebtShare(n, debt, held)
<1> DEFINE price == CeilDiv(n * quote, offered)
           share == DebtShare(n, debt, held)
           fee == TradeFee(n, price)
           left == price - fee
<1>1. /\ offered \in Nat \ {0} /\ n \in Nat \ {0} /\ n \in 1 .. held /\ debt \in Nat
      /\ n * quote \in Nat
  BY ProductIsNat
<1>2. price \in Nat /\ n * quote <= price * offered
  BY <1>1, CeilBounds
<1>3. share \in Nat /\ share * held <= n * debt
  BY <1>1, ShareIsBelow
<1> HIDE DEF price, share
<1>4. /\ NetOf(n, price) \in Nat /\ NetOf(offered, quote) \in Nat
      /\ left \in Nat /\ NetOf(n, price) <= left * BPS
  <2>1. /\ fee \in Nat /\ fee <= price /\ NetOf(n, price) \in Nat
        /\ (price - fee) * BPS >= NetOf(n, price)
    BY <1>1, <1>2, n \in Nat, FeeRoundsDown
  <2>2. NetOf(offered, quote) \in Nat
    BY <1>1, FeeRoundsDown
  <2> HIDE DEF fee
  <2>3. left \in Nat
    BY <1>2, <2>1
  <2>4. left * BPS \in Nat /\ left * BPS = (price - fee) * BPS
    BY <2>3, ProductIsNat
  <2> QED BY <2>1, <2>2, <2>3, <2>4
<1>5. n * NetOf(offered, quote) <= NetOf(n, price) * offered
  BY <1>1, <1>2, NetScales
<1> HIDE DEF left
<1>6. n * (required * BPS) <= (left * BPS) * offered
  <2>1. required * BPS \in Nat /\ left * BPS \in Nat
    BY <1>4, ProductIsNat
  <2>2. (required * BPS) * n <= NetOf(offered, quote) * n
    BY <1>1, <1>4, <2>1, ProductMonotone
  <2>3. NetOf(n, price) * offered <= (left * BPS) * offered
    BY <1>1, <1>4, <2>1, ProductMonotone
  <2>4. /\ (required * BPS) * n = n * (required * BPS)
        /\ NetOf(offered, quote) * n = n * NetOf(offered, quote)
    BY <1>1, <1>4, <2>1, SMT
  <2>5. /\ n * (required * BPS) \in Nat /\ (left * BPS) * offered \in Nat
        /\ n * NetOf(offered, quote) \in Nat /\ NetOf(n, price) * offered \in Nat
    BY <1>1, <1>4, <2>1, ProductIsNat
  <2> QED BY <1>5, <2>2, <2>3, <2>4, <2>5
<1>7. n * required <= left * offered
  <2>1. n * required \in Nat /\ left * offered \in Nat
    BY <1>1, <1>4, ProductIsNat
  <2>2. n * (required * BPS) = (n * required) * BPS /\ (left * BPS) * offered = (left * offered) * BPS
    <3>1. \A x, y, z \in Int : x * (y * z) = (x * y) * z /\ (x * z) * y = (x * y) * z
      BY SMT
    <3> QED BY <1>1, <1>4, <3>1
  <2> QED BY <1>6, <2>1, <2>2, Cancels
<1>8. share * held <= left * held
  <2>1. (share * held) * offered <= (n * debt) * offered
    BY <1>1, <1>3, ProductIsNat, ProductMonotone
  <2>2. (n * debt) * offered = (debt * offered) * n
    <3>1. \A x, y, z \in Int : (x * y) * z = (y * z) * x
      BY SMT
    <3> QED BY <1>1, <3>1
  <2>3. (debt * offered) * n <= (required * held) * n
    BY <1>1, ProductIsNat, ProductMonotone
  <2>4. (required * held) * n = (n * required) * held
    <3>1. \A x, y, z \in Int : (x * y) * z = (z * x) * y
      BY SMT
    <3> QED BY <1>1, <3>1
  <2>5. (n * required) * held <= (left * offered) * held
    BY <1>1, <1>4, <1>7, ProductIsNat, ProductMonotone
  <2>6. (left * offered) * held = (left * held) * offered
    <3>1. \A x, y, z \in Int : (x * y) * z = (x * z) * y
      BY SMT
    <3> QED BY <1>1, <1>4, <3>1
  <2>7. (share * held) * offered <= (left * held) * offered
    <3>1. /\ (share * held) * offered \in Nat /\ (debt * offered) * n \in Nat
          /\ (n * required) * held \in Nat /\ (left * held) * offered \in Nat
      BY <1>1, <1>3, <1>4, ProductIsNat
    <3> QED BY <2>1, <2>2, <2>3, <2>4, <2>5, <2>6, <3>1
  <2> QED BY <1>1, <1>3, <1>4, <2>7, ProductIsNat, Cancels
<1>9. share <= left
  BY <1>3, <1>4, <1>8, Cancels
<1>10. fee \in Nat
  BY <1>1, <1>2, FeeRoundsDown
<1> QED
  BY <1>2, <1>3, <1>9, <1>10 DEF left, price, share

(* The fee rate never exceeds its cap, so what is asked for covers what is  *)
(* taken out of it.                                                         *)
LEMMA AsksCover == OrdersTypeOK => AskCoversItsCosts
<1> SUFFICES ASSUME OrdersTypeOK, NEW q \in QuoteSizes
             PROVE  /\ \A net \in 0 .. q :
                         MinGrossForNet(net, q) - TradeFee(q, MinGrossForNet(net, q)) >= net
                    /\ \A debt \in {d \in QuoteDebts : d <= q}, offered \in 1 .. q :
                         LET quote == MinSellProceeds(offered, debt, q)
                             price(n) == CeilDiv(n * quote, offered)
                         IN  /\ PreFilterAccepts(offered, quote, debt, q)
                             /\ \A n \in 1 .. offered :
                                  price(n) >= TradeFee(n, price(n)) + DebtShare(n, debt, q)
  BY DEF AskCoversItsCosts
<1>1. \A size \in Nat, net \in Nat : net <= size =>
         /\ MinGrossForNet(net, size) \in Nat
         /\ NetOf(size, MinGrossForNet(net, size)) >= net * BPS
         /\ TradeFee(size, MinGrossForNet(net, size)) \in Nat
         /\ MinGrossForNet(net, size) - TradeFee(size, MinGrossForNet(net, size)) >= net
  <2> SUFFICES ASSUME NEW size \in Nat, NEW net \in 0 .. size
               PROVE  /\ MinGrossForNet(net, size) \in Nat
                      /\ NetOf(size, MinGrossForNet(net, size)) >= net * BPS
                      /\ TradeFee(size, MinGrossForNet(net, size)) \in Nat
                      /\ MinGrossForNet(net, size)
                            - TradeFee(size, MinGrossForNet(net, size)) >= net
    OBVIOUS
  <2> DEFINE gross == MinGrossForNet(net, size)
             left == gross - TradeFee(size, gross)
  <2>1. gross \in Nat /\ NetOf(size, gross) >= net * BPS
    BY GrossNetsFloor
  <2> HIDE DEF gross
  <2>2. /\ TradeFee(size, gross) \in Nat /\ left \in Nat
        /\ NetOf(size, gross) \in Nat /\ left * BPS >= NetOf(size, gross)
    <3>1. /\ TradeFee(size, gross) \in Nat /\ TradeFee(size, gross) <= gross
          /\ NetOf(size, gross) \in Nat
          /\ (gross - TradeFee(size, gross)) * BPS >= NetOf(size, gross)
      BY <2>1, FeeRoundsDown
    <3> QED BY <2>1, <3>1
  <2> HIDE DEF left
  <2>3. net * BPS <= left * BPS
    BY <2>1, <2>2, ProductIsNat
  <2>4. net <= left
    BY <2>2, <2>3, Cancels
  <2> QED BY <2>1, <2>2, <2>4 DEF gross, left
<1>2. q \in Nat
  OBVIOUS
<1>3. ASSUME NEW net \in 0 .. q
      PROVE  MinGrossForNet(net, q) - TradeFee(q, MinGrossForNet(net, q)) >= net
  BY <1>1, <1>2
<1>4. ASSUME NEW debt \in QuoteDebts, debt <= q, NEW offered \in 1 .. q
      PROVE  LET quote == MinSellProceeds(offered, debt, q)
                 price(n) == CeilDiv(n * quote, offered)
             IN  /\ PreFilterAccepts(offered, quote, debt, q)
                 /\ \A n \in 1 .. offered :
                      price(n) >= TradeFee(n, price(n)) + DebtShare(n, debt, q)
  <2> DEFINE required == RequiredProceeds(offered, debt, q)
             quote == MinSellProceeds(offered, debt, q)
  <2>1. q \in Nat \ {0} /\ debt \in 0 .. q /\ offered \in Nat
    BY <1>2, <1>4
  <2>2. required \in Nat /\ required <= offered /\ debt * offered <= required * q
    BY <2>1, RequiredCovers
  <2>3. quote = MinGrossForNet(required, offered)
    BY DEF MinSellProceeds
  <2> HIDE DEF required
  <2>4. /\ quote \in Nat /\ NetOf(offered, quote) >= required * BPS
        /\ TradeFee(offered, quote) \in Nat /\ quote - TradeFee(offered, quote) >= required
    BY <1>1, <2>1, <2>2, <2>3
  <2> HIDE DEF quote
  <2>5. PreFilterAccepts(offered, quote, debt, q)
    BY <2>2, <2>4 DEF PreFilterAccepts, required
  <2>6. ASSUME NEW n \in 1 .. offered
        PROVE  CeilDiv(n * quote, offered)
                 >= TradeFee(n, CeilDiv(n * quote, offered)) + DebtShare(n, debt, q)
    BY <2>1, <2>2, <2>4, FillPaysItsShare
  <2> QED BY <2>5, <2>6 DEF quote
<1> QED
  BY <1>3, <1>4

----------------------------------------------------------------------------
(* The price of a fill                                                     *)

(* _price: a fill that may happen costs the buyer a positive amount, no     *)
(* more than is left of what it signed for, and less than a unit above its  *)
(* limit; and the seller's floor, rounded down, is met.                     *)
LEMMA PriceInLimits ==
    ASSUME TypeOK, NeverOverfilled, NEW sell \in Orders, NEW buy \in Orders,
           NEW tokens \in TradeSizes, NEW makerSells \in BOOLEAN,
           ~sell.buys, buy.buys,
           CheckOrder(sell, tokens), CheckOrder(buy, tokens),
           Crosses(sell, buy, tokens, makerSells)
    PROVE  LET price == TradePrice(sell, buy, tokens, makerSells)
               basis == SellerBasis(sell, tokens, price)
           IN  /\ price \in Nat \ {0}
               /\ price <= buy.amountIn - spent[buy]
               /\ price * buy.minAmountOut <= tokens * buy.amountIn + (buy.minAmountOut - 1)
               /\ basis \in Nat
               /\ basis * sell.amountIn >= tokens * sell.minAmountOut - (sell.amountIn - 1)
<1> DEFINE price == TradePrice(sell, buy, tokens, makerSells)
           basis == SellerBasis(sell, tokens, price)
           limit == CeilDiv(tokens * buy.amountIn, buy.minAmountOut)
           cap == BuyerCap(buy, tokens)
           ask == SellerAsk(sell, tokens)
           floorUsdc == CeilDiv(tokens * sell.minAmountOut, sell.amountIn)
           least == (tokens * sell.minAmountOut) \div sell.amountIn
<1>1. /\ tokens \in Nat \ {0}
      /\ sell.amountIn \in Nat \ {0} /\ sell.minAmountOut \in Nat
      /\ buy.minAmountOut \in Nat \ {0} /\ buy.amountIn \in Nat
      /\ spent[buy] \in Nat /\ spent[buy] <= buy.amountIn
      /\ feeBps \in Nat /\ feeBps < BPS
      /\ tokens <= sell.amountIn
  BY DEF Order, CheckOrder, TokenQuantity, TypeOK, OrdersTypeOK, NeverOverfilled
<1>2. tokens * buy.amountIn \in Nat /\ tokens * sell.minAmountOut \in Nat
  BY <1>1, ProductIsNat
<1>3. /\ limit \in Nat
      /\ limit * buy.minAmountOut <= tokens * buy.amountIn + (buy.minAmountOut - 1)
      /\ floorUsdc \in Nat
  BY <1>1, <1>2, CeilBounds
<1>4. least \in Nat /\ tokens * sell.minAmountOut <= least * sell.amountIn + (sell.amountIn - 1)
  BY <1>1, <1>2, DivBounds
<1>5. cap = Least(limit, buy.amountIn - spent[buy])
  BY DEF BuyerCap
<1> HIDE DEF limit, floorUsdc, least
<1>6. cap \in Nat /\ cap <= limit /\ cap <= buy.amountIn - spent[buy]
  BY <1>1, <1>3, <1>5 DEF Least
<1>7. ask \in Nat
  <2>1. CASE sell.token = "YES"
    BY <1>3, <2>1 DEF SellerAsk, floorUsdc
  <2>2. CASE sell.token # "YES"
    <3>1. ask = MinGrossForNet(floorUsdc, tokens)
      BY <2>2 DEF SellerAsk, floorUsdc
    <3>2. /\ BPS - feeBps \in Nat \ {0} /\ BPS + feeBps \in Nat \ {0}
          /\ floorUsdc * BPS \in Nat /\ feeBps * tokens \in Nat
          /\ floorUsdc * BPS + feeBps * tokens \in Nat
      <4>1. floorUsdc * BPS \in Nat /\ feeBps * tokens \in Nat
        BY <1>1, <1>3, ProductIsNat
      <4> QED BY <1>1, <4>1
    <3>3. /\ CeilDiv(floorUsdc * BPS, BPS - feeBps) \in Nat
          /\ CeilDiv(floorUsdc * BPS + feeBps * tokens, BPS + feeBps) \in Nat
      BY <3>2, CeilBounds
    <3> QED BY <1>3, <3>1, <3>3 DEF MinGrossForNet
  <2> QED BY <2>1, <2>2
<1>8. price = cap \/ price = Least(ask, cap)
  BY DEF TradePrice
<1> HIDE DEF cap, ask
<1>9. price \in Nat /\ price > 0 /\ price <= cap
  <2>1. price > 0
    BY DEF Crosses
  <2> QED BY <1>6, <1>7, <1>8, <2>1 DEF Least
<1>10. price * buy.minAmountOut <= tokens * buy.amountIn + (buy.minAmountOut - 1)
  <2> HIDE DEF price
  <2>1. price * buy.minAmountOut <= limit * buy.minAmountOut
    BY <1>1, <1>3, <1>6, <1>9, ProductMonotone
  <2>2. price * buy.minAmountOut \in Nat /\ limit * buy.minAmountOut \in Nat
    BY <1>1, <1>3, <1>9, ProductIsNat
  <2> QED BY <1>1, <1>2, <1>3, <2>1, <2>2
<1>11. basis \in Nat /\ basis >= least
  <2>1. basis >= least
    BY DEF Crosses, least
  <2>2. basis \in Int
    <3>1. CASE sell.token = "YES"
      BY <1>9, <3>1 DEF SellerBasis
    <3>2. CASE sell.token # "YES"
      <4>1. TradeFee(tokens, price) \in Nat
        BY <1>1, <1>9, FeeRoundsDown DEF TypeOK
      <4> HIDE DEF price
      <4> QED BY <1>9, <3>2, <4>1 DEF SellerBasis
    <3> QED BY <3>1, <3>2
  <2> HIDE DEF basis
  <2> QED BY <1>4, <2>1, <2>2
<1>12. basis * sell.amountIn >= tokens * sell.minAmountOut - (sell.amountIn - 1)
  <2> HIDE DEF basis
  <2>1. least * sell.amountIn <= basis * sell.amountIn
    BY <1>1, <1>4, <1>11, ProductMonotone
  <2>2. least * sell.amountIn \in Nat /\ basis * sell.amountIn \in Nat
    BY <1>1, <1>4, <1>11, ProductIsNat
  <2> QED BY <1>1, <1>2, <1>4, <2>1, <2>2
<1>13. price <= buy.amountIn - spent[buy]
  <2> HIDE DEF price
  <2> QED BY <1>1, <1>6, <1>9
<1> QED
  BY <1>9, <1>10, <1>11, <1>12, <1>13

----------------------------------------------------------------------------
(* The invariants                                                          *)

LEMMA InitIInv == Init => IInv
<1> SUFFICES ASSUME Init PROVE IInv
  OBVIOUS
<1>1. TypeOK
  BY DEF Init, OrdersInit, TypeOK, OrdersTypeOK
<1>2. NeverOverfilled
  BY DEF Init, OrdersInit, NeverOverfilled, TokenQuantity, Order
<1>3. ASSUME NEW o \in Orders PROVE LimitKept(o)
  <2>1. /\ spent[o] = 0 /\ traded[o] = 0 /\ fills[o] = 0 /\ earned[o] = 0
        /\ o.amountIn \in Nat /\ o.minAmountOut \in Nat
    BY DEF Init, OrdersInit, Order
  <2>2. \A x \in Int : 0 * x = 0
    BY SMT
  <2>3. o.minAmountOut - 1 \in Int /\ o.amountIn - 1 \in Int
    BY <2>1
  <2> QED BY <2>1, <2>2, <2>3 DEF LimitKept
<1> QED
  BY <1>1, <1>2, <1>3 DEF IInv

(* A fill keeps all of it: two orders are counted, each by what it trades.  *)
LEMMA FillKeepsIInv == IInv /\ OperatorFills => IInv'
<1> SUFFICES ASSUME IInv, OperatorFills PROVE IInv'
  OBVIOUS
<1> USE DEF IInv, TypeOK
<1>1. PICK sell \in Orders, buy \in Orders, tokens \in TradeSizes, makerSells \in BOOLEAN :
        LET price == TradePrice(sell, buy, tokens, makerSells)
        IN  /\ FillOrders(sell, buy, tokens, makerSells)
            /\ traded' = [traded EXCEPT ![sell] = @ + tokens, ![buy] = @ + tokens]
            /\ fills' = [fills EXCEPT ![sell] = @ + 1, ![buy] = @ + 1]
            /\ earned' = [earned EXCEPT ![sell] = @ + SellerBasis(sell, tokens, price)]
  BY DEF OperatorFills
<1> DEFINE price == TradePrice(sell, buy, tokens, makerSells)
           basis == SellerBasis(sell, tokens, price)
<1>2. /\ ~sell.buys /\ buy.buys /\ sell # buy /\ tokens \in Nat
      /\ CheckOrder(sell, tokens) /\ CheckOrder(buy, tokens)
      /\ Crosses(sell, buy, tokens, makerSells)
      /\ filled' = [filled EXCEPT ![sell] = @ + tokens, ![buy] = @ + tokens]
      /\ spent' = [spent EXCEPT ![buy] = @ + price]
      /\ UNCHANGED <<now, minNonce, feeBps>>
  BY <1>1 DEF FillOrders, RecordFill
<1>3. /\ price \in Nat \ {0}
      /\ price <= buy.amountIn - spent[buy]
      /\ price * buy.minAmountOut <= tokens * buy.amountIn + (buy.minAmountOut - 1)
      /\ basis \in Nat
      /\ basis * sell.amountIn >= tokens * sell.minAmountOut - (sell.amountIn - 1)
  BY <1>2, PriceInLimits
<1>4. /\ traded' = [traded EXCEPT ![sell] = @ + tokens, ![buy] = @ + tokens]
      /\ fills' = [fills EXCEPT ![sell] = @ + 1, ![buy] = @ + 1]
      /\ earned' = [earned EXCEPT ![sell] = @ + basis]
  BY <1>1
<1> HIDE DEF price, basis
<1>5. TypeOK'
  BY <1>2, <1>3, <1>4 DEF OrdersTypeOK
<1>6. /\ spent \in [Orders -> Nat] /\ filled \in [Orders -> Nat]
      /\ traded \in [Orders -> Nat] /\ fills \in [Orders -> Nat] /\ earned \in [Orders -> Nat]
      /\ \A o \in Orders : o.amountIn \in Nat /\ o.minAmountOut \in Nat
  BY DEF OrdersTypeOK, Order
<1>7. NeverOverfilled'
  <2> SUFFICES ASSUME NEW o \in Orders
               PROVE  /\ filled'[o] <= TokenQuantity(o)
                      /\ o.buys => spent'[o] <= o.amountIn
                      /\ ~o.buys => spent'[o] = 0
    BY DEF NeverOverfilled
  <2>1. /\ filled[o] <= TokenQuantity(o)
        /\ o.buys => spent[o] <= o.amountIn
        /\ ~o.buys => spent[o] = 0
    BY DEF NeverOverfilled
  <2>2. /\ filled[sell] + tokens <= TokenQuantity(sell)
        /\ filled[buy] + tokens <= TokenQuantity(buy)
    BY <1>2 DEF CheckOrder
  <2> QED BY <1>2, <1>3, <1>6, <2>1, <2>2
<1>8. ASSUME NEW o \in Orders PROVE LimitKept(o)'
  <2>1. LimitKept(o)
    OBVIOUS
  <2>2. CASE o = buy
    <3> DEFINE s == spent[o]
               t == traded[o]
               n == fills[o]
               m == o.minAmountOut
               a == o.amountIn
    <3>1. /\ spent'[o] = s + price /\ traded'[o] = t + tokens /\ fills'[o] = n + 1
      BY <1>2, <1>4, <1>6, <2>2
    <3>2. s * m <= t * a + n * (m - 1) /\ price * m <= tokens * a + (m - 1)
      BY <1>2, <1>3, <2>1, <2>2 DEF LimitKept
    <3>3. /\ s \in Int /\ t \in Int /\ n \in Int /\ m \in Int /\ a \in Int
          /\ price \in Int /\ tokens \in Int
      BY <1>2, <1>3, <1>6
    <3> HIDE DEF s, t, n, m, a
    <3>4. (s + price) * m <= (t + tokens) * a + (n + 1) * (m - 1)
      <4>1. \A x1, x2, x3, x4, x5, y1, y2 \in Int :
              (x1 + x2) * y1 = x1 * y1 + x2 * y1
                /\ (x3 + x4) * y2 + (x5 + 1) * (y1 - 1) = (x3 * y2 + x5 * (y1 - 1)) + (x4 * y2 + (y1 - 1))
        BY SMT
      <4>2. \A x, y \in Int : x * y \in Int
        BY SMT
      <4>3. /\ s * m \in Int /\ price * m \in Int /\ t * a \in Int /\ tokens * a \in Int
            /\ m - 1 \in Int /\ n * (m - 1) \in Int
        BY <3>3, <4>2
      <4>4. (s + price) * m = s * m + price * m
        BY <3>3, <4>1
      <4>5. (t + tokens) * a + (n + 1) * (m - 1) = (t * a + n * (m - 1)) + (tokens * a + (m - 1))
        BY <3>3, <4>1
      <4> QED BY <3>2, <4>3, <4>4, <4>5
    <3> QED BY <1>2, <2>2, <3>1, <3>4 DEF LimitKept, s, t, n, m, a
  <2>3. CASE o = sell
    <3> DEFINE e == earned[o]
               t == traded[o]
               n == fills[o]
               m == o.minAmountOut
               a == o.amountIn
    <3>1. /\ earned'[o] = e + basis /\ traded'[o] = t + tokens /\ fills'[o] = n + 1
      BY <1>2, <1>4, <1>6, <2>3
    <3>2. e * a >= t * m - n * (a - 1) /\ basis * a >= tokens * m - (a - 1)
      BY <1>2, <1>3, <2>1, <2>3 DEF LimitKept
    <3>3. /\ e \in Int /\ t \in Int /\ n \in Int /\ m \in Int /\ a \in Int
          /\ basis \in Int /\ tokens \in Int
      BY <1>2, <1>3, <1>6
    <3> HIDE DEF e, t, n, m, a
    <3>4. (e + basis) * a >= (t + tokens) * m - (n + 1) * (a - 1)
      <4>1. \A x1, x2, x3, x4, x5, y1, y2 \in Int :
              (x1 + x2) * y1 = x1 * y1 + x2 * y1
                /\ (x3 + x4) * y2 - (x5 + 1) * (y1 - 1) = (x3 * y2 - x5 * (y1 - 1)) + (x4 * y2 - (y1 - 1))
        BY SMT
      <4>2. \A x, y \in Int : x * y \in Int
        BY SMT
      <4>3. /\ e * a \in Int /\ basis * a \in Int /\ t * m \in Int /\ tokens * m \in Int
            /\ a - 1 \in Int /\ n * (a - 1) \in Int
        BY <3>3, <4>2
      <4>4. (e + basis) * a = e * a + basis * a
        BY <3>3, <4>1
      <4>5. (t + tokens) * m - (n + 1) * (a - 1) = (t * m - n * (a - 1)) + (tokens * m - (a - 1))
        BY <3>3, <4>1
      <4> QED BY <3>2, <4>3, <4>4, <4>5
    <3> QED BY <1>2, <2>3, <3>1, <3>4 DEF LimitKept, e, t, n, m, a
  <2>4. CASE o # sell /\ o # buy
    <3>1. /\ spent'[o] = spent[o] /\ traded'[o] = traded[o]
          /\ fills'[o] = fills[o] /\ earned'[o] = earned[o]
      BY <1>2, <1>4, <1>6, <2>4
    <3> QED BY <2>1, <3>1 DEF LimitKept
  <2> QED BY <2>2, <2>3, <2>4
<1> QED
  BY <1>5, <1>7, <1>8

(* Nothing else trades, and what else changes changes within its type.      *)
LEMMA NextIInv == IInv /\ [Next]_vars => IInv'
<1> SUFFICES ASSUME IInv, [Next]_vars PROVE IInv'
  OBVIOUS
<1>1. CASE OperatorFills
  BY <1>1, FillKeepsIInv
<1>2. CASE ~OperatorFills
  <2> USE DEF IInv, TypeOK
  <2>1. UNCHANGED <<spent, historyVars>>
    BY <1>2 DEF Next, vars, orderVars, MakerCancels, CancelOrders, MakerRaisesFloor, SetMinNonce,
                AdminSetsFee, SetFeeConfig, TimePasses
  <2>2. /\ filled' \in [Orders -> Nat]
        /\ \A o \in Orders : filled'[o] <= TokenQuantity(o)
    <3>1. \A o \in Orders : filled[o] <= TokenQuantity(o) /\ TokenQuantity(o) \in Nat
      BY DEF NeverOverfilled, TokenQuantity, Order
    <3>2. CASE MakerCancels
      BY <3>1, <3>2 DEF MakerCancels, CancelOrders, OrdersTypeOK
    <3>3. CASE ~MakerCancels
      <4>1. filled' = filled
        BY <1>2, <3>3 DEF Next, vars, orderVars, MakerRaisesFloor, SetMinNonce, AdminSetsFee,
                          SetFeeConfig, TimePasses
      <4> QED BY <3>1, <4>1 DEF OrdersTypeOK
    <3> QED BY <3>2, <3>3
  <2>3. now' \in Nat
    BY <1>2 DEF Next, vars, MakerCancels, CancelOrders, MakerRaisesFloor, SetMinNonce,
                AdminSetsFee, SetFeeConfig, TimePasses, Later, OrdersTypeOK
  <2>4. minNonce' \in [Makers -> Nat]
    BY <1>2 DEF Next, vars, orderVars, MakerCancels, CancelOrders, MakerRaisesFloor, SetMinNonce,
                AdminSetsFee, SetFeeConfig, TimePasses, OrdersTypeOK
  <2>5. feeBps' \in 0 .. MAX_FEE_BPS
    BY <1>2 DEF Next, vars, orderVars, MakerCancels, CancelOrders, MakerRaisesFloor, SetMinNonce,
                AdminSetsFee, SetFeeConfig, TimePasses, OrdersTypeOK
  <2>6. TypeOK'
    BY <2>1, <2>2, <2>3, <2>4, <2>5 DEF OrdersTypeOK, historyVars
  <2>7. NeverOverfilled'
    BY <2>1, <2>2 DEF NeverOverfilled
  <2>8. \A o \in Orders : LimitKept(o)'
    BY <2>1 DEF LimitKept, historyVars
  <2> QED BY <2>6, <2>7, <2>8
<1> QED
  BY <1>1, <1>2

(* Types, fill bounds and every order's limit hold in every reachable state. *)
THEOREM Invariance == Spec => []IInv
  BY InitIInv, NextIInv, PTL DEF Spec

(* Every variable stays in its type, and the fee rate under its cap. *)
THEOREM TypeCorrect == Spec => []TypeOK
<1>1. IInv => TypeOK
  BY DEF IInv
<1> QED
  BY <1>1, Invariance, PTL

(* However it is filled, in pieces and against any counterparties, no order *)
(* is filled beyond its size, and no buyer pays more than it signed for     *)
(* (fillOrders, _price).                                                    *)
THEOREM NoneOverfilled == Spec => []NeverOverfilled
<1>1. IInv => NeverOverfilled
  BY DEF IInv
<1> QED
  BY <1>1, Invariance, PTL

(* Limit prices hold to less than a unit a fill, whatever sizes the         *)
(* operator chose and whichever side rested (_price).                       *)
THEOREM LimitsHold == Spec => []LimitsRespected
<1>1. IInv => LimitsRespected
  BY DEF IInv, LimitKept, LimitsRespected
<1> QED
  BY <1>1, Invariance, PTL

(* At every fee rate the admin can set, what is asked for covers the fee    *)
(* and the share of the debt (_minGrossForNet, tradeFee,                    *)
(* runChainPreFilter).                                                      *)
THEOREM CostsCovered == Spec => []AskCoversItsCosts
<1>1. IInv => AskCoversItsCosts
  BY AsksCover DEF IInv, TypeOK
<1> QED
  BY <1>1, Invariance, PTL

----------------------------------------------------------------------------
(* Closed orders                                                           *)

(* Why an order is closed. *)
Ended(o) ==
    \/ now > o.expiry
    \/ o.nonce < minNonce[o.maker]
    \/ o.buys /\ spent[o] >= o.amountIn
    \/ filled[o] >= TokenQuantity(o)

(* An order has nothing left exactly when it has ended. *)
LEMMA RemainingIsZero ==
    TypeOK => \A x \in Orders : Remaining(x) = 0 <=> Ended(x)
<1> SUFFICES ASSUME TypeOK, NEW o \in Orders PROVE Remaining(o) = 0 <=> Ended(o)
  OBVIOUS
<1>1. filled[o] \in Nat /\ TokenQuantity(o) \in Nat
  BY DEF TypeOK, OrdersTypeOK, TokenQuantity, Order
<1> QED
  BY <1>1 DEF Remaining, Ended

(* A used up, cancelled, voided or expired order is finished for good: no   *)
(* fill, cancel, new floor, new fee or passing of time reopens it           *)
(* (remaining, _checkOrder).                                                *)
THEOREM ClosedForGood == Spec => ClosedStaysClosed
<1> DEFINE Stays(o) == Remaining(o) = 0 => Remaining(o)' = 0 /\ traded'[o] = traded[o]
<1>1. IInv /\ IInv' /\ [Next]_vars => [\A o \in Orders : Stays(o)]_vars
  <2> SUFFICES ASSUME IInv, IInv', Next, NEW o \in Orders, Remaining(o) = 0
               PROVE  Remaining(o)' = 0 /\ traded'[o] = traded[o]
    OBVIOUS
  <2>0. (TypeOK => \A x \in Orders : Remaining(x) = 0 <=> Ended(x))'
    BY RemainingIsZero, PTL
  <2> USE DEF IInv, TypeOK
  <2>1. Ended(o)
    BY RemainingIsZero
  <2>2. SUFFICES Ended(o)' /\ traded'[o] = traded[o]
    BY <2>0
  <2>3. /\ spent \in [Orders -> Nat] /\ filled \in [Orders -> Nat] /\ traded \in [Orders -> Nat]
        /\ minNonce \in [Makers -> Nat] /\ now \in Nat
        /\ o.maker \in Makers /\ o.expiry \in Nat /\ o.nonce \in Nat
        /\ o.amountIn \in Nat /\ o.minAmountOut \in Nat /\ TokenQuantity(o) \in Nat
    BY DEF OrdersTypeOK, Order, TokenQuantity
  <2>4. CASE OperatorFills
    <3>1. PICK sell \in Orders, buy \in Orders, tokens \in TradeSizes, makerSells \in BOOLEAN :
            LET price == TradePrice(sell, buy, tokens, makerSells)
            IN  /\ FillOrders(sell, buy, tokens, makerSells)
                /\ traded' = [traded EXCEPT ![sell] = @ + tokens, ![buy] = @ + tokens]
                /\ fills' = [fills EXCEPT ![sell] = @ + 1, ![buy] = @ + 1]
                /\ earned' = [earned EXCEPT ![sell] = @ + SellerBasis(sell, tokens, price)]
      BY <2>4 DEF OperatorFills
    <3>2. /\ ~sell.buys /\ buy.buys /\ sell # buy /\ tokens \in Nat \ {0}
          /\ CheckOrder(sell, tokens) /\ CheckOrder(buy, tokens)
          /\ Crosses(sell, buy, tokens, makerSells)
          /\ filled' = [filled EXCEPT ![sell] = @ + tokens, ![buy] = @ + tokens]
          /\ spent' = [spent EXCEPT ![buy] = @ + TradePrice(sell, buy, tokens, makerSells)]
          /\ UNCHANGED <<now, minNonce, feeBps>>
      BY <3>1 DEF FillOrders, RecordFill
    <3>3. o # sell
      <4> SUFFICES ASSUME o = sell PROVE FALSE
        OBVIOUS
      <4> QED BY <2>1, <2>3, <3>2 DEF Ended, CheckOrder
    <3>4. o # buy
      <4> SUFFICES ASSUME o = buy PROVE FALSE
        OBVIOUS
      <4> DEFINE price == TradePrice(sell, buy, tokens, makerSells)
      <4>1. price \in Nat \ {0} /\ price <= buy.amountIn - spent[buy]
        BY <3>2, PriceInLimits
      <4> QED BY <2>1, <2>3, <3>2, <4>1 DEF Ended, CheckOrder
    <3>5. filled'[o] = filled[o] /\ spent'[o] = spent[o] /\ traded'[o] = traded[o]
      BY <2>3, <3>1, <3>2, <3>3, <3>4
    <3> QED BY <2>1, <3>2, <3>5 DEF Ended
  <2>5. CASE MakerCancels
    <3>1. /\ filled'[o] = filled[o] \/ filled'[o] = TokenQuantity(o)
          /\ UNCHANGED <<now, spent, minNonce, traded>>
      BY <2>3, <2>5 DEF MakerCancels, CancelOrders, historyVars
    <3> QED BY <2>1, <2>3, <3>1 DEF Ended
  <2>6. CASE MakerRaisesFloor
    <3>1. /\ minNonce[o.maker] <= minNonce'[o.maker] /\ minNonce'[o.maker] \in Nat
          /\ UNCHANGED <<now, filled, spent, traded>>
      BY <2>3, <2>6 DEF MakerRaisesFloor, SetMinNonce, historyVars
    <3> QED BY <2>1, <2>3, <3>1 DEF Ended
  <2>7. CASE AdminSetsFee
    BY <2>1, <2>7 DEF AdminSetsFee, SetFeeConfig, historyVars, Ended
  <2>8. CASE TimePasses
    <3>1. now' >= now /\ now' \in Nat /\ UNCHANGED <<filled, spent, minNonce, traded>>
      BY <2>3, <2>8 DEF TimePasses, Later, orderVars, historyVars
    <3> QED BY <2>1, <2>3, <3>1 DEF Ended
  <2> QED BY <2>4, <2>5, <2>6, <2>7, <2>8 DEF Next
<1>2. Spec => [][\A o \in Orders : Stays(o)]_vars
  BY <1>1, Invariance, PTL DEF Spec
<1> QED
  BY <1>2 DEF ClosedStaysClosed
============================================================================
