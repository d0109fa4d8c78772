------------------------- MODULE TransferFees_proofs -------------------------
(***************************************************************************)
(* What the rounding of the fees may do to an amount, for every amount,    *)
(* currency and rate.                                                      *)
(***************************************************************************)
EXTENDS TransferFees, TLAPS

LEMMA UnitLemma ==
  ASSUME NEW decimals
  PROVE  UnitOf(decimals) \in {1, 100}
  BY DEF UnitOf

(* The quotient of a division by a positive number. *)
LEMMA DivisionLemma ==
  ASSUME NEW a \in Nat, NEW b \in Nat \ {0}
  PROVE  /\ a \div b \in Nat
         /\ b * (a \div b) <= a
         /\ a < b * (a \div b) + b
  BY Z3

(* roundTo is off by half a unit of the currency at most.                   *)
THEOREM RoundingTheorem ==
  ASSUME NEW num \in Nat, NEW den \in Nat \ {0}, NEW decimals
  PROVE  /\ roundTo(num, den, decimals) \in Nat
         /\ 2 * den * roundTo(num, den, decimals) <= 2 * num + den * UnitOf(decimals)
         /\ 2 * num < 2 * den * roundTo(num, den, decimals) + den * UnitOf(decimals)
  <1> DEFINE unit == UnitOf(decimals)
             a == 2 * num + den * unit
             b == 2 * den * unit
             q == a \div b
  <1>1. unit \in Nat \ {0}
    BY UnitLemma
  <1>2. a \in Nat /\ b \in Nat \ {0} /\ den * unit \in Nat
    BY <1>1, UnitLemma
  <1> HIDE DEF a, b
  <1>3. q \in Nat /\ b * q <= a /\ a < b * q + b
    BY <1>2, DivisionLemma
  <1>4. roundTo(num, den, decimals) = unit * q
    BY DEF roundTo, a, b
  <1>5. 2 * den * (unit * q) = b * q
    BY <1>1, <1>3, UnitLemma DEF b
  <1>6. b = 2 * (den * unit) /\ a = 2 * num + den * unit
    BY <1>1, UnitLemma DEF a, b
  <1>7. unit * q \in Nat
    BY <1>1, <1>3, UnitLemma
  <1> HIDE DEF unit, q
  <1>8. /\ 2 * den * (unit * q) <= 2 * num + den * unit
        /\ 2 * num < 2 * den * (unit * q) + den * unit
    <2>1. b * q <= 2 * num + den * unit
      BY <1>3, <1>6
    <2>2. b * q \in Nat
      BY <1>2, <1>3
    <2>3. 2 * num < b * q + den * unit
      BY <1>2, <1>3, <1>6, <2>2
    <2> QED BY <1>5, <2>1, <2>3
  <1> QED BY <1>4, <1>7, <1>8 DEF unit

(* An amount that is a whole number of units is left as it is.              *)
LEMMA ExactLemma ==
  ASSUME NEW k \in Nat, NEW decimals
  PROVE  roundTo(UnitOf(decimals) * k, 1, decimals) = UnitOf(decimals) * k
  <1>1. CASE UnitOf(decimals) = 1
    BY <1>1, Z3 DEF roundTo
  <1>2. CASE UnitOf(decimals) = 100
    BY <1>2, Z3 DEF roundTo
  <1> QED BY <1>1, <1>2, UnitLemma

(* Rounding yields whole numbers of units. *)
LEMMA WholeLemma ==
  ASSUME NEW num \in Nat, NEW den \in Nat \ {0}, NEW decimals
  PROVE  \E k \in Nat : roundTo(num, den, decimals) = UnitOf(decimals) * k
  <1> DEFINE unit == UnitOf(decimals)
             q == (2 * num + den * unit) \div (2 * den * unit)
  <1>1. 2 * num + den * unit \in Nat /\ 2 * den * unit \in Nat \ {0}
    BY UnitLemma
  <1>2. q \in Nat
    BY <1>1, DivisionLemma
  <1> QED BY <1>2 DEF roundTo

(* The total debited is the exact sum of the parts shown beside it: the     *)
(* last rounding of calculateTransferFees changes nothing.                  *)
THEOREM TotalTheorem ==
  ASSUME NEW amount \in Nat, NEW from, NEW to, NEW rates,
         rates.percent \in Nat, rates.fixed \in Nat, rates.feeEstimate \in Nat
  PROVE  LET fees == calculateTransferFees(amount, from, to, rates) IN
         fees.total = fees.parts.send + fees.parts.commission + fees.parts.fees
  <1> DEFINE d == decimalsFor(from)
             unit == UnitOf(d)
             send == roundTo(amount, 1, d)
             commission == roundTo(rates.percent * send + 1000 * rates.fixed, 1000, d)
             fees == roundTo(rates.feeEstimate * send, 1000, d)
  <1> HIDE DEF d
  <1>1. send \in Nat
    BY RoundingTheorem
  <1> HIDE DEF send
  <1>2. rates.percent * send + 1000 * rates.fixed \in Nat /\ rates.feeEstimate * send \in Nat
    BY <1>1
  <1>3. PICK k \in Nat : send = unit * k
    BY WholeLemma DEF send
  <1>4. PICK l \in Nat : commission = unit * l
    BY <1>2, WholeLemma
  <1>5. PICK m \in Nat : fees = unit * m
    BY <1>2, WholeLemma
  <1> HIDE DEF commission, fees
  <1>6. send + commission + fees = unit * (k + l + m)
    BY <1>3, <1>4, <1>5, UnitLemma
  <1>7. roundTo(send + commission + fees, 1, d) = send + commission + fees
    <2>1. k + l + m \in Nat
      OBVIOUS
    <2> HIDE DEF unit
    <2>2. roundTo(unit * (k + l + m), 1, d) = unit * (k + l + m)
      BY <2>1, ExactLemma DEF unit
    <2> QED BY <1>6, <2>2
  <1> QED BY <1>7 DEF calculateTransferFees, Parts, d, send, commission, fees
===============================================================================
