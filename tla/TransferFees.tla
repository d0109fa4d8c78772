----------------------------- MODULE TransferFees -----------------------------
(***************************************************************************)
(* The fees of a transfer, a pure function of the amount, the currencies   *)
(* and the rates (src/backend/src/modules/transactions/fees/               *)
(* transfer-fees.ts).                                                      *)
(*                                                                         *)
(* Numbers are exact: an amount is an integer of hundredths of its         *)
(* currency, a percentage an integer of tenths, a rate to XOF an integer   *)
(* of thousandths.  The rounding of the binary fractions of the code,      *)
(* which Number.EPSILON is there to hide, is left out.                     *)
(***************************************************************************)
EXTENDS Integers

Currency == {"XOF", "XAF", "CDF", "RWF", "UGX", "KES", "SLE", "ZMW", "USD", "EUR"}

CURRENCY_DECIMALS ==
  [c \in Currency |-> IF c \in {"XOF", "XAF", "CDF", "RWF", "UGX"} THEN 0 ELSE 2]

RATES_TO_XOF ==
  [c \in Currency |->
     CASE c \in {"XOF", "XAF"} -> 1000
       [] c = "EUR" -> 655957 [] c = "USD" -> 600000 [] c = "CDF" -> 210
       [] c = "KES" -> 4600   [] c = "RWF" -> 480    [] c = "SLE" -> 28000
       [] c = "UGX" -> 160    [] c = "ZMW" -> 24000]

decimalsFor(currency) == IF currency \in Currency THEN CURRENCY_DECIMALS[currency] ELSE 2

(* The smallest amount of a currency, in hundredths. *)
UnitOf(decimals) == IF decimals = 0 THEN 100 ELSE 1

(* A slip: the fraction is cut off. *)
roundTo_floor(num, den, decimals) ==
  UnitOf(decimals) * (num \div (den * UnitOf(decimals)))

(* num / den rounded to the unit of the currency, a half upwards.           *)
roundTo(num, den, decimals) ==
  LET unit == UnitOf(decimals) IN
  unit * ((2 * num + den * unit) \div (2 * den * unit))

(* The rate from one currency to another, through XOF: a fraction.          *)
estimateFxRate(from, to) ==
  IF from = to \/ from \notin Currency \/ to \notin Currency
    THEN [num |-> 1, den |-> 1]
    ELSE [num |-> RATES_TO_XOF[from], den |-> RATES_TO_XOF[to]]

(* The commission is a percentage plus a fixed amount, "100 FCFA", which is *)
(* added as 100 units of the sending currency, whichever that is.           *)
Parts(amount, decimals, rates) ==
  LET send == roundTo(amount, 1, decimals) IN
  [send |-> send,
   commission |-> roundTo(rates.percent * send + 1000 * rates.fixed, 1000, decimals),
   fees |-> roundTo(rates.feeEstimate * send, 1000, decimals)]

calculateTransferFees(amount, from, to, rates) ==
  LET d == decimalsFor(from)
      parts == Parts(amount, d, rates)
      fx == estimateFxRate(from, to) IN
  [parts |-> parts,
   total |-> roundTo(parts.send + parts.commission + parts.fees, 1, d),
   receive |-> roundTo(parts.send * fx.num, fx.den, decimalsFor(to))]
===============================================================================
