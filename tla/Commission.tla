----------------------------- MODULE Commission -----------------------------
(***************************************************************************)
(* The commission of a batch and its division among the items              *)
(* (BatchService.Create and allocateItemCommission, services/batch.go).    *)
(* The rate is the fraction num/den; Create rounds the product down.       *)
(***************************************************************************)
EXTENDS Integers

BatchCommission(total, num, den) == (total * num) \div den

\* Variants with a fault, each showing what a property is sensitive to: no rest
\* for the last item; rounded to the nearest.
AllocateWithoutRest(total, commission, amount, remaining, isLast) ==
    IF total = 0 THEN 0 ELSE (amount * commission) \div total

AllocateNearest(total, commission, amount, remaining, isLast) ==
    LET share == (2 * amount * commission + total) \div (2 * total)
    IN  IF isLast \/ share > remaining THEN remaining ELSE share

\* The share of one item: proportional and rounded down, never more than what
\* is left, and everything that is left for the last item.
AllocateItemCommission(total, commission, amount, remaining, isLast) ==
    LET share == (amount * commission) \div total
    IN  IF isLast THEN remaining
        ELSE IF total <= 0 \/ commission <= 0 \/ amount <= 0 \/ remaining <= 0 THEN 0
        ELSE IF share > remaining THEN remaining
        ELSE share
=============================================================================
