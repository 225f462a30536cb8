-------------------------- MODULE CommissionSplit ---------------------------
(***************************************************************************)
(* The two loops over the items of a batch that decide its commission:     *)
(* Create adds the amounts up and takes the commission on the sum          *)
(* (batch.go:77-101), Execute divides the commission among the items, in   *)
(* order, from what remains of it (batch.go:226-235).                      *)
(***************************************************************************)
EXTENDS Commission, Sequences, Functions

CONSTANTS Amounts,   \* the amounts an item may have
          MaxItems,  \* bound: items of a batch
          Rates      \* the commission rates, as pairs <<numerator, denominator>>

SplitParameters ==
    /\ Amounts \subseteq Nat \ {0} /\ MaxItems \in Nat
    /\ Rates \subseteq Nat \X (Nat \ {0})

ASSUME SplitAssumption == SplitParameters

VARIABLES phase,      \* "adding", "dividing" or "done"
          amounts,    \* the amounts of the request, in order
          rate,       \* the rate of the tenant
          total,      \* totalAmount: the sum so far
          commission, \* CommissionAmount of the batch
          remaining,  \* remainingCommission
          shares,     \* the commissions of the jobs so far
          next,       \* the item the loop is at
          allocated   \* history: the sum of shares

splitVars == <<phase, amounts, rate, total, commission, remaining, shares, next, allocated>>

SplitInit ==
    /\ phase = "adding"
    /\ amounts \in UNION {[1..n -> Amounts] : n \in 1..MaxItems}
    /\ rate \in Rates
    /\ total = 0 /\ commission = 0 /\ remaining = 0
    /\ shares = << >> /\ next = 1 /\ allocated = 0

AddItem ==
    /\ phase = "adding" /\ next <= Len(amounts)
    /\ total' = total + amounts[next]
    /\ next' = next + 1
    /\ UNCHANGED <<phase, amounts, rate, commission, remaining, shares, allocated>>

TakeCommission ==
    /\ phase = "adding" /\ next > Len(amounts)
    /\ commission' = BatchCommission(total, rate[1], rate[2])
    /\ remaining' = commission'
    /\ phase' = "dividing" /\ next' = 1
    /\ UNCHANGED <<amounts, rate, total, shares, allocated>>

AllocateNext ==
    LET share == AllocateItemCommission(total, commission, amounts[next], remaining,
                                        next = Len(amounts))
    IN  /\ phase = "dividing" /\ next <= Len(amounts)
        /\ shares' = Append(shares, share)
        /\ remaining' = remaining - share
        /\ allocated' = allocated + share
        /\ next' = next + 1
        /\ phase' = IF next = Len(amounts) THEN "done" ELSE phase
        /\ UNCHANGED <<amounts, rate, total, commission>>

SplitNext == AddItem \/ TakeCommission \/ AllocateNext

SplitSpec == SplitInit /\ [][SplitNext]_splitVars

-----------------------------------------------------------------------------
SplitTypeOK ==
    /\ phase \in {"adding", "dividing", "done"}
    /\ amounts \in Seq(Amounts)
    /\ rate \in Rates
    /\ total \in Nat /\ commission \in Nat /\ remaining \in Nat /\ allocated \in Nat
    /\ shares \in Seq(Nat)
    /\ next \in 1..(Len(amounts) + 1)

\* At every point the shares given and the rest make up the commission, so the
\* jobs of a batch carry it exactly, rounding included ("en conservant exactement
\* le total batch", batch.go:193).
NothingLost ==
    /\ phase # "adding" => allocated + remaining = commission
    /\ phase = "done"   => allocated = commission /\ remaining = 0

Floor(k) == (amounts[k] * commission) \div total

\* The reference: each item but the last gets its proportional share rounded
\* down (the cap by what remains never changes it), and the last one its own
\* plus less than one franc per item of rounding (batch.go:260-273).
SharesAreFair ==
    LET n == Len(amounts) IN
    /\ \A k \in DOMAIN shares :
          IF k < n THEN shares[k] = Floor(k)
          ELSE shares[k] - Floor(k) \in 0..(n - 1)
    /\ allocated = SumFunction(shares)
=============================================================================
