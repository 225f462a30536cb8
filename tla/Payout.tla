------------------------------- MODULE Payout -------------------------------
(***************************************************************************)
(* What a mass disbursement promises its tenant, without requests, jobs,   *)
(* queues or retries: a batch is opened with its provision blocked,        *)
(* approved, launched; each item gets one verdict while the batch is being *)
(* processed, the last verdict closes the batch; each item is then settled *)
(* once, the way its verdict says.  Disbursement implements this (PROPERTY *)
(* PayoutKept); what a settlement does to the wallet is in the module      *)
(* Wallet, which needs that there is one per item and no more.             *)
(***************************************************************************)
CONSTANTS Batches, Items,
          PartsOf      \* the set of items of each batch

VARIABLES stage,       \* none, draft, validated, processing, completed, failed
          verdict,     \* none, open, paid, failed
          money        \* none, held, gone, back

payoutVars == <<stage, verdict, money>>

Init ==
    /\ stage = [b \in Batches |-> "none"]
    /\ verdict = [i \in Items |-> "none"]
    /\ money = [i \in Items |-> "none"]

Open(b) ==
    /\ stage[b] = "none"
    /\ stage' = [stage EXCEPT ![b] = "draft"]
    /\ verdict' = [i \in Items |-> IF i \in PartsOf[b] THEN "open" ELSE verdict[i]]
    /\ money' = [i \in Items |-> IF i \in PartsOf[b] THEN "held" ELSE money[i]]

Advance(b, from, to) ==
    /\ stage[b] = from
    /\ stage' = [stage EXCEPT ![b] = to]
    /\ UNCHANGED <<verdict, money>>

\* The last verdict closes the batch: failed if nothing was paid.
Conclude(b, i, v) ==
    /\ stage[b] = "processing" /\ i \in PartsOf[b] /\ verdict[i] = "open"
    /\ verdict' = [verdict EXCEPT ![i] = v]
    /\ stage' = IF \E j \in PartsOf[b] : verdict'[j] = "open" THEN stage
                ELSE [stage EXCEPT ![b] =
                        IF \E j \in PartsOf[b] : verdict'[j] = "paid" THEN "completed"
                                                                      ELSE "failed"]
    /\ UNCHANGED money

Move(i, v, place) ==
    /\ verdict[i] = v /\ money[i] = "held"
    /\ money' = [money EXCEPT ![i] = place]
    /\ UNCHANGED <<stage, verdict>>

PayOut(i)   == Move(i, "paid", "gone")
GiveBack(i) == Move(i, "failed", "back")

Next ==
    \/ \E b \in Batches :
          \/ Open(b)
          \/ Advance(b, "draft", "validated")
          \/ Advance(b, "validated", "processing")
          \/ \E i \in Items, v \in {"paid", "failed"} : Conclude(b, i, v)
    \/ \E i \in Items : PayOut(i) \/ GiveBack(i)

Spec == Init /\ [][Next]_payoutVars
=============================================================================
