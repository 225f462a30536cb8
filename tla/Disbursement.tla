---------------------------- MODULE Disbursement ----------------------------
(***************************************************************************)
(* The life of the batches of one tenant: BatchService (services/batch.go) *)
(* called by concurrent API requests, the Redis work list and retry set,   *)
(* the worker pool and the retry scheduler (workers/disbursement.go).      *)
(* Here is which wallet operations they call, with which amounts; what the *)
(* calls do to the wallet row, and to each other, is in the module Wallet. *)
(*                                                                         *)
(* A request reads the whole batch row, checks it, and writes the whole    *)
(* row back in a later statement; nothing is locked in between.  A job is  *)
(* taken from the list before it is processed and nobody else knows of it. *)
(***************************************************************************)
EXTENDS Commission, GatewayAnswers, Functions, Sequences, FiniteSets

CONSTANTS
    Batches, Items, Users, Workers,
    Sessions,         \* requests being served at the same time
    ItemsOf,          \* the sequence of items of each batch
    Amount,           \* the amount of each item
    OperatorOf,       \* the mobile-money operator of each item
    Admins,           \* users who may validate and execute
    Threshold,        \* ValidationThreshold of the tenant
    Limit,            \* BatchAmountLimit of the tenant
    RateNum, RateDen, \* CommissionRate of the tenant
    MaxRetries,       \* configuration of the workers
    NoUser, NoBatch, NoJob,
    FaultKinds,       \* which faults may happen ...
    MaxFaults         \* bound: ... and how many

Operators == {"orange", "moov"}

BatchOf(i) == CHOOSE b \in Batches : \E k \in DOMAIN ItemsOf[b] : ItemsOf[b][k] = i

ItemCount(b) == Len(ItemsOf[b])

TotalAmount(b) == SumFunction([k \in DOMAIN ItemsOf[b] |-> Amount[ItemsOf[b][k]]])

CommissionAmount(b) == BatchCommission(TotalAmount(b), RateNum, RateDen)

ProvisionAmount(b) == TotalAmount(b) + CommissionAmount(b)

BatchStatus == {"none", "draft", "validated", "processing", "completed", "failed"}
Terminal    == {"completed", "failed"}
ItemStatus  == {"none", "pending", "retrying", "success", "failed"}

BatchRow == [status : BatchStatus, createdBy : Users \cup {NoUser},
             validatedBy : Users \cup {NoUser}, executedBy : Users \cup {NoUser},
             success : Nat, failure : Nat]

ItemRow == [status : ItemStatus, attempts : Nat, ref : BOOLEAN]

\* DisbursementJob.  ref: does the job carry the operator's transaction number?
Job == [item : Items, commission : Nat, attempt : Nat, ref : BOOLEAN]

\* CreateBatchRequest demands one item at least and a positive amount for each.
ConstantAssumption ==
    /\ IsFiniteSet(Items)
    /\ ItemsOf \in [Batches -> Seq(Items)]
    /\ \A b \in Batches : ItemCount(b) > 0
    /\ \A i \in Items : \E b \in Batches : \E k \in DOMAIN ItemsOf[b] : ItemsOf[b][k] = i
    /\ \A b, c \in Batches :
          \A k \in DOMAIN ItemsOf[b], m \in DOMAIN ItemsOf[c] :
             ItemsOf[b][k] = ItemsOf[c][m] => b = c /\ k = m
    /\ Amount \in [Items -> Nat \ {0}]
    /\ OperatorOf \in [Items -> Operators]
    /\ Admins \subseteq Users
    /\ RateNum \in Nat /\ RateDen \in Nat \ {0}
    /\ Threshold \in Int /\ Limit \in Int /\ MaxRetries \in Nat
    /\ NoUser \notin Users /\ NoBatch \notin Batches /\ NoJob \notin Job
    /\ MaxFaults \in Nat

ASSUME DisbursementAssumption == ConstantAssumption

VARIABLES
    batch,      \* the row of each batch
    item,       \* the row of each batch item
    call,       \* what each request in progress has read and has left to do
    queue,      \* the Redis list; LPUSH at the end, BRPOP at the head
    retry,      \* the Redis sorted set of postponed jobs
    worker,     \* the job in each worker's hands and the next statement
    sched,      \* the retry scheduler: members still to move, the one half moved
    faults,     \* faults so far
    settled,    \* history: how often SettleItem charged and refunded each item,
                \* and the commission those calls carried
    notified    \* history: end-of-batch notifications

vars == <<batch, item, call, queue, retry, worker, sched, faults, settled, notified>>

NewBatch == [status |-> "none", createdBy |-> NoUser, validatedBy |-> NoUser,
             executedBy |-> NoUser, success |-> 0, failure |-> 0]

NoItem == [status |-> "none", attempts |-> 0, ref |-> FALSE]

NoCall == [pc |-> "idle", batch |-> NoBatch, user |-> NoUser, row |-> NewBatch,
           next |-> 1, remaining |-> 0]

Resting == [pc |-> "idle", job |-> NoJob, paid |-> FALSE]

NoMoves == [todo |-> {}, half |-> NoJob]

Init ==
    /\ batch = [b \in Batches |-> NewBatch]
    /\ item = [i \in Items |-> NoItem]
    /\ call = [s \in Sessions |-> NoCall]
    /\ queue = << >>
    /\ retry = {}
    /\ worker = [w \in Workers |-> Resting]
    /\ sched = NoMoves
    /\ faults = 0
    /\ settled = [i \in Items |-> [charged |-> 0, refunded |-> 0, carried |-> 0]]
    /\ notified = [b \in Batches |-> 0]

redisVars   == <<queue, retry>>
historyVars == <<settled, notified>>

-----------------------------------------------------------------------------
(* The API: the three operations of a batch.                               *)

\* One database transaction inserts the batch and its items and reserves the
\* provision; a reservation that is refused or fails undoes all of it.
Create(u, b) ==
    /\ batch[b].status = "none"
    /\ ProvisionAmount(b) <= Limit
    /\ batch' = [batch EXCEPT ![b] = [NewBatch EXCEPT !.status = "draft", !.createdBy = u]]
    /\ item' = [i \in Items |-> IF BatchOf(i) = b THEN [NoItem EXCEPT !.status = "pending"]
                                                  ELSE item[i]]
    /\ UNCHANGED <<call, redisVars, worker, sched, faults, historyVars>>

CallOf(pc, b, u, row, next, remaining) ==
    [pc |-> pc, batch |-> b, user |-> u, row |-> row, next |-> next,
     remaining |-> remaining]

\* The four eyes above the threshold, then the role of the caller.
MayValidateAbove(u, b) ==
    /\ ~(ProvisionAmount(b) > Threshold /\ batch[b].createdBy = u)
    /\ u \in Admins

MayValidate(u, b) ==
    /\ ~(ProvisionAmount(b) >= Threshold /\ batch[b].createdBy = u)
    /\ u \in Admins

\* Validate up to its last check, on the row as it is now.
ReadToValidate(s, u, b) ==
    /\ call[s].pc = "idle"
    /\ batch[b].status = "draft"
    /\ MayValidate(u, b)
    /\ call' = [call EXCEPT ![s] = CallOf("validating", b, u, batch[b], 1, 0)]
    /\ UNCHANGED <<batch, item, redisVars, worker, sched, faults, historyVars>>

\* Save: every column of the row goes back as it was read, but two.
SaveValidated(s) ==
    LET c == call[s] IN
    /\ c.pc = "validating"
    /\ batch' = [batch EXCEPT ![c.batch] =
                    [c.row EXCEPT !.status = "validated", !.validatedBy = c.user]]
    /\ call' = [call EXCEPT ![s] = NoCall]
    /\ UNCHANGED <<item, redisVars, worker, sched, faults, historyVars>>

ReadToExecute(s, u, b) ==
    /\ call[s].pc = "idle"
    /\ batch[b].status = "validated"
    /\ u \in Admins
    /\ call' = [call EXCEPT ![s] = CallOf("executing", b, u, batch[b], 1, 0)]
    /\ UNCHANGED <<batch, item, redisVars, worker, sched, faults, historyVars>>

SaveProcessing(s) ==
    LET c == call[s] IN
    /\ c.pc = "executing"
    /\ batch' = [batch EXCEPT ![c.batch] =
                    [c.row EXCEPT !.status = "processing", !.executedBy = c.user]]
    /\ call' = [call EXCEPT ![s] =
                   CallOf("enqueueing", c.batch, c.user, c.row, 1, CommissionAmount(c.batch))]
    /\ UNCHANGED <<item, redisVars, worker, sched, faults, historyVars>>

IsPastLast(c) == c.next > ItemCount(c.batch)

IsLast(c) == c.next = ItemCount(c.batch)

\* The next job of the pipeline, with the share of the commission of its item.
EnqueueJob(s) ==
    LET c     == call[s]
        b     == c.batch
        i     == ItemsOf[b][c.next]
        share == AllocateItemCommission(TotalAmount(b), CommissionAmount(b), Amount[i],
                                        c.remaining, IsLast(c))
    IN  /\ c.pc = "enqueueing"
        /\ queue' = Append(queue, [item |-> i, commission |-> share, attempt |-> 0,
                                   ref |-> FALSE])
        /\ call' = [call EXCEPT ![s] =
                       IF IsLast(c) THEN NoCall
                       ELSE CallOf("enqueueing", b, c.user, c.row, c.next + 1,
                                   c.remaining - share)]
        /\ UNCHANGED <<batch, item, retry, worker, sched, faults, historyVars>>

-----------------------------------------------------------------------------
(* The workers.  process runs from the job's removal from the list to the  *)
(* notification; each database transaction is a step of its own.           *)

WorkerAt(pc, job, paid) == [pc |-> pc, job |-> job, paid |-> paid]

PopJobLeavesIt(w) ==
    /\ worker[w].pc = "idle" /\ queue # << >>
    /\ worker' = [worker EXCEPT ![w] = WorkerAt("call", Head(queue), FALSE)]
    /\ UNCHANGED <<batch, item, call, redisVars, sched, faults, historyVars>>

PopJob(w) ==
    /\ worker[w].pc = "idle"
    /\ queue # << >>
    /\ worker' = [worker EXCEPT ![w] = WorkerAt("call", Head(queue), FALSE)]
    /\ queue' = Tail(queue)
    /\ UNCHANGED <<batch, item, call, retry, sched, faults, historyVars>>

AttemptsLeftPlusOne(j) == j.attempt < MaxRetries

AttemptsLeft(j) == j.attempt < MaxRetries - 1

\* Send, or CheckStatus when the job carries a reference, and what process makes
\* of the answer: anything but a success is tried again while attempts are left.
CallGateway(w) ==
    /\ worker[w].pc = "call"
    /\ LET j == worker[w].job IN
       \E a \in Answers(OperatorOf[j.item], j.ref) :
          LET known == [j EXCEPT !.ref = @ \/ a.ref] IN
          worker' = [worker EXCEPT ![w] =
             IF a.status = "success" THEN WorkerAt("finish", known, TRUE)
             ELSE IF AttemptsLeft(j) THEN WorkerAt("retry", known, FALSE)
             ELSE WorkerAt("finish", known, FALSE)]
    /\ UNCHANGED <<batch, item, call, redisVars, sched, faults, historyVars>>

CountedRowLate(b, row, paid) ==
    LET r == IF paid THEN [row EXCEPT !.success = @ + 1] ELSE [row EXCEPT !.failure = @ + 1]
    IN  IF r.success + r.failure <= ItemCount(b) THEN r
        ELSE [r EXCEPT !.status = IF r.failure = ItemCount(b) THEN "failed" ELSE "completed"]

\* The batch row after one more item, closed if that makes all of them.
CountedRow(b, row, paid) ==
    LET r == IF paid THEN [row EXCEPT !.success = @ + 1] ELSE [row EXCEPT !.failure = @ + 1]
    IN  IF r.success + r.failure < ItemCount(b) THEN r
        ELSE [r EXCEPT !.status = IF r.failure = ItemCount(b) THEN "failed" ELSE "completed"]

FinishItem(w) ==
    LET j == worker[w].job
        b == BatchOf(j.item)
    IN  /\ worker[w].pc = "finish"
        /\ item' = [item EXCEPT ![j.item] =
                       IF worker[w].paid THEN [@ EXCEPT !.status = "success", !.ref = j.ref]
                                         ELSE [@ EXCEPT !.status = "failed", !.ref = FALSE]]
        /\ batch' = [batch EXCEPT ![b] = CountedRow(b, @, worker[w].paid)]
        /\ worker' = [worker EXCEPT ![w] = WorkerAt("settle", j, worker[w].paid)]
        /\ UNCHANGED <<call, redisVars, sched, faults, historyVars>>

SettledRow(row, paid, commission) ==
    [charged  |-> row.charged + (IF paid THEN 1 ELSE 0),
     refunded |-> row.refunded + (IF paid THEN 0 ELSE 1),
     carried  |-> row.carried + commission]

\* The call of WalletService.SettleItem, with the outcome of the item and the
\* commission of the job; an error of it is WorkerFails.
SettleItem(w) ==
    LET j == worker[w].job IN
    /\ worker[w].pc = "settle"
    /\ settled' = [settled EXCEPT ![j.item] = SettledRow(@, worker[w].paid, j.commission)]
    /\ worker' = [worker EXCEPT ![w] = WorkerAt("notify", j, worker[w].paid)]
    /\ UNCHANGED <<batch, item, call, redisVars, sched, faults, notified>>

NotifyIfCompleted(w) ==
    LET b == BatchOf(worker[w].job.item) IN
    /\ worker[w].pc = "notify"
    /\ notified' = IF batch[b].status = "completed" THEN [notified EXCEPT ![b] = @ + 1]
                                                   ELSE notified
    /\ worker' = [worker EXCEPT ![w] = Resting]
    /\ UNCHANGED <<batch, item, call, redisVars, sched, faults, settled>>

NotifyIfBatchDone(w) ==
    LET b == BatchOf(worker[w].job.item) IN
    /\ worker[w].pc = "notify"
    /\ notified' = IF batch[b].status \in Terminal THEN [notified EXCEPT ![b] = @ + 1]
                                                  ELSE notified
    /\ worker' = [worker EXCEPT ![w] = Resting]
    /\ UNCHANGED <<batch, item, call, redisVars, sched, faults, settled>>

\* scheduleRetry, first half: RetryItem.
MarkRetrying(w) ==
    LET j == worker[w].job IN
    /\ worker[w].pc = "retry"
    /\ item' = [item EXCEPT ![j.item].status = "retrying", ![j.item].attempts = @ + 1]
    /\ worker' = [worker EXCEPT ![w] =
                     WorkerAt("schedule", [j EXCEPT !.attempt = @ + 1], FALSE)]
    /\ UNCHANGED <<batch, call, redisVars, sched, faults, historyVars>>

\* scheduleRetry, second half: ZADD.
ScheduleRetry(w) ==
    /\ worker[w].pc = "schedule"
    /\ retry' = retry \cup {worker[w].job}
    /\ worker' = [worker EXCEPT ![w] = Resting]
    /\ UNCHANGED <<batch, item, call, queue, sched, faults, historyVars>>

-----------------------------------------------------------------------------
(* The retry scheduler.  Which members are due is a matter of time: any.   *)

FetchDue ==
    /\ sched = NoMoves
    /\ \E due \in SUBSET retry \ {{}} : sched' = [sched EXCEPT !.todo = due]
    /\ UNCHANGED <<batch, item, call, redisVars, worker, faults, historyVars>>

PushDue ==
    /\ sched.half = NoJob
    /\ \E j \in sched.todo :
          /\ queue' = Append(queue, j)
          /\ sched' = [todo |-> sched.todo \ {j}, half |-> j]
    /\ UNCHANGED <<batch, item, call, retry, worker, faults, historyVars>>

RemoveNothing ==
    /\ sched.half # NoJob
    /\ sched' = [sched EXCEPT !.half = NoJob]
    /\ UNCHANGED <<batch, item, call, redisVars, worker, faults, historyVars>>

RemoveDue ==
    /\ sched.half # NoJob
    /\ retry' = retry \ {sched.half}
    /\ sched' = [sched EXCEPT !.half = NoJob]
    /\ UNCHANGED <<batch, item, call, queue, worker, faults, historyVars>>

-----------------------------------------------------------------------------
(* Faults.                                                                 *)

Fault(kind) ==
    /\ kind \in FaultKinds /\ faults < MaxFaults
    /\ faults' = faults + 1
    /\ UNCHANGED <<batch, item, redisVars, historyVars>>

\* A database or Redis error inside process: run logs it and drops the job.
WorkerFails(w) ==
    /\ worker[w].pc \in {"finish", "settle", "notify", "retry", "schedule"}
    /\ Fault("worker")
    /\ worker' = [worker EXCEPT ![w] = Resting]
    /\ UNCHANGED <<call, sched>>

\* The pipeline of Execute breaks: the jobs not yet pushed never are.
EnqueueFails(s) ==
    /\ call[s].pc = "enqueueing"
    /\ Fault("enqueue")
    /\ call' = [call EXCEPT ![s] = NoCall]
    /\ UNCHANGED <<worker, sched>>

\* The pipeline of the scheduler breaks; the next tick reads the set again.
SchedulerFails ==
    /\ sched # NoMoves
    /\ Fault("scheduler")
    /\ sched' = NoMoves
    /\ UNCHANGED <<call, worker>>

\* The server process stops and starts again: what is in memory is gone.
Crash ==
    /\ Fault("crash")
    /\ call' = [s \in Sessions |-> NoCall]
    /\ worker' = [w \in Workers |-> Resting]
    /\ sched' = NoMoves

-----------------------------------------------------------------------------
UserStep ==
    \E u \in Users, b \in Batches :
        \/ Create(u, b)
        \/ \E s \in Sessions : ReadToValidate(s, u, b) \/ ReadToExecute(s, u, b)

RequestStep(s) == SaveValidated(s) \/ SaveProcessing(s) \/ EnqueueJob(s)

WorkerStep(w) ==
    \/ PopJob(w) \/ CallGateway(w) \/ FinishItem(w) \/ SettleItem(w)
    \/ NotifyIfBatchDone(w) \/ MarkRetrying(w) \/ ScheduleRetry(w)

SchedulerStep == FetchDue \/ PushDue \/ RemoveDue

FaultStep ==
    \/ \E w \in Workers : WorkerFails(w)
    \/ \E s \in Sessions : EnqueueFails(s)
    \/ SchedulerFails
    \/ Crash

Next ==
    \/ UserStep
    \/ \E s \in Sessions : RequestStep(s)
    \/ \E w \in Workers : WorkerStep(w)
    \/ SchedulerStep
    \/ FaultStep

Spec == Init /\ [][Next]_vars

\* The goroutines of the server go on: requests already begun, workers and the
\* scheduler's ticker.  Nobody has to make a request.
FairSpec ==
    /\ Spec
    /\ \A s \in Sessions : WF_vars(RequestStep(s))
    /\ \A w \in Workers : WF_vars(WorkerStep(w))
    /\ WF_vars(SchedulerStep)

-----------------------------------------------------------------------------
(* Properties.                                                             *)

CallRow == [pc : {"idle", "validating", "executing", "enqueueing"},
            batch : Batches \cup {NoBatch}, user : Users \cup {NoUser},
            row : BatchRow, next : Nat, remaining : Nat]

WorkerRow == [pc : {"idle", "call", "finish", "settle", "notify", "retry", "schedule"},
              job : Job \cup {NoJob}, paid : BOOLEAN]

TypeOK ==
    /\ batch \in [Batches -> BatchRow]
    /\ item \in [Items -> ItemRow]
    /\ call \in [Sessions -> CallRow]
    /\ \A s \in Sessions : call[s].pc # "idle" => call[s].batch \in Batches
    /\ \A s \in Sessions : call[s].pc = "enqueueing" =>
                              call[s].next \in 1..ItemCount(call[s].batch)
    /\ queue \in Seq(Job)
    /\ retry \subseteq Job
    /\ worker \in [Workers -> WorkerRow]
    /\ \A w \in Workers : worker[w].pc # "idle" => worker[w].job \in Job
    /\ sched \in [todo : SUBSET Job, half : Job \cup {NoJob}]
    /\ faults \in Nat
    /\ settled \in [Items -> [charged : Nat, refunded : Nat, carried : Nat]]
    /\ notified \in [Batches -> Nat]

\* The reference for what EnqueueJob computes step by step: rounded-down shares,
\* the rest of the commission for the last item (batch.go:224-235, 260-273).
Share(i) ==
    LET b        == BatchOf(i)
        n        == ItemCount(b)
        Floor(k) == (Amount[ItemsOf[b][k]] * CommissionAmount(b)) \div TotalAmount(b)
        k        == CHOOSE k \in 1..n : ItemsOf[b][k] = i
    IN  IF k < n THEN Floor(k)
        ELSE CommissionAmount(b) - SumFunction([m \in 1..(n - 1) |-> Floor(m)])

Due(i) == Amount[i] + Share(i)

ItemsIn(b) == {i \in Items : BatchOf(i) = b}

Settlements(i) == settled[i].charged + settled[i].refunded

\* A batch is closed exactly when its counters reach the number of its items,
\* although stale copies of the row, counters included, are written over it by
\* Validate and Execute (batch.go:186, 218, 308-320).
ClosedIffCounted ==
    \A b \in Batches : batch[b].status # "none" =>
        ((batch[b].status \in Terminal) <=>
           (batch[b].success + batch[b].failure >= ItemCount(b)))

\* A provision at or above the threshold is never past draft without a validator
\* other than its creator, whichever of several copies was saved last
\* (batch.go:168-171, 181-186, 214-219).
FourEyes ==
    \A b \in Batches :
        /\ batch[b].status \notin {"none", "draft"}
        /\ ProvisionAmount(b) >= Threshold
        => batch[b].validatedBy \in Admins \ {batch[b].createdBy}

\* What the settlements of a batch take out of the blocked balance, amounts and
\* commissions of their jobs together, never exceeds what its creation put there,
\* and is all of it exactly when every item is settled (batch.go:137, 226-235;
\* disbursement.go:171, 209).
SettledWithinProvision ==
    \A b \in Batches :
        LET Taken == SumFunction([i \in ItemsIn(b) |->
                                    Amount[i] * Settlements(i) + settled[i].carried])
        IN  /\ Taken <= ProvisionAmount(b)
            /\ Taken = ProvisionAmount(b) <=> \A i \in ItemsIn(b) : Settlements(i) = 1

\* At most one copy of an item's job is alive, counting the list, the retry set
\* and the workers' hands, and none once the item is settled.
OneLiveJob ==
    \A i \in Items :
        LET queued == {k \in DOMAIN queue : queue[k].item = i}
            parked == {j \in retry \ {sched.half} : j.item = i}
            held   == {w \in Workers : worker[w].pc \notin {"idle", "notify"}
                                        /\ worker[w].job.item = i}
        IN  Cardinality(queued) + Cardinality(parked) + Cardinality(held)
              + Settlements(i) <= 1

\* The counters of a batch are the numbers of its paid and failed items, and the
\* final status follows from them (batch.go:298-320).
CountersMatchItems ==
    \A b \in Batches :
        LET Having(st) == {i \in ItemsIn(b) : item[i].status = st} IN
        /\ batch[b].success = Cardinality(Having("success"))
        /\ batch[b].failure = Cardinality(Having("failed"))
        /\ batch[b].status = "failed" <=>
              (batch[b].status # "none" /\ Having("failed") = ItemsIn(b))

\* The retry budget of the configuration (README.md: three attempts at most).
RetryBudget ==
    \A i \in Items : item[i].attempts > 0 => item[i].attempts < MaxRetries

\* A paid or failed item, and a closed batch, never change again.
FinalIsFinal ==
    [][/\ \A i \in Items : item[i].status \in {"success", "failed"} => item'[i] = item[i]
       /\ \A b \in Batches : batch[b].status \in Terminal => batch'[b] = batch[b]]_vars

\* Unless something breaks, a batch in processing is closed in the end and every
\* item of it settled: no answer, retry or race of workers leaves one behind
\* (disbursement.go:104-295, batch.go:310-320).
ProcessingEnds ==
    \A b \in Batches :
        (batch[b].status = "processing") ~>
            \/ faults > 0
            \/ /\ batch[b].status \in Terminal
               /\ \A i \in ItemsIn(b) : Settlements(i) = 1

\* Unless something breaks, a closed batch is announced in the end, although the
\* worker that closes it need not be the one that finds it closed
\* (disbursement.go:174, 212, 216-227).
ClosedIsNotified ==
    \A b \in Batches :
        (batch[b].status \in Terminal) ~> (notified[b] > 0 \/ faults > 0)

-----------------------------------------------------------------------------
(* What a comment says of the program and its steps refute.                *)

\* batch.go:193 says the commission is settled item by item "en conservant
\* exactement le total batch": the settlements of a batch never carry more.
CommissionWithinBatch ==
    \A b \in Batches :
        SumFunction([i \in ItemsIn(b) |-> settled[i].carried]) <= CommissionAmount(b)

-----------------------------------------------------------------------------
\* The whole machinery of requests, jobs and retries implements Payout.
Promise == INSTANCE Payout WITH
    PartsOf <- [b \in Batches |-> ItemsIn(b)],
    stage   <- [b \in Batches |-> batch[b].status],
    verdict <- [i \in Items |->
                    CASE item[i].status = "none"    -> "none"
                      [] item[i].status = "success" -> "paid"
                      [] item[i].status = "failed"  -> "failed"
                      [] OTHER                      -> "open"],
    money   <- [i \in Items |->
                    CASE item[i].status = "none"  -> "none"
                      [] settled[i].charged > 0   -> "gone"
                      [] settled[i].refunded > 0  -> "back"
                      [] OTHER                    -> "held"]

PayoutKept == Promise!Spec
=============================================================================
