------------------------- MODULE DisbursementProofs -------------------------
(***************************************************************************)
(* Proofs about Disbursement, for any batches, users, workers, concurrent  *)
(* requests and faults.  The inductive invariant has one part for each     *)
(* group of variables; what makes it inductive is CallOK, which says what  *)
(* the stale copies in the requests' hands can still do when saved, and    *)
(* LaunchedJob: every job about belongs to a batch that was validated.     *)
(* The second half, from TakeTurns on, proves more of executions in order. *)
(***************************************************************************)
EXTENDS Disbursement, MoneyLemmas, SequenceTheorems

Launched(b) == batch[b].status \notin {"none", "draft"}

LaunchedJob == {j \in Job : Launched(BatchOf(j.item))}

Counted(b, row) == (row.status \in Terminal) <=> (row.success + row.failure >= ItemCount(b))

Approved(b, row) == ProvisionAmount(b) >= Threshold =>
                       row.validatedBy \in Admins \ {row.createdBy}

RowOK(b, row) ==
    /\ row \in BatchRow
    /\ row.status # "none" => Counted(b, row)
    /\ row.status \notin {"none", "draft"} => Approved(b, row)

BatchesOK ==
    /\ batch \in [Batches -> BatchRow]
    /\ \A b \in Batches : RowOK(b, batch[b])

CallOK(c) ==
    /\ c.pc # "idle" => c.batch \in Batches
    /\ c.pc \in {"validating", "executing"} => RowOK(c.batch, c.row)
    /\ c.pc = "validating" =>
          /\ c.row.status = "draft" /\ c.user \in Admins
          /\ ProvisionAmount(c.batch) >= Threshold => c.row.createdBy # c.user
    /\ c.pc = "executing" => c.row.status = "validated"
    /\ c.pc \in {"executing", "enqueueing"} => Launched(c.batch)
    /\ c.pc = "enqueueing" => c.next \in 1..ItemCount(c.batch)

CallsOK ==
    /\ call \in [Sessions -> CallRow]
    /\ \A s \in Sessions : CallOK(call[s])

WorkersOK ==
    /\ worker \in [Workers -> WorkerRow]
    /\ \A w \in Workers : worker[w].pc # "idle" => worker[w].job \in LaunchedJob

RedisOK ==
    /\ queue \in Seq(LaunchedJob)
    /\ retry \subseteq LaunchedJob
    /\ sched \in [todo : SUBSET LaunchedJob, half : LaunchedJob \cup {NoJob}]

RecordsOK ==
    /\ item \in [Items -> ItemRow]
    /\ settled \in [Items -> [charged : Nat, refunded : Nat, carried : Nat]]
    /\ notified \in [Batches -> Nat]
    /\ faults \in Nat

IInv == BatchesOK /\ CallsOK /\ WorkersOK /\ RedisOK /\ RecordsOK

-----------------------------------------------------------------------------
(* The constants.                                                          *)

USE DisbursementAssumption

\* Every item belongs to one of the batches.
LEMMA BatchOfType == \A i \in Items : BatchOf(i) \in Batches
BY DEF BatchOf, ConstantAssumption

\* ... to no other than the one it is listed in.
LEMMA BatchOfUnique ==
    ASSUME NEW b \in Batches, NEW k \in 1..ItemCount(b)
    PROVE  BatchOf(ItemsOf[b][k]) = b
<1>1. ItemsOf[b] \in Seq(Items) /\ k \in DOMAIN ItemsOf[b]
  BY DEF ConstantAssumption, ItemCount
<1> QED BY <1>1 DEF BatchOf, ConstantAssumption

\* The amounts of a batch and the number of its items.
LEMMA AmountsType ==
    ASSUME NEW b \in Batches
    PROVE  /\ TotalAmount(b) \in Nat /\ CommissionAmount(b) \in Nat
           /\ ProvisionAmount(b) \in Nat
           /\ ItemCount(b) \in Nat \ {0}
           /\ \A k \in 1..ItemCount(b) : ItemsOf[b][k] \in Items
<1>1. TotalAmount(b) \in Nat /\ RateNum \in Nat /\ RateDen \in Nat \ {0}
  <2> DEFINE D == DOMAIN ItemsOf[b]
             a == [k \in D |-> Amount[ItemsOf[b][k]]]
  <2>1. ItemsOf[b] \in Seq(Items) /\ Amount \in [Items -> Nat \ {0}]
    BY DEF ConstantAssumption
  <2>2. D = 1..Len(ItemsOf[b]) /\ Len(ItemsOf[b]) \in Int /\ 1 \in Int
        /\ \A k \in D : a[k] \in Nat
    BY <2>1, LenProperties, ElementOfSeq
  <2>3. IsFiniteSet(D)
    BY <2>2, FS_Interval
  <2>4. TotalAmount(b) = SumFunctionOnSet(a, D)
    BY <2>3, SumOfValues DEF TotalAmount
  <2>5. SumFunctionOnSet(a, D) \in Nat
    <3> HIDE DEF D, a
    <3> QED BY <2>2, <2>3, SumType
  <2> QED BY <2>4, <2>5 DEF ConstantAssumption
<1>2. CommissionAmount(b) \in Nat
  BY <1>1, BatchCommissionType DEF CommissionAmount
<1>3. ProvisionAmount(b) \in Nat
  BY <1>1, <1>2 DEF ProvisionAmount
<1>4. ItemsOf[b] \in Seq(Items) /\ ItemCount(b) > 0
  BY DEF ConstantAssumption
<1>5. ItemCount(b) \in Nat \ {0} /\ \A k \in 1..ItemCount(b) : ItemsOf[b][k] \in Items
  BY <1>4 DEF ItemCount
<1> QED BY <1>1, <1>2, <1>3, <1>5

\* A new row, item, call and worker have their types.
LEMMA FreshTypes ==
    /\ NewBatch \in BatchRow /\ NoItem \in ItemRow /\ NoCall \in CallRow
    /\ Resting \in WorkerRow
    /\ NoCall.pc = "idle" /\ Resting.pc = "idle"
    /\ NewBatch.success = 0 /\ NewBatch.failure = 0 /\ NewBatch.status = "none"
<1>1. NewBatch \in BatchRow
  BY DEF NewBatch, BatchRow, BatchStatus
<1>2. NoCall \in CallRow
  BY <1>1 DEF NoCall, CallRow
<1> QED BY <1>1, <1>2 DEF NewBatch, NoItem, ItemRow, ItemStatus, NoCall, Resting, WorkerRow

-----------------------------------------------------------------------------
(* What a step leaves alone stays right: the parts of the invariant that   *)
(* speak of launched batches survive as long as no launched batch is taken *)
(* back to draft.                                                          *)

StaysLaunched == \A b \in Batches : Launched(b) => Launched(b)'

\* No job loses its batch.
LEMMA LaunchedJobsStay ==
    ASSUME StaysLaunched
    PROVE  LaunchedJob \subseteq LaunchedJob'
BY BatchOfType DEF StaysLaunched, LaunchedJob, Job

\* A queue of jobs is a queue of jobs of any larger set.
LEMMA SeqMonotone ==
    ASSUME NEW S, NEW T, S \subseteq T, NEW q \in Seq(S)
    PROVE  q \in Seq(T)
OBVIOUS

\* Requests, workers and Redis untouched by a step.
LEMMA Untouched ==
    ASSUME IInv, StaysLaunched
    PROVE  /\ UNCHANGED call => CallsOK'
           /\ UNCHANGED worker => WorkersOK'
           /\ UNCHANGED <<queue, retry, sched>> => RedisOK'
<1>1. ASSUME UNCHANGED call PROVE CallsOK'
  BY <1>1 DEF IInv, CallsOK, CallOK, StaysLaunched
<1>2. ASSUME UNCHANGED worker PROVE WorkersOK'
  BY <1>2, LaunchedJobsStay DEF IInv, WorkersOK
<1>3. ASSUME UNCHANGED <<queue, retry, sched>> PROVE RedisOK'
  BY <1>3, LaunchedJobsStay, SeqMonotone DEF IInv, RedisOK
<1> QED BY <1>1, <1>2, <1>3

\* A step that writes no batch row.
LEMMA BatchesUntouched ==
    ASSUME IInv, UNCHANGED batch
    PROVE  BatchesOK' /\ StaysLaunched /\ LaunchedJob' = LaunchedJob
BY DEF IInv, BatchesOK, StaysLaunched, Launched, LaunchedJob

\* A step that saves a good row for a batch, not a draft unless it was none.
LEMMA RowSaved ==
    ASSUME IInv, NEW b \in Batches, NEW row, RowOK(b, row),
           batch' = [batch EXCEPT ![b] = row],
           Launched(b) => row.status \notin {"none", "draft"}
    PROVE  /\ BatchesOK' /\ StaysLaunched
           /\ row.status \notin {"none", "draft"} => Launched(b)'
BY DEF IInv, BatchesOK, RowOK, StaysLaunched, Launched

\* The bookkeeping, when a step leaves it alone.
LEMMA RecordsUntouched ==
    ASSUME IInv, UNCHANGED <<item, settled, notified, faults>>
    PROVE  RecordsOK'
BY DEF IInv, RecordsOK

-----------------------------------------------------------------------------
(* The API.                                                                *)

\* A new batch is a draft with its items pending.
LEMMA CreateStep ==
    ASSUME IInv, NEW u \in Users, NEW b \in Batches, Create(u, b)
    PROVE  IInv'
<1> DEFINE row == [NewBatch EXCEPT !.status = "draft", !.createdBy = u]
<1>1. RowOK(b, row)
  <2>1. row \in BatchRow /\ row.status = "draft" /\ row.success = 0 /\ row.failure = 0
    BY FreshTypes DEF BatchRow, BatchStatus
  <2> HIDE DEF row
  <2> QED BY <2>1, AmountsType DEF RowOK, Counted, Terminal
<1>2. ~Launched(b)
  BY DEF Create, Launched
<1>3. BatchesOK' /\ StaysLaunched
  BY <1>1, <1>2, RowSaved DEF Create
<1>4. RecordsOK'
  <2>1. [NoItem EXCEPT !.status = "pending"] \in ItemRow
    BY DEF NoItem, ItemRow, ItemStatus
  <2> QED BY <2>1 DEF Create, historyVars, IInv, RecordsOK
<1>5. CallsOK' /\ WorkersOK' /\ RedisOK'
  BY <1>3, Untouched DEF Create, redisVars
<1> QED BY <1>3, <1>4, <1>5 DEF IInv

\* A request in progress, given what it holds.
LEMMA CallSaved ==
    ASSUME IInv, StaysLaunched, NEW s \in Sessions, NEW c \in CallRow, CallOK(c)',
           call' = [call EXCEPT ![s] = c]
    PROVE  CallsOK'
BY DEF IInv, CallsOK, CallOK, StaysLaunched

\* The copy Validate reads passes the checks it makes on it.
LEMMA ReadToValidateStep ==
    ASSUME IInv, NEW s \in Sessions, NEW u \in Users, NEW b \in Batches,
           ReadToValidate(s, u, b)
    PROVE  IInv'
<1> DEFINE c == CallOf("validating", b, u, batch[b], 1, 0)
<1>1. BatchesOK' /\ StaysLaunched
  BY BatchesUntouched DEF ReadToValidate
<1>2. c \in CallRow /\ CallOK(c)'
  BY <1>1 DEF CallOf, CallRow, CallOK, ReadToValidate, MayValidate, IInv, BatchesOK, RowOK
<1>3. CallsOK'
  BY <1>1, <1>2, CallSaved DEF ReadToValidate
<1>4. WorkersOK' /\ RedisOK' /\ RecordsOK'
  BY <1>1, Untouched, RecordsUntouched DEF ReadToValidate, redisVars, historyVars
<1> QED BY <1>1, <1>3, <1>4 DEF IInv

\* Saving a validated copy, old as it may be, leaves a row that is open, with a
\* validator that may have validated it.
LEMMA SaveValidatedStep ==
    ASSUME IInv, NEW s \in Sessions, SaveValidated(s)
    PROVE  IInv'
<1> DEFINE c   == call[s]
           row == [c.row EXCEPT !.status = "validated", !.validatedBy = c.user]
<1>1. /\ c \in CallRow /\ c.batch \in Batches /\ RowOK(c.batch, c.row)
      /\ c.row.status = "draft" /\ c.user \in Admins
      /\ ProvisionAmount(c.batch) >= Threshold => c.row.createdBy # c.user
  BY DEF SaveValidated, IInv, CallsOK, CallOK
<1>2. RowOK(c.batch, row) /\ row.status = "validated"
  <2>1. c.row \in BatchRow /\ c.user \in Users
    BY <1>1 DEF RowOK, ConstantAssumption
  <2>2. /\ row \in BatchRow /\ row.status = "validated" /\ row.validatedBy = c.user
        /\ row.success = c.row.success /\ row.failure = c.row.failure
        /\ row.createdBy = c.row.createdBy
    BY <2>1 DEF BatchRow, BatchStatus
  <2> HIDE DEF row
  <2> QED BY <1>1, <2>2 DEF RowOK, Counted, Approved, Terminal
<1>3. BatchesOK' /\ StaysLaunched
  BY <1>1, <1>2, RowSaved DEF SaveValidated
<1>4. CallsOK'
  BY <1>3, FreshTypes, CallSaved DEF SaveValidated, CallOK
<1>5. WorkersOK' /\ RedisOK' /\ RecordsOK'
  BY <1>3, Untouched, RecordsUntouched DEF SaveValidated, redisVars, historyVars
<1> QED BY <1>3, <1>4, <1>5 DEF IInv

\* The copy Execute reads is validated, hence open and approved.
LEMMA ReadToExecuteStep ==
    ASSUME IInv, NEW s \in Sessions, NEW u \in Users, NEW b \in Batches,
           ReadToExecute(s, u, b)
    PROVE  IInv'
<1> DEFINE c == CallOf("executing", b, u, batch[b], 1, 0)
<1>1. BatchesOK' /\ StaysLaunched
  BY BatchesUntouched DEF ReadToExecute
<1>2. c \in CallRow /\ CallOK(c)'
  BY <1>1 DEF CallOf, CallRow, CallOK, ReadToExecute, IInv, BatchesOK, RowOK, Launched
<1>3. CallsOK'
  BY <1>1, <1>2, CallSaved DEF ReadToExecute
<1>4. WorkersOK' /\ RedisOK' /\ RecordsOK'
  BY <1>1, Untouched, RecordsUntouched DEF ReadToExecute, redisVars, historyVars
<1> QED BY <1>1, <1>3, <1>4 DEF IInv

\* Saving a copy as being processed, old as it may be, leaves a row that is open
\* and approved, and the batch has an item to enqueue.
LEMMA SaveProcessingStep ==
    ASSUME IInv, NEW s \in Sessions, SaveProcessing(s)
    PROVE  IInv'
<1> DEFINE c   == call[s]
           row == [c.row EXCEPT !.status = "processing", !.executedBy = c.user]
<1>1. /\ c \in CallRow /\ c.batch \in Batches /\ RowOK(c.batch, c.row)
      /\ c.row.status = "validated"
  BY DEF SaveProcessing, IInv, CallsOK, CallOK
<1>2. RowOK(c.batch, row) /\ row.status = "processing"
  <2>1. c.row \in BatchRow /\ c.user \in Users \cup {NoUser}
    BY <1>1 DEF RowOK, CallRow
  <2>2. /\ row \in BatchRow /\ row.status = "processing"
        /\ row.validatedBy = c.row.validatedBy /\ row.createdBy = c.row.createdBy
        /\ row.success = c.row.success /\ row.failure = c.row.failure
    BY <2>1 DEF BatchRow, BatchStatus
  <2> HIDE DEF row
  <2> QED BY <1>1, <2>2 DEF RowOK, Counted, Approved, Terminal
<1>3. BatchesOK' /\ StaysLaunched /\ \A b \in Batches : b = c.batch => Launched(b)'
  BY <1>1, <1>2, RowSaved DEF SaveProcessing
<1>4. PICK d \in CallRow :
         d = CallOf("enqueueing", c.batch, c.user, c.row, 1, CommissionAmount(c.batch))
  BY <1>1, AmountsType DEF CallOf, CallRow
<1>5. CallsOK'
  <2>1. PICK b \in Batches : b = c.batch /\ d.batch = b /\ d.pc = "enqueueing" /\ d.next = 1
    BY <1>1, <1>4 DEF CallOf
  <2>2. CallOK(d)'
    BY <1>3, <2>1, AmountsType DEF CallOK
  <2> QED BY <1>3, <1>4, <2>2, CallSaved DEF SaveProcessing
<1>6. WorkersOK' /\ RedisOK' /\ RecordsOK'
  BY <1>3, Untouched, RecordsUntouched DEF SaveProcessing, redisVars, historyVars
<1> QED BY <1>3, <1>5, <1>6 DEF IInv

\* The job of the next item has a share within what remains of the commission.
LEMMA EnqueueJobStep ==
    ASSUME IInv, NEW s \in Sessions, EnqueueJob(s)
    PROVE  IInv'
<1>1. PICK c \in CallRow : c = call[s]
  BY DEF IInv, CallsOK
<1>2. /\ c.pc = "enqueueing" /\ c.batch \in Batches /\ Launched(c.batch)
      /\ c.next \in 1..ItemCount(c.batch)
  BY <1>1 DEF EnqueueJob, IInv, CallsOK, CallOK
<1>3. PICK i \in Items : i = ItemsOf[c.batch][c.next]
  BY <1>2, AmountsType
<1>4. PICK last \in BOOLEAN : last <=> (c.next = ItemCount(c.batch))
  OBVIOUS
<1> DEFINE Allocated == AllocateItemCommission(TotalAmount(c.batch), CommissionAmount(c.batch),
                                               Amount[i], c.remaining, last)
<1>5. c.remaining \in Nat /\ Amount[i] \in Nat
  BY DEF CallRow, ConstantAssumption
<1>6. Allocated \in 0..c.remaining
  BY <1>2, <1>5, AmountsType, AllocateBounds, Zenon
<1>7. PICK share \in 0..c.remaining : share = Allocated
  BY <1>6
<1> DEFINE job  == [item |-> i, commission |-> share, attempt |-> 0, ref |-> FALSE]
           rest == CallOf("enqueueing", c.batch, c.user, c.row, c.next + 1,
                          c.remaining - share)
<1>8. /\ queue' = Append(queue, job)
      /\ call' = [call EXCEPT ![s] = IF last THEN NoCall ELSE rest]
  <2>1. AllocateItemCommission(TotalAmount(c.batch), CommissionAmount(c.batch), Amount[i],
                               c.remaining, IsLast(c)) = share
    BY <1>4, <1>7, Zenon DEF IsLast
  <2> QED BY <1>1, <1>3, <1>4, <2>1, Zenon DEF EnqueueJob, IsLast
<1>9. BatchesOK' /\ StaysLaunched /\ LaunchedJob' = LaunchedJob
  BY BatchesUntouched DEF EnqueueJob
<1>10. job \in LaunchedJob
  <2>1. job \in Job
    BY <1>5, <1>7 DEF Job
  <2>2. BatchOf(i) = c.batch
    BY <1>2, <1>3, BatchOfUnique
  <2> QED BY <1>2, <2>1, <2>2 DEF LaunchedJob
<1>11. RedisOK'
  BY <1>8, <1>9, <1>10, AppendProperties DEF EnqueueJob, IInv, RedisOK
<1>12. CallsOK'
  <2>1. CASE last
    BY <1>8, <1>9, <2>1, FreshTypes, CallSaved DEF CallOK
  <2>2. CASE ~last
    <3>1. rest \in CallRow
      BY <1>2, <1>5, <1>7, AmountsType DEF CallOf, CallRow
    <3>2. PICK d \in CallRow : d = rest
      BY <3>1
    <3>3. /\ d.pc = "enqueueing" /\ d.batch = c.batch
          /\ d.next \in 1..ItemCount(c.batch)
      BY <1>2, <1>4, <2>2, <3>2, AmountsType DEF CallOf
    <3>4. CallOK(d)'
      BY <1>2, <1>9, <3>3 DEF CallOK, StaysLaunched
    <3> QED BY <1>8, <1>9, <2>2, <3>2, <3>4, CallSaved
  <2> QED BY <2>1, <2>2
<1>13. WorkersOK' /\ RecordsOK'
  BY <1>9, Untouched, RecordsUntouched DEF EnqueueJob, historyVars
<1> QED BY <1>9, <1>11, <1>12, <1>13 DEF IInv

-----------------------------------------------------------------------------
(* The workers.                                                            *)

\* A worker that holds a job of a launched batch.
LEMMA WorkerSaved ==
    ASSUME IInv, StaysLaunched, NEW w \in Workers, NEW v \in WorkerRow,
           v.pc # "idle" => v.job \in LaunchedJob,
           worker' = [worker EXCEPT ![w] = v]
    PROVE  WorkersOK'
BY LaunchedJobsStay DEF IInv, WorkersOK

\* The state of a worker that is busy with a job.
LEMMA WorkerAtType ==
    ASSUME NEW pc \in {"call", "finish", "settle", "notify", "retry", "schedule"},
           NEW j \in LaunchedJob, NEW paid \in BOOLEAN
    PROVE  /\ WorkerAt(pc, j, paid) \in WorkerRow
           /\ WorkerAt(pc, j, paid).job \in LaunchedJob
BY DEF WorkerAt, WorkerRow, LaunchedJob

\* What a busy worker holds.
LEMMA WorkerBusy ==
    ASSUME IInv, NEW w \in Workers, worker[w].pc # "idle"
    PROVE  /\ worker[w].job \in LaunchedJob /\ worker[w].paid \in BOOLEAN
           /\ worker[w].job \in Job /\ worker[w].job.item \in Items
           /\ BatchOf(worker[w].job.item) \in Batches
           /\ Launched(BatchOf(worker[w].job.item))
BY BatchOfType DEF IInv, WorkersOK, WorkerRow, LaunchedJob, Job

\* A job leaves the list for a worker's hands.
LEMMA PopJobStep ==
    ASSUME IInv, NEW w \in Workers, PopJob(w)
    PROVE  IInv'
<1>1. BatchesOK' /\ StaysLaunched /\ LaunchedJob' = LaunchedJob
  BY BatchesUntouched DEF PopJob
<1>2. Head(queue) \in LaunchedJob /\ Tail(queue) \in Seq(LaunchedJob)
  BY HeadTailProperties DEF PopJob, IInv, RedisOK
<1>3. WorkersOK'
  BY <1>1, <1>2, WorkerAtType, WorkerSaved DEF PopJob
<1>4. RedisOK'
  BY <1>1, <1>2 DEF PopJob, IInv, RedisOK
<1>5. CallsOK' /\ RecordsOK'
  BY <1>1, Untouched, RecordsUntouched DEF PopJob, historyVars
<1> QED BY <1>1, <1>3, <1>4, <1>5 DEF IInv

\* The operator's answer changes nothing but what the worker does next.
LEMMA CallGatewayStep ==
    ASSUME IInv, NEW w \in Workers, CallGateway(w)
    PROVE  IInv'
<1> DEFINE j == worker[w].job
<1>1. BatchesOK' /\ StaysLaunched /\ LaunchedJob' = LaunchedJob
  BY BatchesUntouched DEF CallGateway
<1>2. j \in LaunchedJob /\ j \in Job
  BY WorkerBusy DEF CallGateway
<1>3. PICK a \in Answers(OperatorOf[j.item], j.ref) :
         LET known == [j EXCEPT !.ref = @ \/ a.ref] IN
          worker' = [worker EXCEPT ![w] =
             IF a.status = "success" THEN WorkerAt("finish", known, TRUE)
             ELSE IF AttemptsLeft(j) THEN WorkerAt("retry", known, FALSE)
             ELSE WorkerAt("finish", known, FALSE)]
  BY DEF CallGateway
<1>4. PICK known : known = [j EXCEPT !.ref = @ \/ a.ref]
  OBVIOUS
<1>5. known \in LaunchedJob
  <2>1. (j.ref \/ a.ref) \in BOOLEAN
    OBVIOUS
  <2>2. known = [j EXCEPT !.ref = (j.ref \/ a.ref)]
    BY <1>4
  <2>3. known \in Job /\ known.item = j.item
    BY <1>2, <2>1, <2>2 DEF Job
  <2> QED BY <1>2, <2>3 DEF LaunchedJob
<1>6. \E pc \in {"finish", "retry"}, paid \in BOOLEAN :
         worker' = [worker EXCEPT ![w] = WorkerAt(pc, known, paid)]
  BY <1>3, <1>4, Zenon
<1>7. WorkersOK'
  BY <1>1, <1>5, <1>6, WorkerAtType, WorkerSaved
<1>8. CallsOK' /\ RedisOK' /\ RecordsOK'
  BY <1>1, Untouched, RecordsUntouched DEF CallGateway, redisVars, historyVars
<1> QED BY <1>1, <1>7, <1>8 DEF IInv

\* Counting one more item closes the row exactly at the last one.
LEMMA CountedRowOK ==
    ASSUME NEW b \in Batches, NEW row, RowOK(b, row),
           row.status \notin {"none", "draft"}, NEW paid \in BOOLEAN
    PROVE  /\ RowOK(b, CountedRow(b, row, paid))
           /\ CountedRow(b, row, paid).status \notin {"none", "draft"}
<1> DEFINE r     == IF paid THEN [row EXCEPT !.success = @ + 1]
                            ELSE [row EXCEPT !.failure = @ + 1]
           st    == IF r.failure = ItemCount(b) THEN "failed" ELSE "completed"
           final == [r EXCEPT !.status = st]
<1>1. row \in BatchRow
  BY DEF RowOK
<1>2. /\ r \in BatchRow /\ r.status = row.status
      /\ r.success + r.failure = row.success + row.failure + 1
      /\ r.createdBy = row.createdBy /\ r.validatedBy = row.validatedBy
  BY <1>1 DEF BatchRow
<1> HIDE DEF r
<1>3. /\ final \in BatchRow /\ final.status \in Terminal
      /\ final.success = r.success /\ final.failure = r.failure
      /\ final.createdBy = r.createdBy /\ final.validatedBy = r.validatedBy
  BY <1>2 DEF BatchRow, BatchStatus, Terminal
<1>4. CountedRow(b, row, paid) = IF r.success + r.failure < ItemCount(b) THEN r ELSE final
  BY DEF CountedRow, r
<1>5. r.success \in Nat /\ r.failure \in Nat /\ row.success \in Nat /\ row.failure \in Nat
  BY <1>1, <1>2 DEF BatchRow
<1> HIDE DEF final
<1>6. CASE r.success + r.failure < ItemCount(b)
  BY <1>2, <1>4, <1>5, <1>6, AmountsType DEF RowOK, Counted, Approved
<1>7. CASE ~(r.success + r.failure < ItemCount(b))
  BY <1>2, <1>3, <1>4, <1>5, <1>7, AmountsType DEF RowOK, Counted, Approved, Terminal
<1> QED BY <1>6, <1>7

\* An item's result is counted in the row as it is, not as somebody read it.
LEMMA FinishItemStep ==
    ASSUME IInv, NEW w \in Workers, FinishItem(w)
    PROVE  IInv'
<1> DEFINE j    == worker[w].job
           b    == BatchOf(j.item)
           paid == worker[w].paid
<1>1. /\ j \in LaunchedJob /\ j \in Job /\ j.item \in Items /\ paid \in BOOLEAN
      /\ b \in Batches /\ Launched(b)
  BY WorkerBusy DEF FinishItem
<1>2. BatchesOK' /\ StaysLaunched
  <2>1. PICK row : row = CountedRow(b, batch[b], paid)
    OBVIOUS
  <2>2. RowOK(b, row) /\ row.status \notin {"none", "draft"}
    BY <1>1, <2>1, CountedRowOK DEF IInv, BatchesOK, Launched
  <2>3. batch' = [batch EXCEPT ![b] = row]
    BY <2>1, Zenon DEF FinishItem
  <2> QED BY <1>1, <2>2, <2>3, RowSaved
<1>3. WorkersOK'
  BY <1>1, <1>2, WorkerAtType, WorkerSaved DEF FinishItem
<1>4. RecordsOK'
  <2>1. item \in [Items -> ItemRow] /\ j.ref \in BOOLEAN
    BY <1>1 DEF IInv, RecordsOK, Job
  <2>2. \A r \in ItemRow : /\ [r EXCEPT !.status = "success", !.ref = j.ref] \in ItemRow
                           /\ [r EXCEPT !.status = "failed", !.ref = FALSE] \in ItemRow
    BY <2>1 DEF ItemRow, ItemStatus
  <2>3. item' \in [Items -> ItemRow]
    BY <1>1, <2>1, <2>2 DEF FinishItem
  <2> QED BY <2>3 DEF FinishItem, historyVars, IInv, RecordsOK
<1>5. CallsOK' /\ RedisOK'
  BY <1>2, Untouched DEF FinishItem, redisVars, historyVars
<1> QED BY <1>2, <1>3, <1>4, <1>5 DEF IInv

\* A settlement is recorded for the item of the job, with its commission.
LEMMA SettleItemStep ==
    ASSUME IInv, NEW w \in Workers, SettleItem(w)
    PROVE  IInv'
<1> DEFINE j == worker[w].job
<1>1. BatchesOK' /\ StaysLaunched /\ LaunchedJob' = LaunchedJob
  BY BatchesUntouched DEF SettleItem
<1>2. j \in LaunchedJob /\ j \in Job /\ j.item \in Items /\ worker[w].paid \in BOOLEAN
  BY WorkerBusy DEF SettleItem
<1>3. RecordsOK'
  <2> DEFINE Rows == [charged : Nat, refunded : Nat, carried : Nat]
  <2>1. settled \in [Items -> Rows] /\ j.commission \in Nat
    BY <1>2 DEF IInv, RecordsOK, Job
  <2>2. \A r \in Rows : SettledRow(r, worker[w].paid, j.commission) \in Rows
    BY <2>1 DEF SettledRow
  <2>3. settled' \in [Items -> Rows]
    BY <1>2, <2>1, <2>2 DEF SettleItem
  <2> QED BY <2>3 DEF SettleItem, IInv, RecordsOK
<1>4. WorkersOK'
  BY <1>1, <1>2, WorkerAtType, WorkerSaved DEF SettleItem
<1>5. CallsOK' /\ RedisOK'
  BY <1>1, Untouched DEF SettleItem, redisVars
<1> QED BY <1>1, <1>3, <1>4, <1>5 DEF IInv

\* Announcing a closed batch writes no row.
LEMMA NotifyIfBatchDoneStep ==
    ASSUME IInv, NEW w \in Workers, NotifyIfBatchDone(w)
    PROVE  IInv'
<1>1. BatchesOK' /\ StaysLaunched /\ LaunchedJob' = LaunchedJob
  BY BatchesUntouched DEF NotifyIfBatchDone
<1>2. WorkersOK'
  BY <1>1, FreshTypes, WorkerSaved DEF NotifyIfBatchDone
<1>3. RecordsOK'
  BY WorkerBusy DEF NotifyIfBatchDone, IInv, RecordsOK
<1>4. CallsOK' /\ RedisOK'
  BY <1>1, Untouched DEF NotifyIfBatchDone, redisVars
<1> QED BY <1>1, <1>2, <1>3, <1>4 DEF IInv

\* A postponed item goes on being in the same worker's hands.
LEMMA MarkRetryingStep ==
    ASSUME IInv, NEW w \in Workers, MarkRetrying(w)
    PROVE  IInv'
<1> DEFINE j == worker[w].job
<1>1. BatchesOK' /\ StaysLaunched /\ LaunchedJob' = LaunchedJob
  BY BatchesUntouched DEF MarkRetrying
<1>2. j \in LaunchedJob /\ j \in Job /\ j.item \in Items
  BY WorkerBusy DEF MarkRetrying
<1>3. [j EXCEPT !.attempt = @ + 1] \in LaunchedJob
  BY <1>2 DEF LaunchedJob, Job
<1>4. WorkersOK'
  BY <1>1, <1>3, WorkerAtType, WorkerSaved DEF MarkRetrying
<1>5. RecordsOK'
  <2>1. item \in [Items -> ItemRow]
    BY DEF IInv, RecordsOK
  <2>2. item' \in [Items -> ItemRow]
    BY <1>2, <2>1 DEF MarkRetrying, ItemRow, ItemStatus
  <2> QED BY <2>2 DEF MarkRetrying, historyVars, IInv, RecordsOK
<1>6. CallsOK' /\ RedisOK'
  BY <1>1, Untouched DEF MarkRetrying, redisVars, historyVars
<1> QED BY <1>1, <1>4, <1>5, <1>6 DEF IInv

\* ... and then in the retry set.
LEMMA ScheduleRetryStep ==
    ASSUME IInv, NEW w \in Workers, ScheduleRetry(w)
    PROVE  IInv'
<1>1. BatchesOK' /\ StaysLaunched /\ LaunchedJob' = LaunchedJob
  BY BatchesUntouched DEF ScheduleRetry
<1>2. worker[w].job \in LaunchedJob
  BY WorkerBusy DEF ScheduleRetry
<1>3. RedisOK'
  BY <1>1, <1>2 DEF ScheduleRetry, IInv, RedisOK
<1>4. WorkersOK'
  BY <1>1, FreshTypes, WorkerSaved DEF ScheduleRetry
<1>5. CallsOK' /\ RecordsOK'
  BY <1>1, Untouched, RecordsUntouched DEF ScheduleRetry, historyVars
<1> QED BY <1>1, <1>3, <1>4, <1>5 DEF IInv

-----------------------------------------------------------------------------
(* The scheduler and the faults.                                           *)

\* The scheduler moves jobs between Redis structures and makes none.
LEMMA SchedulerStepOK ==
    ASSUME IInv, SchedulerStep
    PROVE  IInv'
<1>1. /\ UNCHANGED batch /\ UNCHANGED <<call, worker>>
      /\ UNCHANGED <<item, settled, notified, faults>>
  BY DEF SchedulerStep, FetchDue, PushDue, RemoveDue, redisVars, historyVars
<1>2. BatchesOK' /\ StaysLaunched /\ LaunchedJob' = LaunchedJob
  BY <1>1, BatchesUntouched
<1>3. RedisOK'
  <2>1. /\ queue \in Seq(LaunchedJob) /\ retry \subseteq LaunchedJob
        /\ sched.todo \subseteq LaunchedJob /\ sched.half \in LaunchedJob \cup {NoJob}
        /\ sched \in [todo : SUBSET LaunchedJob, half : LaunchedJob \cup {NoJob}]
    BY DEF IInv, RedisOK
  <2>2. CASE FetchDue
    BY <1>2, <2>1, <2>2 DEF FetchDue, RedisOK, redisVars
  <2>3. CASE PushDue
    <3>1. PICK j \in sched.todo : /\ queue' = Append(queue, j)
                                  /\ sched' = [todo |-> sched.todo \ {j}, half |-> j]
      BY <2>3 DEF PushDue
    <3>2. j \in LaunchedJob /\ sched.todo \ {j} \subseteq LaunchedJob
      BY <2>1
    <3>3. queue' \in Seq(LaunchedJob)
      BY <2>1, <3>1, <3>2, AppendProperties
    <3> QED BY <1>2, <2>1, <2>3, <3>1, <3>2, <3>3 DEF PushDue, RedisOK
  <2>4. CASE RemoveDue
    BY <1>2, <2>1, <2>4 DEF RemoveDue, RedisOK
  <2> QED BY <2>2, <2>3, <2>4 DEF SchedulerStep
<1>4. CallsOK' /\ WorkersOK' /\ RecordsOK'
  BY <1>1, <1>2, Untouched, RecordsUntouched
<1> QED BY <1>2, <1>3, <1>4 DEF IInv

\* A fault empties hands: of a worker, a request, the scheduler or everyone.
LEMMA FaultStepOK ==
    ASSUME IInv, FaultStep
    PROVE  IInv'
<1>1. PICK kind : Fault(kind)
  BY DEF FaultStep, WorkerFails, EnqueueFails, SchedulerFails, Crash
<1>2. BatchesOK' /\ StaysLaunched /\ LaunchedJob' = LaunchedJob
  BY <1>1, BatchesUntouched DEF Fault
<1>3. RecordsOK'
  <2>1. faults' = faults + 1 /\ UNCHANGED <<item, settled, notified>>
    BY <1>1 DEF Fault, historyVars
  <2> QED BY <2>1 DEF IInv, RecordsOK
<1>4. CallsOK'
  <2>1. CASE UNCHANGED call
    BY <1>2, <2>1, Untouched
  <2>2. ASSUME NEW s \in Sessions, call' = [call EXCEPT ![s] = NoCall]
        PROVE  CallsOK'
    BY <1>2, <2>2, FreshTypes, CallSaved DEF CallOK
  <2>3. CASE call' = [s \in Sessions |-> NoCall]
    BY <2>3, FreshTypes DEF CallsOK, CallOK
  <2> QED BY <2>1, <2>2, <2>3
          DEF FaultStep, WorkerFails, EnqueueFails, SchedulerFails, Crash
<1>5. WorkersOK'
  <2>1. CASE UNCHANGED worker
    BY <1>2, <2>1, Untouched
  <2>2. ASSUME NEW w \in Workers, worker' = [worker EXCEPT ![w] = Resting]
        PROVE  WorkersOK'
    BY <1>2, <2>2, FreshTypes, WorkerSaved
  <2>3. CASE worker' = [w \in Workers |-> Resting]
    BY <2>3, FreshTypes DEF WorkersOK
  <2> QED BY <2>1, <2>2, <2>3
          DEF FaultStep, WorkerFails, EnqueueFails, SchedulerFails, Crash
<1>6. RedisOK'
  <2>1. UNCHANGED <<queue, retry>>
    BY <1>1 DEF Fault, redisVars
  <2>2. sched' = sched \/ sched' = NoMoves
    BY DEF FaultStep, WorkerFails, EnqueueFails, SchedulerFails, Crash
  <2> QED BY <1>2, <2>1, <2>2 DEF IInv, RedisOK, NoMoves
<1> QED BY <1>2, <1>3, <1>4, <1>5, <1>6 DEF IInv

-----------------------------------------------------------------------------
(* The invariant holds for ever, and what follows from it.                 *)

\* The invariant holds of the initial state.
LEMMA InitOK == Init => IInv
<1> SUFFICES ASSUME Init PROVE IInv
  OBVIOUS
<1>1. BatchesOK
  BY FreshTypes DEF Init, BatchesOK, RowOK
<1>2. CallsOK /\ WorkersOK
  BY FreshTypes DEF Init, CallsOK, CallOK, WorkersOK
<1>3. RedisOK
  BY DEF Init, RedisOK, NoMoves
<1>4. RecordsOK
  BY FreshTypes DEF Init, RecordsOK
<1> QED BY <1>1, <1>2, <1>3, <1>4 DEF IInv

\* Every step keeps the invariant.
LEMMA NextOK == IInv /\ [Next]_vars => IInv'
<1> SUFFICES ASSUME IInv, [Next]_vars PROVE IInv'
  OBVIOUS
<1>1. CASE UserStep
  BY <1>1, CreateStep, ReadToValidateStep, ReadToExecuteStep DEF UserStep
<1>2. CASE \E s \in Sessions : RequestStep(s)
  BY <1>2, SaveValidatedStep, SaveProcessingStep, EnqueueJobStep DEF RequestStep
<1>3. CASE \E w \in Workers : WorkerStep(w)
  BY <1>3, PopJobStep, CallGatewayStep, FinishItemStep, SettleItemStep,
     NotifyIfBatchDoneStep, MarkRetryingStep, ScheduleRetryStep DEF WorkerStep
<1>4. CASE UNCHANGED vars
  <2>1. BatchesOK' /\ StaysLaunched
    BY <1>4, BatchesUntouched DEF vars
  <2> QED BY <1>4, <2>1, Untouched, RecordsUntouched DEF vars, IInv
<1> QED BY <1>1, <1>2, <1>3, <1>4, SchedulerStepOK, FaultStepOK DEF Next

\* The inductive invariant is one.
THEOREM IInvHolds == Spec => []IInv
BY InitOK, NextOK, PTL DEF Spec

\* Every variable keeps its type, for any number of requests, workers and faults.
THEOREM TypesHold == Spec => []TypeOK
<1>1. IInv => TypeOK
  BY DEF IInv, BatchesOK, CallsOK, CallOK, WorkersOK, RedisOK, RecordsOK,
         TypeOK, LaunchedJob
<1> QED BY <1>1, IInvHolds, PTL

\* A batch is closed exactly when its counters say so, whichever stale copy of
\* its row Validate or Execute saves last (batch.go:186, 218, 308-320).
THEOREM ClosedIffCountedHolds == Spec => []ClosedIffCounted
<1>1. IInv => ClosedIffCounted
  BY DEF IInv, BatchesOK, RowOK, Counted, ClosedIffCounted
<1> QED BY <1>1, IInvHolds, PTL

\* No large batch gets past draft without an administrator other than its
\* creator, for any number of concurrent requests (batch.go:168-188, 214-219).
THEOREM FourEyesHolds == Spec => []FourEyes
<1>1. IInv => FourEyes
  BY DEF IInv, BatchesOK, RowOK, Approved, FourEyes
<1> QED BY <1>1, IInvHolds, PTL

-----------------------------------------------------------------------------
(* The division of the commission: whatever is interleaved, every job      *)
(* carries the share of its item, and the shares of a batch add up to its  *)
(* commission.                                                             *)

AmountsIn(b) == [k \in 1..ItemCount(b) |-> Amount[ItemsOf[b][k]]]

FloorsIn(b) == [k \in 1..ItemCount(b) |->
                   (Amount[ItemsOf[b][k]] * CommissionAmount(b)) \div TotalAmount(b)]

\* What remains of the commission when it is the turn of the k-th item.
Rest(b, k) == CommissionAmount(b) - SumFunctionOnSet(FloorsIn(b), 1..(k - 1))

ShareJob == {j \in Job : j.commission = Share(j.item)}

QueueShares == \A k \in DOMAIN queue : queue[k] \in ShareJob

RetryShares == retry \subseteq ShareJob /\ sched.todo \subseteq ShareJob

HandShares == \A w \in Workers : worker[w].pc # "idle" => worker[w].job \in ShareJob

CallShares == \A s \in Sessions : call[s].pc = "enqueueing" =>
                 call[s].remaining = Rest(call[s].batch, call[s].next)

SharesOK == QueueShares /\ RetryShares /\ HandShares /\ CallShares

\* The items of a batch are listed without repetition.
LEMMA ListedOnce ==
    ASSUME NEW b \in Batches, NEW k \in 1..ItemCount(b), NEW m \in 1..ItemCount(b),
           ItemsOf[b][k] = ItemsOf[b][m]
    PROVE  k = m
<1>1. ItemsOf[b] \in Seq(Items)
  BY DEF ConstantAssumption
<1>2. DOMAIN ItemsOf[b] = 1..ItemCount(b)
  BY <1>1 DEF ItemCount
<1>3. \A c, d \in Batches :
         \A x \in DOMAIN ItemsOf[c], y \in DOMAIN ItemsOf[d] :
            ItemsOf[c][x] = ItemsOf[d][y] => c = d /\ x = y
  BY DEF ConstantAssumption
<1>4. \A x, y \in DOMAIN ItemsOf[b] : ItemsOf[b][x] = ItemsOf[b][y] => x = y
  BY <1>3
<1> QED BY <1>2, <1>4

\* The amounts of a batch divide its commission the way SharesFit says.
LEMMA BatchDivided ==
    ASSUME NEW b \in Batches
    PROVE  /\ TotalAmount(b) \in Nat \ {0}
           /\ TotalAmount(b) = SumFunctionOnSet(AmountsIn(b), 1..ItemCount(b))
           /\ Divided(ItemCount(b), AmountsIn(b), FloorsIn(b), TotalAmount(b), CommissionAmount(b))
<1> DEFINE n == ItemCount(b)
           a == AmountsIn(b)
           f == FloorsIn(b)
<1>1. n \in Nat \ {0} /\ CommissionAmount(b) \in Nat /\ \A k \in 1..n : ItemsOf[b][k] \in Items
  BY AmountsType
<1>2. \A k \in 1..n : a[k] \in Nat \ {0} /\ a[k] = Amount[ItemsOf[b][k]]
  <2>1. Amount \in [Items -> Nat \ {0}]
    BY DEF ConstantAssumption
  <2> QED BY <1>1, <2>1 DEF AmountsIn
<1>3. TotalAmount(b) = SumFunctionOnSet(a, 1..n)
  <2> DEFINE D == DOMAIN ItemsOf[b]
             g == [k \in D |-> Amount[ItemsOf[b][k]]]
  <2>1. D = 1..n /\ DOMAIN g = 1..n
    BY DEF ConstantAssumption, ItemCount
  <2>2. IsFiniteSet(DOMAIN g)
    BY <1>1, <2>1, FS_Interval
  <2>3. \A k \in DOMAIN g : g[k] = a[k]
    BY <1>2, <2>1
  <2>4. SumFunction(g) = SumFunctionOnSet(a, DOMAIN g)
    <3> HIDE DEF g, a
    <3> QED BY <2>2, <2>3, SumOfValues
  <2> QED BY <2>1, <2>4 DEF TotalAmount
<1>4. SumFunctionOnSet(a, 1..n) \in Nat \ {0}
  <2> HIDE DEF a, n
  <2> QED BY <1>1, <1>2, TotalPositive
<1>5. \A k \in 1..n : f[k] = (a[k] * CommissionAmount(b)) \div TotalAmount(b)
  BY <1>2 DEF FloorsIn
<1> HIDE DEF a, f, n
<1>6. PICK A \in Nat \ {0}, C \in Nat : A = TotalAmount(b) /\ C = CommissionAmount(b)
  BY <1>1, <1>3, <1>4
<1>7. Division(n, a, f, A, C)
  BY <1>2, <1>3, <1>5, <1>6 DEF Division
<1>8. Divided(n, a, f, A, C)
  BY <1>1, <1>7, SharesFit
<1> QED BY <1>3, <1>6, <1>8 DEF n, a, f

\* What remains at each turn.
LEMMA RestStep ==
    ASSUME NEW b \in Batches
    PROVE  /\ Rest(b, 1) = CommissionAmount(b)
           /\ \A k \in 1..ItemCount(b) : Rest(b, k) \in Nat /\ FloorsIn(b)[k] \in Nat
           /\ \A k \in 1..(ItemCount(b) - 1) : Rest(b, k + 1) = Rest(b, k) - FloorsIn(b)[k]
<1> DEFINE n == ItemCount(b)
           f == FloorsIn(b)
           C == CommissionAmount(b)
           S(k) == SumFunctionOnSet(f, 1..k)
<1>1. n \in Nat \ {0} /\ C \in Nat
  BY AmountsType
<1>2. \A k \in 1..n : f[k] \in Nat /\ C - S(k - 1) \in Nat
  BY BatchDivided DEF Divided
<1> HIDE DEF n, f, C
<1>3. /\ S(0) = 0 /\ \A m \in 0..n : S(m) \in Int
      /\ \A m \in 1..n : S(m) = f[m] + S(m - 1)
  <2>1. \A k \in 1..n : f[k] \in Int
    BY <1>2
  <2> QED BY <1>1, <2>1, SumOfFirst
<1>4. \A k : Rest(b, k) = C - S(k - 1)
  BY DEF Rest, C, f
<1> HIDE DEF S
<1>5. Rest(b, 1) = C
  BY <1>1, <1>3, <1>4
<1>6. ASSUME NEW k \in 1..(n - 1) PROVE Rest(b, k + 1) = Rest(b, k) - f[k]
  <2>1. k \in 1..n /\ k - 1 \in 0..n /\ (k + 1) - 1 = k
    BY <1>1
  <2>2. S(k) = f[k] + S(k - 1) /\ S(k - 1) \in Int /\ f[k] \in Nat
    BY <1>2, <1>3, <2>1
  <2>3. Rest(b, k + 1) = C - S(k) /\ Rest(b, k) = C - S(k - 1)
    BY <1>4, <2>1
  <2> QED BY <1>1, <2>2, <2>3
<1> QED BY <1>2, <1>4, <1>5, <1>6 DEF n, f, C

\* The share of the k-th item: its part rounded down, or the rest for the last.
LEMMA SharesByPlace ==
    ASSUME NEW i \in Items, NEW k \in 1..ItemCount(BatchOf(i)), ItemsOf[BatchOf(i)][k] = i
    PROVE  Share(i) = IF k < ItemCount(BatchOf(i)) THEN FloorsIn(BatchOf(i))[k]
                      ELSE Rest(BatchOf(i), ItemCount(BatchOf(i)))
<1> DEFINE b        == BatchOf(i)
           n        == ItemCount(b)
           Floor(m) == (Amount[ItemsOf[b][m]] * CommissionAmount(b)) \div TotalAmount(b)
           c        == CHOOSE m \in 1..n : ItemsOf[b][m] = i
           g        == [m \in 1..(n - 1) |-> Floor(m)]
<1>1. b \in Batches /\ n \in Nat \ {0}
  BY BatchOfType, AmountsType
<1>2. Share(i) = IF c < n THEN Floor(c) ELSE CommissionAmount(b) - SumFunction(g)
  BY DEF Share
<1>3. c = k
  <2>1. k \in 1..n /\ ItemsOf[b][k] = i
    OBVIOUS
  <2>2. c \in 1..n /\ ItemsOf[b][c] = i
    <3> HIDE DEF n, b
    <3> QED BY <2>1
  <2> HIDE DEF c
  <2> QED BY <1>1, <2>1, <2>2, ListedOnce
<1>4. SumFunction(g) = SumFunctionOnSet(FloorsIn(b), 1..(n - 1))
  <2>1. DOMAIN g = 1..(n - 1) /\ IsFiniteSet(1..(n - 1))
    BY <1>1, FS_Interval
  <2>2. \A m \in DOMAIN g : g[m] = FloorsIn(b)[m]
    BY <1>1 DEF FloorsIn
  <2> HIDE DEF g
  <2>3. SumFunction(g) = SumFunctionOnSet(FloorsIn(b), DOMAIN g)
    BY <2>1, <2>2, SumOfValues
  <2> QED BY <2>1, <2>3
<1>5. Floor(k) = FloorsIn(b)[k]
  BY DEF FloorsIn
<1> HIDE DEF c, g, Floor
<1> QED BY <1>2, <1>3, <1>4, <1>5 DEF Rest

\* ... for the items as their batch lists them.
LEMMA ShareOfItem ==
    ASSUME NEW b \in Batches, NEW k \in 1..ItemCount(b)
    PROVE  /\ Share(ItemsOf[b][k]) = IF k < ItemCount(b) THEN FloorsIn(b)[k]
                                                          ELSE Rest(b, ItemCount(b))
           /\ Share(ItemsOf[b][k]) \in Nat
<1>1. BatchOf(ItemsOf[b][k]) = b /\ ItemCount(b) \in Nat \ {0} /\ ItemsOf[b][k] \in Items
  BY BatchOfUnique, AmountsType
<1>2. PICK i \in Items : i = ItemsOf[b][k]
  BY <1>1
<1>3. Share(i) = IF k < ItemCount(b) THEN FloorsIn(b)[k] ELSE Rest(b, ItemCount(b))
  BY <1>1, <1>2, SharesByPlace
<1>4. FloorsIn(b)[k] \in Nat /\ Rest(b, ItemCount(b)) \in Nat
  BY <1>1, RestStep
<1> QED BY <1>2, <1>3, <1>4

\* Every item has a place in the list of its batch.
LEMMA ItemListed ==
    ASSUME NEW i \in Items
    PROVE  BatchOf(i) \in Batches /\ \E k \in 1..ItemCount(BatchOf(i)) : ItemsOf[BatchOf(i)][k] = i
<1>1. PICK c \in Batches : \E k \in DOMAIN ItemsOf[c] : ItemsOf[c][k] = i
  BY DEF ConstantAssumption
<1>2. ItemsOf[c] \in Seq(Items)
  BY DEF ConstantAssumption
<1>3. PICK k \in 1..ItemCount(c) : ItemsOf[c][k] = i
  BY <1>1, <1>2 DEF ItemCount
<1> QED BY <1>3, BatchOfUnique

\* A share is a number of francs, and so is what is due for the item.
LEMMA ShareType ==
    ASSUME NEW i \in Items
    PROVE  Share(i) \in Nat /\ Due(i) \in Nat
<1>1. Share(i) \in Nat
  BY ItemListed, ShareOfItem
<1> QED BY <1>1 DEF Due, ConstantAssumption

\* What EnqueueJob works out is the share of the item, and leaves the rest.
LEMMA EnqueuedShare ==
    ASSUME NEW b \in Batches, NEW k \in 1..ItemCount(b), NEW last \in BOOLEAN,
           last <=> (k = ItemCount(b)), NEW share,
           share = AllocateItemCommission(TotalAmount(b), CommissionAmount(b),
                                          Amount[ItemsOf[b][k]], Rest(b, k), last)
    PROVE  /\ share = Share(ItemsOf[b][k])
           /\ ~last => Rest(b, k) - share = Rest(b, k + 1)
<1>1. ItemCount(b) \in Nat \ {0} /\ Rest(b, k) \in Nat
  BY AmountsType, RestStep
<1>2. CASE last
  <2>1. share = Rest(b, ItemCount(b))
    BY <1>2 DEF AllocateItemCommission
  <2>2. ~(k < ItemCount(b))
    BY <1>1, <1>2
  <2>3. Share(ItemsOf[b][k]) = Rest(b, ItemCount(b))
    BY <2>2, ShareOfItem
  <2> QED BY <1>2, <2>1, <2>3
<1>3. CASE ~last
  <2>1. k \in 1..(ItemCount(b) - 1) /\ k < ItemCount(b)
    BY <1>1, <1>3
  <2>2. PartOf(k, AmountsIn(b), FloorsIn(b), TotalAmount(b), CommissionAmount(b)) = FloorsIn(b)[k]
    BY <2>1, BatchDivided DEF Divided
  <2>3. AmountsIn(b)[k] = Amount[ItemsOf[b][k]]
    BY DEF AmountsIn
  <2>4. share = AllocateItemCommission(TotalAmount(b), CommissionAmount(b),
                                       Amount[ItemsOf[b][k]], Rest(b, k), FALSE)
    BY <1>3
  <2>5. share = FloorsIn(b)[k]
    BY <2>2, <2>3, <2>4 DEF PartOf, Rest
  <2>6. Share(ItemsOf[b][k]) = FloorsIn(b)[k]
    BY <2>1, ShareOfItem
  <2>7. Rest(b, k + 1) = Rest(b, k) - FloorsIn(b)[k]
    BY <2>1, RestStep
  <2> QED BY <2>5, <2>6, <2>7
<1> QED BY <1>2, <1>3

\* A worker that gets a job with the right share, or none.
LEMMA HandGets ==
    ASSUME IInv, HandShares, NEW w \in Workers, NEW v, worker' = [worker EXCEPT ![w] = v],
           v.pc # "idle" => v.job \in ShareJob
    PROVE  HandShares'
<1>1. \A x \in Workers : worker'[x] = IF x = w THEN v ELSE worker[x]
  BY DEF IInv, WorkersOK
<1> QED BY <1>1 DEF HandShares

\* A worker that goes on with such a job.
LEMMA HandGoesOn ==
    ASSUME IInv, HandShares, NEW w \in Workers, NEW j \in ShareJob,
           \E pc, paid : worker' = [worker EXCEPT ![w] = WorkerAt(pc, j, paid)]
    PROVE  HandShares'
<1>1. PICK pc, paid : worker' = [worker EXCEPT ![w] = WorkerAt(pc, j, paid)]
  BY Zenon
<1> DEFINE v == WorkerAt(pc, j, paid)
<1>2. worker' = [worker EXCEPT ![w] = v]
  BY <1>1
<1>3. v.job \in ShareJob
  BY DEF WorkerAt
<1> HIDE DEF v
<1> QED BY <1>2, <1>3, HandGets

\* A request that owes what it should, or nothing.
LEMMA CallGets ==
    ASSUME IInv, CallShares, NEW s \in Sessions, NEW c, call' = [call EXCEPT ![s] = c],
           c.pc = "enqueueing" => c.remaining = Rest(c.batch, c.next)
    PROVE  CallShares'
<1>1. \A t \in Sessions : call'[t] = IF t = s THEN c ELSE call[t]
  BY DEF IInv, CallsOK
<1> QED BY <1>1 DEF CallShares

\* One more job at the end of the list.
LEMMA QueueGets ==
    ASSUME IInv, QueueShares, NEW j \in ShareJob, queue' = Append(queue, j)
    PROVE  QueueShares'
<1>1. /\ DOMAIN queue' = DOMAIN queue \cup {Len(queue) + 1} /\ queue'[Len(queue) + 1] = j
      /\ \A k \in DOMAIN queue : queue'[k] = queue[k]
  BY DEF IInv, RedisOK
<1> QED BY <1>1 DEF QueueShares

\* Saving a batch as being processed starts the division of its commission.
LEMMA SaveProcessingShares ==
    ASSUME IInv, SharesOK, NEW s \in Sessions, SaveProcessing(s)
    PROVE  SharesOK'
<1>1. PICK b \in Batches : b = call[s].batch
  BY DEF SaveProcessing, IInv, CallsOK, CallOK
<1> DEFINE c == CallOf("enqueueing", b, call[s].user, call[s].row, 1, CommissionAmount(b))
<1>2. call' = [call EXCEPT ![s] = c]
  BY <1>1, Zenon DEF SaveProcessing
<1>3. c.batch = b /\ c.next = 1 /\ c.remaining = CommissionAmount(b)
  BY DEF CallOf
<1> HIDE DEF c
<1>4. CallShares'
  BY <1>2, <1>3, RestStep, CallGets DEF SharesOK
<1> QED BY <1>4 DEF SaveProcessing, redisVars, SharesOK, QueueShares, RetryShares, HandShares

\* The next job carries its item's share, and the rest is left.
LEMMA EnqueueJobShares ==
    ASSUME IInv, SharesOK, NEW s \in Sessions, EnqueueJob(s)
    PROVE  SharesOK'
<1>1. PICK c \in CallRow : c = call[s]
  BY DEF IInv, CallsOK
<1>2. PICK b \in Batches : b = c.batch
  BY <1>1 DEF EnqueueJob, IInv, CallsOK, CallOK
<1>3. c.pc = "enqueueing" /\ c.next \in 1..ItemCount(b) /\ c.remaining = Rest(b, c.next)
  BY <1>1, <1>2 DEF EnqueueJob, IInv, CallsOK, CallOK, SharesOK, CallShares
<1>4. PICK i \in Items : i = ItemsOf[b][c.next] /\ BatchOf(i) = b
  BY <1>3, AmountsType, BatchOfUnique
<1>5. PICK last \in BOOLEAN : last <=> (c.next = ItemCount(b))
  OBVIOUS
<1>6. PICK share : share = AllocateItemCommission(TotalAmount(b), CommissionAmount(b), Amount[i],
                                                  c.remaining, last)
  OBVIOUS
<1>7. share = Share(i) /\ (~last => c.remaining - share = Rest(b, c.next + 1))
  BY <1>3, <1>4, <1>5, <1>6, EnqueuedShare
<1> DEFINE j == [item |-> i, commission |-> share, attempt |-> 0, ref |-> FALSE]
           d == IF last THEN NoCall
                ELSE CallOf("enqueueing", b, c.user, c.row, c.next + 1, c.remaining - share)
<1>8. queue' = Append(queue, j) /\ call' = [call EXCEPT ![s] = d]
  <2>1. AllocateItemCommission(TotalAmount(c.batch), CommissionAmount(c.batch), Amount[i],
                               c.remaining, IsLast(c)) = share
    BY <1>2, <1>5, <1>6, Zenon DEF IsLast
  <2> QED BY <1>1, <1>2, <1>4, <1>5, <2>1, Zenon DEF EnqueueJob, IsLast
<1>9. j \in ShareJob
  BY <1>7, ShareType DEF ShareJob, Job
<1>10. d.pc = "enqueueing" => d.remaining = Rest(d.batch, d.next)
  <2>1. CASE last
    BY <2>1, FreshTypes
  <2>2. CASE ~last
    BY <1>7, <2>2 DEF CallOf
  <2> QED BY <2>1, <2>2
<1> HIDE DEF j, d
<1>11. QueueShares' /\ CallShares'
  BY <1>8, <1>9, <1>10, QueueGets, CallGets DEF SharesOK
<1> QED BY <1>11 DEF EnqueueJob, SharesOK, RetryShares, HandShares

\* A job keeps its share in the hands of a worker.
LEMMA WorkerShares ==
    ASSUME IInv, SharesOK, NEW w \in Workers, WorkerStep(w)
    PROVE  SharesOK'
<1>1. UNCHANGED <<call, sched>>
  BY DEF WorkerStep, PopJob, CallGateway, FinishItem, SettleItem, NotifyIfBatchDone,
         MarkRetrying, ScheduleRetry
<1>2. worker[w].pc # "idle" => worker[w].job \in ShareJob
  BY DEF SharesOK, HandShares
<1>4. CASE PopJob(w)
  <2>1. PICK j : j = Head(queue)
    OBVIOUS
  <2>2. j \in ShareJob /\ QueueShares'
    BY <1>4, <2>1 DEF PopJob, IInv, RedisOK, SharesOK, QueueShares
  <2>3. \E pc, paid : worker' = [worker EXCEPT ![w] = WorkerAt(pc, j, paid)]
    BY <1>4, <2>1, Zenon DEF PopJob
  <2>4. UNCHANGED retry
    BY <1>4 DEF PopJob
  <2> QED BY <1>1, <2>2, <2>3, <2>4, HandGoesOn DEF SharesOK, RetryShares, CallShares
<1>5. CASE CallGateway(w)
  <2> DEFINE j == worker[w].job
  <2>1. j \in ShareJob /\ j \in Job
    BY <1>2, <1>5 DEF CallGateway, ShareJob
  <2>2. PICK a \in Answers(OperatorOf[j.item], j.ref) :
         LET known == [j EXCEPT !.ref = @ \/ a.ref] IN
          worker' = [worker EXCEPT ![w] =
             IF a.status = "success" THEN WorkerAt("finish", known, TRUE)
             ELSE IF AttemptsLeft(j) THEN WorkerAt("retry", known, FALSE)
             ELSE WorkerAt("finish", known, FALSE)]
    BY <1>5 DEF CallGateway
  <2>3. PICK known : known = [j EXCEPT !.ref = (j.ref \/ a.ref)]
    OBVIOUS
  <2>4. known \in ShareJob
    <3>1. (j.ref \/ a.ref) \in BOOLEAN
      OBVIOUS
    <3> QED BY <2>1, <2>3, <3>1 DEF ShareJob, Job
  <2>5. \E pc, paid : worker' = [worker EXCEPT ![w] = WorkerAt(pc, known, paid)]
    BY <2>2, <2>3, Zenon
  <2>6. HandShares'
    BY <2>4, <2>5, HandGoesOn DEF SharesOK
  <2>7. UNCHANGED <<queue, retry>>
    BY <1>5 DEF CallGateway, redisVars
  <2> QED BY <1>1, <2>6, <2>7 DEF SharesOK, QueueShares, RetryShares, CallShares
<1>6. CASE FinishItem(w) \/ SettleItem(w)
  <2>1. PICK j \in ShareJob : j = worker[w].job
    BY <1>2, <1>6 DEF FinishItem, SettleItem
  <2>2. \E pc, paid : worker' = [worker EXCEPT ![w] = WorkerAt(pc, j, paid)]
    BY <1>6, <2>1, Zenon DEF FinishItem, SettleItem
  <2>3. HandShares'
    BY <2>1, <2>2, HandGoesOn DEF SharesOK
  <2>4. UNCHANGED <<queue, retry>>
    BY <1>6 DEF FinishItem, SettleItem, redisVars
  <2> QED BY <1>1, <2>3, <2>4 DEF SharesOK, QueueShares, RetryShares, CallShares
<1>7. CASE NotifyIfBatchDone(w) \/ ScheduleRetry(w)
  <2>1. worker' = [worker EXCEPT ![w] = Resting] /\ UNCHANGED queue
    BY <1>7 DEF NotifyIfBatchDone, ScheduleRetry, redisVars
  <2>2. HandShares'
    BY <2>1, FreshTypes, HandGets DEF SharesOK
  <2>3. RetryShares'
    BY <1>1, <1>2, <1>7
       DEF NotifyIfBatchDone, ScheduleRetry, redisVars, SharesOK, RetryShares
  <2> QED BY <1>1, <2>1, <2>2, <2>3 DEF SharesOK, QueueShares, CallShares
<1>8. CASE MarkRetrying(w)
  <2>1. PICK j \in ShareJob : j = worker[w].job
    BY <1>2, <1>8 DEF MarkRetrying
  <2>2. PICK next : next = [j EXCEPT !.attempt = @ + 1]
    OBVIOUS
  <2>3. next \in ShareJob
    BY <2>2 DEF ShareJob, Job
  <2>4. \E pc, paid : worker' = [worker EXCEPT ![w] = WorkerAt(pc, next, paid)]
    BY <1>8, <2>1, <2>2, Zenon DEF MarkRetrying
  <2>5. HandShares'
    BY <2>3, <2>4, HandGoesOn DEF SharesOK
  <2>6. UNCHANGED <<queue, retry>>
    BY <1>8 DEF MarkRetrying, redisVars
  <2> QED BY <1>1, <2>5, <2>6 DEF SharesOK, QueueShares, RetryShares, CallShares
<1> QED BY <1>4, <1>5, <1>6, <1>7, <1>8 DEF WorkerStep

\* ... in the hands of the scheduler ...
LEMMA SchedulerShares ==
    ASSUME IInv, SharesOK, SchedulerStep
    PROVE  SharesOK'
<1>1. HandShares' /\ CallShares'
  BY DEF SchedulerStep, FetchDue, PushDue, RemoveDue, SharesOK, HandShares, CallShares
<1>2. CASE FetchDue \/ RemoveDue
  <2>1. UNCHANGED queue /\ retry' \subseteq retry /\ sched'.todo \subseteq retry \cup sched.todo
    BY <1>2 DEF FetchDue, RemoveDue, redisVars, NoMoves, IInv, RedisOK
  <2> QED BY <1>1, <2>1 DEF SharesOK, QueueShares, RetryShares
<1>3. CASE PushDue
  <2>1. PICK j \in sched.todo : /\ queue' = Append(queue, j) /\ UNCHANGED retry
                                /\ sched' = [todo |-> sched.todo \ {j}, half |-> j]
    BY <1>3 DEF PushDue
  <2>2. j \in ShareJob
    BY DEF SharesOK, RetryShares
  <2> QED BY <1>1, <2>1, <2>2, QueueGets DEF SharesOK, RetryShares
<1> QED BY <1>2, <1>3 DEF SchedulerStep

\* ... and when hands are emptied.
LEMMA FaultShares ==
    ASSUME IInv, SharesOK, FaultStep
    PROVE  SharesOK'
<1>1. UNCHANGED <<queue, retry>> /\ (sched' = sched \/ sched' = NoMoves)
  BY DEF FaultStep, WorkerFails, EnqueueFails, SchedulerFails, Crash, Fault, redisVars
<1>2. QueueShares' /\ RetryShares'
  BY <1>1 DEF SharesOK, QueueShares, RetryShares, NoMoves
<1>3. HandShares'
  <2>1. CASE UNCHANGED worker
    BY <2>1 DEF SharesOK, HandShares
  <2>2. ASSUME NEW w \in Workers, worker' = [worker EXCEPT ![w] = Resting] PROVE HandShares'
    BY <2>2, FreshTypes, HandGets DEF SharesOK
  <2>3. CASE worker' = [w \in Workers |-> Resting]
    BY <2>3, FreshTypes DEF HandShares
  <2> QED BY <2>1, <2>2, <2>3 DEF FaultStep, WorkerFails, EnqueueFails, SchedulerFails, Crash
<1>4. CallShares'
  <2>1. CASE UNCHANGED call
    BY <2>1 DEF SharesOK, CallShares
  <2>2. ASSUME NEW s \in Sessions, call' = [call EXCEPT ![s] = NoCall] PROVE CallShares'
    BY <2>2, FreshTypes, CallGets DEF SharesOK
  <2>3. CASE call' = [s \in Sessions |-> NoCall]
    BY <2>3, FreshTypes DEF CallShares
  <2> QED BY <2>1, <2>2, <2>3 DEF FaultStep, WorkerFails, EnqueueFails, SchedulerFails, Crash
<1> QED BY <1>2, <1>3, <1>4 DEF SharesOK

\* Every job there is, wherever it is, carries exactly the share of the commission
\* that its item is due, and what a request has left to divide is what the items
\* it has not reached are due (batch.go:224-253, 260-273).
THEOREM SharesHold == Spec => []SharesOK
<1>1. Init => SharesOK
  BY FreshTypes DEF Init, NoMoves, SharesOK, QueueShares, RetryShares, HandShares, CallShares
<1>2. IInv /\ SharesOK /\ [Next]_vars => SharesOK'
  <2> SUFFICES ASSUME IInv, SharesOK, [Next]_vars PROVE SharesOK'
    OBVIOUS
  <2>1. CASE UNCHANGED <<queue, retry, sched, worker, call>>
    BY <2>1 DEF SharesOK, QueueShares, RetryShares, HandShares, CallShares
  <2>2. ASSUME NEW s \in Sessions, NEW u \in Users, NEW b \in Batches,
               ReadToValidate(s, u, b) \/ ReadToExecute(s, u, b)
        PROVE  SharesOK'
    <3>1. PICK pc \in {"validating", "executing"} :
             call' = [call EXCEPT ![s] = CallOf(pc, b, u, batch[b], 1, 0)]
      BY <2>2, Zenon DEF ReadToValidate, ReadToExecute
    <3>2. CallOf(pc, b, u, batch[b], 1, 0).pc = pc
      BY DEF CallOf
    <3>3. CallShares'
      BY <3>1, <3>2, CallGets DEF SharesOK
    <3> QED BY <2>2, <3>3 DEF ReadToValidate, ReadToExecute, redisVars, SharesOK, QueueShares,
                              RetryShares, HandShares
  <2>3. ASSUME NEW s \in Sessions, SaveValidated(s) PROVE SharesOK'
    <3>1. CallShares'
      BY <2>3, FreshTypes, CallGets DEF SaveValidated, SharesOK
    <3> QED BY <2>3, <3>1 DEF SaveValidated, redisVars, SharesOK, QueueShares, RetryShares,
                              HandShares
  <2>4. CASE UserStep
    BY <2>1, <2>2, <2>4 DEF UserStep, Create, redisVars, historyVars
  <2>5. CASE \E s \in Sessions : RequestStep(s)
    BY <2>3, <2>5, SaveProcessingShares, EnqueueJobShares DEF RequestStep
  <2> QED BY <2>1, <2>4, <2>5, WorkerShares, SchedulerShares, FaultShares DEF Next, vars
<1> QED BY <1>1, <1>2, IInvHolds, PTL DEF Spec

-----------------------------------------------------------------------------
(***************************************************************************)
(* What Disbursement promises while it runs in order: the requests on one  *)
(* batch take turns, and neither the process nor the scheduler's pipeline  *)
(* stops between two of its commands.  The code ensures neither (run       *)
(* two_executes shows what two requests at once do); workers still fail,   *)
(* pipelines of Execute still break, and everything else interleaves.      *)
(*                                                                         *)
(* Then the job of an item is in one place at a time: owed by a request,   *)
(* in the list, in the retry set, in a worker's hands, or settled.  The    *)
(* invariant says so, and what is known of the item at each place.         *)
(***************************************************************************)

\* No two requests on the same batch are in progress at a time.
TakeTurns ==
    \A s, t \in Sessions :
        call[s].pc # "idle" /\ call[t].pc # "idle" /\ call[s].batch = call[t].batch => s = t

\* The faults that are left: a worker drops its job, an Execute stops enqueueing.
NoTornMoves == "scheduler" \notin FaultKinds /\ "crash" \notin FaultKinds

-----------------------------------------------------------------------------
(* Where the job of an item is.                                            *)

Waiting == retry \ {sched.half}

Busy(w) == worker[w].pc \notin {"idle", "notify"}

Owed(s, i) ==
    /\ call[s].pc = "enqueueing"
    /\ \E k \in call[s].next..ItemCount(call[s].batch) : ItemsOf[call[s].batch][k] = i

Awaited == {i \in Items : \E s \in Sessions : Owed(s, i)}
Queued  == {i \in Items : \E k \in DOMAIN queue : queue[k].item = i}
Parked  == {i \in Items : \E j \in Waiting : j.item = i}
Held    == {i \in Items : \E w \in Workers : Busy(w) /\ worker[w].job.item = i}
Settled == {i \in Items : Settlements(i) > 0}

Placed == Awaited \cup Queued \cup Parked \cup Held \cup Settled

\* The places exclude one another.
Exclusive ==
    /\ Awaited \cap (Queued \cup Parked \cup Held \cup Settled) = {}
    /\ Queued \cap (Parked \cup Held \cup Settled) = {}
    /\ Parked \cap (Held \cup Settled) = {}
    /\ Held \cap Settled = {}

Started(b) == batch[b].status \notin {"none", "draft", "validated"}

Open(i) == item[i].status \in {"pending", "retrying"}

\* A job that is still to be tried, for an item that has had as many tries.
Fits(j) == Open(j.item) /\ item[j.item].attempts = j.attempt

-----------------------------------------------------------------------------
(* The invariant, one part for each place.                                 *)

\* A copy of a batch row in a request's hands is no older than the row.
RequestsOrderly ==
    /\ \A s \in Sessions :
          call[s].pc \in {"validating", "executing"} => call[s].row = batch[call[s].batch]
    /\ \A i \in Awaited : Open(i) /\ item[i].attempts = 0

QueueOrderly ==
    /\ \A k, m \in DOMAIN queue : queue[k].item = queue[m].item => k = m
    /\ \A k \in DOMAIN queue : Fits(queue[k])

RetryOrderly ==
    /\ \A j, l \in Waiting : j.item = l.item => j = l
    /\ \A j \in Waiting : Fits(j)
    /\ sched.todo \subseteq Waiting

HandOrderly(w) ==
    LET j == worker[w].job IN
    /\ worker[w].pc \in {"call", "finish", "retry", "schedule"} => Fits(j)
    /\ worker[w].pc = "retry" => j.attempt < MaxRetries - 1
    /\ worker[w].pc = "settle" =>
          item[j.item].status = IF worker[w].paid THEN "success" ELSE "failed"

HandsOrderly ==
    /\ \A w, x \in Workers :
          Busy(w) /\ Busy(x) /\ worker[w].job.item = worker[x].job.item => w = x
    /\ \A w \in Workers : HandOrderly(w)

ItemOrderly(i) ==
    LET stage == batch[BatchOf(i)].status IN
    /\ item[i].status = "none" <=> stage = "none"
    /\ ~Started(BatchOf(i)) => item[i].attempts = 0 /\ item[i].status \in {"none", "pending"}
    /\ i \in Placed => Started(BatchOf(i))
    /\ item[i].attempts > 0 => item[i].attempts < MaxRetries
    /\ settled[i].charged > 0 => item[i].status = "success"
    /\ settled[i].refunded > 0 => item[i].status = "failed"
    /\ Settlements(i) <= 1

ItemsOrderly == Exclusive /\ \A i \in Items : ItemOrderly(i)

Orderly == RequestsOrderly /\ QueueOrderly /\ RetryOrderly /\ HandsOrderly /\ ItemsOrderly

-----------------------------------------------------------------------------
(* What a step leaves alone.                                               *)

USE DisbursementAssumption

\* The items of the jobs about are items.
LEMMA JobsAbout ==
    ASSUME IInv
    PROVE  /\ \A k \in DOMAIN queue : queue[k] \in Job /\ queue[k].item \in Items
           /\ \A j \in retry : j \in Job /\ j.item \in Items /\ j # NoJob
           /\ \A w \in Workers : Busy(w) => worker[w].job \in Job /\ worker[w].job.item \in Items
           /\ sched.half # NoJob => sched.half \in Job /\ sched.half.item \in Items
           /\ sched.todo \subseteq Job
<1>1. \A j \in LaunchedJob : j \in Job /\ j.item \in Items /\ j # NoJob
  <2>1. NoJob \notin Job
    BY DEF ConstantAssumption
  <2>2. \A j \in Job : j.item \in Items
    BY DEF Job
  <2> QED BY <2>1, <2>2 DEF LaunchedJob
<1>2. \A k \in DOMAIN queue : queue[k] \in LaunchedJob
  BY DEF IInv, RedisOK
<1>3. /\ retry \subseteq LaunchedJob /\ sched.todo \subseteq LaunchedJob
      /\ sched.half \in LaunchedJob \cup {NoJob}
  BY DEF IInv, RedisOK
<1>4. \A w \in Workers : Busy(w) => worker[w].job \in LaunchedJob
  BY DEF IInv, WorkersOK, Busy
<1> QED BY <1>1, <1>2, <1>3, <1>4

\* An item that is not settled.
LEMMA Unsettled ==
    ASSUME IInv, NEW i \in Items, i \notin Settled
    PROVE  Settlements(i) = 0 /\ settled[i].charged = 0 /\ settled[i].refunded = 0
<1>1. settled[i].charged \in Nat /\ settled[i].refunded \in Nat
  BY DEF IInv, RecordsOK
<1> QED BY <1>1 DEF Settled, Settlements

\* A place that no step touches.
LEMMA PlacesUntouched ==
    /\ UNCHANGED call => Awaited' = Awaited
    /\ UNCHANGED queue => Queued' = Queued
    /\ UNCHANGED <<retry, sched>> => Parked' = Parked
    /\ UNCHANGED worker => Held' = Held
    /\ UNCHANGED settled => Settled' = Settled
BY DEF Awaited, Owed, Queued, Parked, Waiting, Held, Busy, Settled, Settlements

\* The requests, when no row of theirs is written and no item they owe.
LEMMA RequestsUntouched ==
    ASSUME RequestsOrderly, UNCHANGED call,
           \A s \in Sessions : call[s].pc \in {"validating", "executing"} =>
                                  batch'[call[s].batch] = batch[call[s].batch],
           \A i \in Awaited : item'[i] = item[i]
    PROVE  RequestsOrderly'
BY PlacesUntouched DEF RequestsOrderly, Open

\* The list, when no item in it is written.
LEMMA QueueUntouched ==
    ASSUME IInv, QueueOrderly, UNCHANGED queue,
           \A i \in Queued : item'[i] = item[i]
    PROVE  QueueOrderly'
BY JobsAbout DEF QueueOrderly, Queued, Fits, Open

\* The retry set, when no item in it is written.
LEMMA RetryUntouched ==
    ASSUME IInv, RetryOrderly, UNCHANGED <<retry, sched>>,
           \A i \in Parked : item'[i] = item[i]
    PROVE  RetryOrderly'
BY JobsAbout DEF RetryOrderly, Parked, Waiting, Fits, Open

\* The workers' hands, when no item in them is written.
LEMMA HandsUntouched ==
    ASSUME IInv, HandsOrderly, UNCHANGED worker,
           \A i \in Held : item'[i] = item[i]
    PROVE  HandsOrderly'
BY JobsAbout DEF HandsOrderly, HandOrderly, Held, Fits, Open, Busy

\* One worker does something with an item that no other has.
LEMMA HandMoves ==
    ASSUME IInv, HandsOrderly, NEW w \in Workers, NEW v,
           worker' = [worker EXCEPT ![w] = v], HandOrderly(w)',
           \A x \in Workers : x # w /\ Busy(x) =>
              /\ v.pc \in {"idle", "notify"} \/ worker[x].job.item # v.job.item
              /\ item'[worker[x].job.item] = item[worker[x].job.item]
    PROVE  HandsOrderly'
<1>1. \A x \in Workers : worker'[x] = IF x = w THEN v ELSE worker[x]
  BY DEF IInv, WorkersOK
<1>2. \A x \in Workers : x # w => HandOrderly(x)'
  BY <1>1 DEF HandsOrderly, HandOrderly, Fits, Open, Busy
<1>3. \A x, y \in Workers : (Busy(x) /\ Busy(y) /\ worker[x].job.item = worker[y].job.item)'
                               => x = y
  BY <1>1 DEF HandsOrderly, Busy
<1> QED BY <1>2, <1>3 DEF HandsOrderly

\* The items, when only places change.
LEMMA ItemsMoved ==
    ASSUME ItemsOrderly, UNCHANGED <<item, batch, settled>>,
           Placed' \subseteq Placed, Exclusive'
    PROVE  ItemsOrderly'
BY DEF ItemsOrderly, ItemOrderly, Started, Settlements

\* A step that moves nothing.
LEMMA NothingMoves ==
    ASSUME IInv, Orderly, UNCHANGED <<batch, item, call, queue, retry, worker, sched, settled>>
    PROVE  Orderly'
<1>1. RequestsOrderly' /\ QueueOrderly' /\ RetryOrderly' /\ HandsOrderly'
  BY RequestsUntouched, QueueUntouched, RetryUntouched, HandsUntouched DEF Orderly
<1>2. ItemsOrderly'
  BY ItemsMoved, PlacesUntouched DEF Orderly, ItemsOrderly, Exclusive, Placed
<1> QED BY <1>1, <1>2 DEF Orderly

\* A worker goes on with its item, or drops it.
LEMMA SameHand ==
    ASSUME IInv, Orderly, NEW w \in Workers, NEW v, worker' = [worker EXCEPT ![w] = v],
           UNCHANGED <<batch, item, call, queue, retry, sched, settled>>,
           \/ v.pc = "idle"
           \/ Busy(w) /\ v.job.item = worker[w].job.item,
           HandOrderly(w)'
    PROVE  Orderly'
<1>0. \A x \in Workers : worker'[x] = IF x = w THEN v ELSE worker[x]
  BY DEF IInv, WorkersOK
<1>1. Held' \subseteq Held
  BY <1>0 DEF Held, Busy
<1>2. HandsOrderly'
  BY HandMoves DEF Orderly, HandsOrderly
<1>3. RequestsOrderly' /\ QueueOrderly' /\ RetryOrderly'
  BY RequestsUntouched, QueueUntouched, RetryUntouched DEF Orderly
<1>4. ItemsOrderly'
  BY <1>1, ItemsMoved, PlacesUntouched DEF Orderly, ItemsOrderly, Exclusive, Placed
<1> QED BY <1>2, <1>3, <1>4 DEF Orderly

-----------------------------------------------------------------------------
(* The workers.                                                            *)

\* The oldest job leaves the list for the worker's hands.
LEMMA PopJobOrderly ==
    ASSUME IInv, Orderly, NEW w \in Workers, PopJob(w)
    PROVE  Orderly'
<1> DEFINE v == WorkerAt("call", Head(queue), FALSE)
<1>1. /\ queue # << >> /\ queue' = Tail(queue) /\ worker' = [worker EXCEPT ![w] = v]
      /\ UNCHANGED <<batch, item, call, retry, sched, settled>>
  BY DEF PopJob, historyVars
<1>2. PICK i \in Items : i = queue[1].item
  BY <1>1, JobsAbout DEF IInv, RedisOK
<1>3. /\ v.pc = "call" /\ v.job = queue[1] /\ 1 \in DOMAIN queue
      /\ \A k \in DOMAIN queue' : k + 1 \in DOMAIN queue /\ queue'[k] = queue[k + 1] /\ k + 1 # 1
  BY <1>1 DEF IInv, RedisOK, WorkerAt
<1>4. \A x \in Workers : worker'[x] = IF x = w THEN v ELSE worker[x]
  BY <1>1 DEF IInv, WorkersOK
<1> HIDE DEF v
<1>5. i \in Queued /\ Queued' \subseteq Queued \ {i} /\ Held' \subseteq Held \cup {i}
  <2>1. Queued' \subseteq Queued \ {i}
    BY <1>2, <1>3 DEF Queued, Orderly, QueueOrderly
  <2>2. Held' \subseteq Held \cup {i}
    BY <1>2, <1>3, <1>4 DEF Held, Busy
  <2> QED BY <1>2, <1>3, <2>1, <2>2 DEF Queued
<1>6. QueueOrderly'
  <2>1. ASSUME NEW k \in DOMAIN queue', NEW m \in DOMAIN queue',
               queue'[k].item = queue'[m].item
        PROVE  k = m
    <3>1. k \in Int /\ m \in Int
      BY <1>1 DEF IInv, RedisOK
    <3> QED BY <1>3, <2>1, <3>1 DEF Orderly, QueueOrderly
  <2>2. (\A k \in DOMAIN queue : Fits(queue[k]))'
    BY <1>1, <1>3 DEF Orderly, QueueOrderly, Fits, Open
  <2> QED BY <2>1, <2>2 DEF QueueOrderly
<1>7. HandsOrderly'
  <2>1. HandOrderly(w)'
    BY <1>1, <1>3, <1>4 DEF Orderly, QueueOrderly, HandOrderly, Fits, Open
  <2>2. \A x \in Workers : x # w /\ Busy(x) => worker[x].job.item # v.job.item
    BY <1>2, <1>3, <1>5, JobsAbout DEF Orderly, ItemsOrderly, Exclusive, Held
  <2> QED BY <1>1, <2>1, <2>2, HandMoves DEF Orderly
<1>8. RequestsOrderly' /\ RetryOrderly'
  BY <1>1, RequestsUntouched, RetryUntouched DEF Orderly
<1>9. ItemsOrderly'
  <2>1. ItemsOrderly /\ UNCHANGED <<item, batch, settled>>
    BY <1>1 DEF Orderly
  <2>2. Awaited' = Awaited /\ Parked' = Parked /\ Settled' = Settled
    BY <1>1, PlacesUntouched
  <2>3. Placed' \subseteq Placed /\ Exclusive'
    BY <1>5, <2>1, <2>2 DEF ItemsOrderly, Exclusive, Placed
  <2> QED BY <2>1, <2>3, ItemsMoved
<1> QED BY <1>6, <1>7, <1>8, <1>9 DEF Orderly

\* The operator's answer: a retry only while attempts are left.
LEMMA CallGatewayOrderly ==
    ASSUME IInv, Orderly, NEW w \in Workers, CallGateway(w)
    PROVE  Orderly'
<1> DEFINE j == worker[w].job
<1>1. /\ worker[w].pc = "call" /\ Busy(w)
      /\ UNCHANGED <<batch, item, call, queue, retry, sched, settled>>
  BY DEF CallGateway, redisVars, historyVars, Busy
<1>2. PICK a \in Answers(OperatorOf[j.item], j.ref) :
         LET known == [j EXCEPT !.ref = @ \/ a.ref] IN
          worker' = [worker EXCEPT ![w] =
             IF a.status = "success" THEN WorkerAt("finish", known, TRUE)
             ELSE IF AttemptsLeft(j) THEN WorkerAt("retry", known, FALSE)
             ELSE WorkerAt("finish", known, FALSE)]
  BY DEF CallGateway
<1>3. PICK known : known = [j EXCEPT !.ref = @ \/ a.ref]
  OBVIOUS
<1>4. known.item = j.item /\ known.attempt = j.attempt
  BY <1>1, <1>3, JobsAbout DEF Job
<1>5. \E pc \in {"finish", "retry"}, paid \in BOOLEAN :
         /\ worker' = [worker EXCEPT ![w] = WorkerAt(pc, known, paid)]
         /\ pc = "retry" => AttemptsLeft(j)
  BY <1>2, <1>3, Zenon
<1>6. PICK v : /\ worker' = [worker EXCEPT ![w] = v] /\ v.job = known
               /\ v.pc \in {"finish", "retry"} /\ (v.pc = "retry" => AttemptsLeft(j))
  <2>1. PICK pc \in {"finish", "retry"}, paid \in BOOLEAN :
           /\ worker' = [worker EXCEPT ![w] = WorkerAt(pc, known, paid)]
           /\ pc = "retry" => AttemptsLeft(j)
    BY <1>5
  <2>2. WorkerAt(pc, known, paid).job = known /\ WorkerAt(pc, known, paid).pc = pc
    BY DEF WorkerAt
  <2> QED BY <2>1, <2>2
<1>7. HandOrderly(w)'
  <2>1. worker'[w] = v
    BY <1>6 DEF IInv, WorkersOK
  <2>2. Fits(j)
    BY <1>1 DEF Orderly, HandsOrderly, HandOrderly
  <2> QED BY <1>1, <1>4, <1>6, <2>1, <2>2 DEF HandOrderly, Fits, Open, AttemptsLeft
<1> QED BY <1>1, <1>4, <1>6, <1>7, SameHand

\* Whatever a worker that has settled its item announces.
LEMMA NotifyOrderly ==
    ASSUME IInv, Orderly, NEW w \in Workers, NotifyIfBatchDone(w)
    PROVE  Orderly'
<1>1. PICK v : worker' = [worker EXCEPT ![w] = v] /\ v.pc = "idle"
  <2>1. Resting.pc = "idle"
    BY DEF Resting
  <2>2. worker' = [worker EXCEPT ![w] = Resting]
    BY DEF NotifyIfBatchDone
  <2> QED BY <2>1, <2>2, Zenon
<1>2. UNCHANGED <<batch, item, call, queue, retry, sched, settled>>
  BY DEF NotifyIfBatchDone, redisVars
<1>3. HandOrderly(w)'
  BY <1>1 DEF HandOrderly, IInv, WorkersOK
<1> QED BY <1>1, <1>2, <1>3, SameHand

\* One more settlement of an item, a charge or a refund.
SettledOnce(i, paid) ==
    /\ settled'[i].charged = settled[i].charged + (IF paid THEN 1 ELSE 0)
    /\ settled'[i].refunded = settled[i].refunded + (IF paid THEN 0 ELSE 1)
    /\ \A k \in Items \ {i} : settled'[k] = settled[k]

\* What SettleItem records, and with which commission.
LEMMA SettleItemRecords ==
    ASSUME IInv, NEW w \in Workers, SettleItem(w)
    PROVE  LET j == worker[w].job IN
           /\ SettledOnce(j.item, worker[w].paid)
           /\ settled'[j.item].carried = settled[j.item].carried + j.commission
<1>1. PICK i \in Items, c \in Nat, paid \in BOOLEAN :
         i = worker[w].job.item /\ c = worker[w].job.commission /\ paid = worker[w].paid
  BY WorkerBusy DEF SettleItem, Job
<1>2. PICK old \in [Items -> [charged : Nat, refunded : Nat, carried : Nat]] : old = settled
  BY DEF IInv, RecordsOK
<1>3. settled' = [old EXCEPT ![i] = SettledRow(old[i], paid, c)]
  BY <1>1, <1>2 DEF SettleItem
<1>4. /\ settled'[i].charged = old[i].charged + (IF paid THEN 1 ELSE 0)
      /\ settled'[i].refunded = old[i].refunded + (IF paid THEN 0 ELSE 1)
      /\ settled'[i].carried = old[i].carried + c
      /\ \A k \in Items \ {i} : settled'[k] = old[k]
  BY <1>2, <1>3 DEF SettledRow
<1> QED BY <1>1, <1>2, <1>4 DEF SettledOnce

\* The worker's item is settled, once.
LEMMA SettleItemOrderly ==
    ASSUME IInv, Orderly, NEW w \in Workers, SettleItem(w)
    PROVE  Orderly'
<1> DEFINE i == worker[w].job.item
           v == WorkerAt("notify", worker[w].job, worker[w].paid)
<1>1. worker' = [worker EXCEPT ![w] = v] /\ v.pc = "notify"
  <2>1. worker' = [worker EXCEPT ![w] = v]
    BY Zenon DEF SettleItem
  <2> QED BY <2>1 DEF WorkerAt
<1> HIDE DEF v
<1>2. /\ worker[w].pc = "settle" /\ Busy(w) /\ i \in Items
      /\ UNCHANGED <<batch, item, call, queue, retry, sched>>
      /\ SettledOnce(i, worker[w].paid)
  BY JobsAbout, SettleItemRecords DEF SettleItem, redisVars, Busy
<1>3. \A x \in Workers : worker'[x] = IF x = w THEN v ELSE worker[x]
  BY <1>1 DEF IInv, WorkersOK
<1>4. /\ settled[i].charged \in Nat /\ settled[i].refunded \in Nat
      /\ \A k \in Items \ {i} : settled'[k] = settled[k]
  BY <1>2 DEF SettledOnce, IInv, RecordsOK
<1>5. i \in Held /\ i \notin Settled
  BY <1>2 DEF Held, Orderly, ItemsOrderly, Exclusive
<1>6. Held' \subseteq Held \ {i}
  BY <1>1, <1>2, <1>3 DEF Held, Busy, Orderly, HandsOrderly
<1>7. /\ settled[i].charged = 0 /\ settled[i].refunded = 0
      /\ settled'[i].charged + settled'[i].refunded = 1
      /\ settled'[i].charged > 0 => worker[w].paid
      /\ settled'[i].refunded > 0 => ~worker[w].paid
  <2>1. ~(settled[i].charged + settled[i].refunded > 0)
    BY <1>2, <1>5, Zenon DEF Settled, Settlements
  <2> HIDE DEF i
  <2>2. settled[i].charged = 0 /\ settled[i].refunded = 0
    BY <1>4, <2>1
  <2> QED BY <1>2, <2>2 DEF SettledOnce
<1>8. Settled' \subseteq Settled \cup {i}
  BY <1>4 DEF Settled, Settlements
<1>9. HandsOrderly'
  <2>1. HandOrderly(w)'
    BY <1>1, <1>3 DEF HandOrderly
  <2> QED BY <1>1, <1>2, <2>1, HandMoves DEF Orderly
<1>10. RequestsOrderly' /\ QueueOrderly' /\ RetryOrderly'
  BY <1>2, RequestsUntouched, QueueUntouched, RetryUntouched DEF Orderly
<1>11. Exclusive' /\ Placed' \subseteq Placed
  BY <1>2, <1>5, <1>6, <1>8, PlacesUntouched DEF Orderly, ItemsOrderly, Exclusive, Placed
<1>12. ASSUME NEW k \in Items PROVE ItemOrderly(k)'
  <2>1. ItemOrderly(k) /\ (k \in Placed' => k \in Placed)
    BY <1>11 DEF Orderly, ItemsOrderly
  <2>2. CASE k # i
    BY <1>2, <1>4, <2>1, <2>2 DEF ItemOrderly, Started, Settlements
  <2>3. CASE k = i
    <3>1. item[i].status = IF worker[w].paid THEN "success" ELSE "failed"
      BY <1>2 DEF Orderly, HandsOrderly, HandOrderly
    <3> QED BY <1>2, <1>7, <2>1, <2>3, <3>1 DEF ItemOrderly, Started, Settlements
  <2> QED BY <2>2, <2>3
<1> QED BY <1>9, <1>10, <1>11, <1>12 DEF Orderly, ItemsOrderly

\* The verdict on the worker's item, which nobody else is about to try.
LEMMA FinishItemOrderly ==
    ASSUME IInv, Orderly, NEW w \in Workers, FinishItem(w)
    PROVE  Orderly'
<1>1. PICK j \in Job, b \in Batches :
         /\ j = worker[w].job /\ j.item \in Items /\ b = BatchOf(j.item)
         /\ Launched(b)
  BY WorkerBusy DEF FinishItem
<1> DEFINE v == WorkerAt("settle", j, worker[w].paid)
<1>2. /\ worker' = [worker EXCEPT ![w] = v]
      /\ v.job = j /\ v.pc = "settle" /\ v.paid = worker[w].paid
  <2>1. worker' = [worker EXCEPT ![w] = v]
    BY <1>1, Zenon DEF FinishItem
  <2> QED BY <2>1 DEF WorkerAt
<1> HIDE DEF v
<1>3. /\ worker[w].pc = "finish" /\ Busy(w)
      /\ UNCHANGED <<call, queue, retry, sched, settled>>
      /\ item' = [item EXCEPT ![j.item] =
                       IF worker[w].paid THEN [@ EXCEPT !.status = "success", !.ref = j.ref]
                                         ELSE [@ EXCEPT !.status = "failed", !.ref = FALSE]]
  BY <1>1 DEF FinishItem, redisVars, historyVars, Busy
<1>4. \A x \in Workers : worker'[x] = IF x = w THEN v ELSE worker[x]
  BY <1>2 DEF IInv, WorkersOK
<1>5. /\ item \in [Items -> ItemRow] /\ Fits(j)
      /\ item'[j.item].attempts = item[j.item].attempts
      /\ item'[j.item].status = IF worker[w].paid THEN "success" ELSE "failed"
      /\ \A k \in Items \ {j.item} : item'[k] = item[k]
  BY <1>1, <1>3 DEF IInv, RecordsOK, ItemRow, Orderly, HandsOrderly, HandOrderly
<1>6. j.item \in Held /\ Held' \subseteq Held
  BY <1>1, <1>2, <1>3, <1>4 DEF Held, Busy
<1>7. j.item \notin Awaited \cup Queued \cup Parked \cup Settled /\ Started(b)
  BY <1>1, <1>6 DEF Orderly, ItemsOrderly, Exclusive, ItemOrderly, Placed
<1>8. /\ \A c \in Batches : Started(c)' <=> Started(c)
      /\ \A c \in Batches : ~Started(c) => batch'[c] = batch[c]
      /\ \A c \in Batches : batch'[c].status = "none" <=> batch[c].status = "none"
  <2>1. PICK row : row = CountedRow(b, batch[b], worker[w].paid)
    OBVIOUS
  <2>2. batch' = [batch EXCEPT ![b] = row] /\ batch \in [Batches -> BatchRow]
    BY <1>1, <2>1, Zenon DEF FinishItem, IInv, BatchesOK
  <2>3. row.status \in {batch[b].status, "failed", "completed"}
    BY <1>1, <2>1, <2>2 DEF CountedRow, BatchRow
  <2> QED BY <1>1, <1>7, <2>2, <2>3 DEF Started
<1>9. HandsOrderly'
  <2>1. HandOrderly(w)'
    BY <1>2, <1>4, <1>5 DEF HandOrderly
  <2>2. \A x \in Workers : x # w /\ Busy(x) =>
           worker[x].job.item \in Items /\ worker[x].job.item # j.item
    BY <1>1, <1>3, JobsAbout DEF Orderly, HandsOrderly
  <2> QED BY <1>2, <1>5, <2>1, <2>2, HandMoves DEF Orderly
<1>10. RequestsOrderly'
  <2>1. \A s \in Sessions : call[s].pc \in {"validating", "executing"} =>
           call[s].batch \in Batches /\ ~Started(call[s].batch)
    BY DEF IInv, CallsOK, CallOK, Orderly, RequestsOrderly, Started
  <2>2. \A k \in Awaited : item'[k] = item[k]
    BY <1>5, <1>7 DEF Awaited
  <2> QED BY <1>3, <1>8, <2>1, <2>2, RequestsUntouched DEF Orderly
<1>11. QueueOrderly' /\ RetryOrderly'
  <2>1. /\ \A k \in Queued : item'[k] = item[k]
        /\ \A k \in Parked : item'[k] = item[k]
    BY <1>5, <1>7 DEF Queued, Parked
  <2> QED BY <1>3, <2>1, QueueUntouched, RetryUntouched DEF Orderly
<1>12. Exclusive' /\ Placed' \subseteq Placed
  BY <1>3, <1>6, PlacesUntouched DEF Orderly, ItemsOrderly, Exclusive, Placed
<1>13. ASSUME NEW k \in Items PROVE ItemOrderly(k)'
  <2>1. ItemOrderly(k) /\ (k \in Placed' => k \in Placed) /\ BatchOf(k) \in Batches
    BY <1>12, BatchOfType DEF Orderly, ItemsOrderly
  <2>2. CASE k # j.item
    BY <1>3, <1>5, <1>8, <2>1, <2>2 DEF ItemOrderly, Settlements
  <2>3. CASE k = j.item
    <3>1. k \notin Settled /\ Started(BatchOf(k)) /\ Started(BatchOf(k))'
      BY <1>1, <1>7, <1>8, <2>3
    <3>2. Settlements(k) = 0 /\ settled[k].charged = 0 /\ settled[k].refunded = 0
      BY <3>1, Unsettled
    <3> QED BY <1>3, <1>5, <1>8, <2>1, <2>3, <3>1, <3>2
            DEF ItemOrderly, Settlements, Started
  <2> QED BY <2>2, <2>3
<1> QED BY <1>9, <1>10, <1>11, <1>12, <1>13 DEF Orderly, ItemsOrderly

\* One more try of the worker's item, while some are left.
LEMMA MarkRetryingOrderly ==
    ASSUME IInv, Orderly, NEW w \in Workers, MarkRetrying(w)
    PROVE  Orderly'
<1>1. PICK j \in Job : j = worker[w].job /\ j.item \in Items
  BY WorkerBusy DEF MarkRetrying
<1> DEFINE next == [j EXCEPT !.attempt = @ + 1]
<1>2. next.item = j.item /\ next.attempt = j.attempt + 1
  BY DEF Job
<1> DEFINE v == WorkerAt("schedule", next, FALSE)
<1>3. worker' = [worker EXCEPT ![w] = v] /\ v.job = next /\ v.pc = "schedule"
  <2>1. worker' = [worker EXCEPT ![w] = v]
    BY <1>1, Zenon DEF MarkRetrying
  <2> QED BY <2>1 DEF WorkerAt
<1> HIDE DEF v, next
<1>4. /\ worker[w].pc = "retry" /\ Busy(w)
      /\ UNCHANGED <<batch, call, queue, retry, sched, settled>>
      /\ item' = [item EXCEPT ![j.item].status = "retrying", ![j.item].attempts = @ + 1]
  BY <1>1 DEF MarkRetrying, redisVars, historyVars, Busy
<1>5. \A x \in Workers : worker'[x] = IF x = w THEN v ELSE worker[x]
  BY <1>3 DEF IInv, WorkersOK
<1>6. /\ Fits(j) /\ j.attempt < MaxRetries - 1 /\ j.attempt \in Nat
      /\ item'[j.item].attempts = j.attempt + 1 /\ item'[j.item].status = "retrying"
      /\ \A k \in Items \ {j.item} : item'[k] = item[k]
  <2>1. item \in [Items -> ItemRow] /\ Fits(j) /\ j.attempt < MaxRetries - 1
    BY <1>1, <1>4 DEF IInv, RecordsOK, Orderly, HandsOrderly, HandOrderly
  <2> QED BY <1>1, <1>4, <2>1 DEF ItemRow, Fits, Job
<1>7. j.item \in Held /\ Held' \subseteq Held
  BY <1>1, <1>2, <1>3, <1>4, <1>5 DEF Held, Busy
<1>8. j.item \notin Awaited \cup Queued \cup Parked \cup Settled /\ Started(BatchOf(j.item))
  BY <1>1, <1>7 DEF Orderly, ItemsOrderly, Exclusive, ItemOrderly, Placed
<1>9. HandsOrderly'
  <2>1. HandOrderly(w)'
    BY <1>2, <1>3, <1>5, <1>6 DEF HandOrderly, Fits, Open
  <2>2. \A x \in Workers : x # w /\ Busy(x) =>
           worker[x].job.item \in Items /\ worker[x].job.item # j.item
    BY <1>1, <1>4, JobsAbout DEF Orderly, HandsOrderly
  <2> QED BY <1>2, <1>3, <1>6, <2>1, <2>2, HandMoves DEF Orderly
<1>10. RequestsOrderly' /\ QueueOrderly' /\ RetryOrderly'
  <2>1. /\ \A k \in Awaited : item'[k] = item[k]
        /\ \A k \in Queued : item'[k] = item[k]
        /\ \A k \in Parked : item'[k] = item[k]
    BY <1>6, <1>8 DEF Awaited, Queued, Parked
  <2> QED BY <1>4, <2>1, RequestsUntouched, QueueUntouched, RetryUntouched DEF Orderly
<1>11. Exclusive' /\ Placed' \subseteq Placed
  BY <1>4, <1>7, PlacesUntouched DEF Orderly, ItemsOrderly, Exclusive, Placed
<1>12. ASSUME NEW k \in Items PROVE ItemOrderly(k)'
  <2>1. ItemOrderly(k) /\ (k \in Placed' => k \in Placed)
    BY <1>11 DEF Orderly, ItemsOrderly
  <2>2. CASE k # j.item
    BY <1>4, <1>6, <2>1, <2>2 DEF ItemOrderly, Settlements, Started
  <2>3. CASE k = j.item
    <3>1. Settlements(k) = 0 /\ settled[k].charged = 0 /\ settled[k].refunded = 0
      BY <1>8, <2>3, Unsettled
    <3>2. MaxRetries \in Nat
      BY DEF ConstantAssumption
    <3> QED BY <1>4, <1>6, <1>8, <2>1, <2>3, <3>1, <3>2 DEF ItemOrderly, Settlements, Started
  <2> QED BY <2>2, <2>3
<1> QED BY <1>9, <1>10, <1>11, <1>12 DEF Orderly, ItemsOrderly

\* The worker's job goes into the retry set.
LEMMA ScheduleRetryOrderly ==
    ASSUME IInv, Orderly, NEW w \in Workers, ScheduleRetry(w)
    PROVE  Orderly'
<1>1. PICK j \in Job : j = worker[w].job /\ j.item \in Items
  BY WorkerBusy DEF ScheduleRetry
<1>2. /\ worker[w].pc = "schedule" /\ Busy(w) /\ Fits(j)
      /\ UNCHANGED <<batch, item, call, queue, sched, settled>>
      /\ retry' = retry \cup {j} /\ worker' = [worker EXCEPT ![w] = Resting]
  BY <1>1 DEF ScheduleRetry, historyVars, Busy, Orderly, HandsOrderly, HandOrderly
<1>3. \A x \in Workers : worker'[x] = IF x = w THEN Resting ELSE worker[x]
  BY <1>2 DEF IInv, WorkersOK
<1>4. j.item \in Held /\ Held' \subseteq Held \ {j.item}
  BY <1>1, <1>2, <1>3, FreshTypes DEF Held, Busy, Orderly, HandsOrderly
<1>5. Waiting' \subseteq Waiting \cup {j} /\ Waiting \subseteq Waiting'
  BY <1>2 DEF Waiting
<1>6. Parked' \subseteq Parked \cup {j.item} /\ j.item \notin Parked
  BY <1>4, <1>5 DEF Parked, Orderly, ItemsOrderly, Exclusive
<1>7. RetryOrderly'
  <2>1. \A l \in Waiting : l.item \in Items /\ l.item # j.item
    BY <1>6, JobsAbout DEF Parked, Waiting
  <2>2. \A l, m \in Waiting' : l.item = m.item => l = m
    BY <1>5, <2>1 DEF Orderly, RetryOrderly
  <2>3. (\A l \in Waiting : Fits(l))'
    BY <1>2, <1>5 DEF Orderly, RetryOrderly, Fits, Open
  <2>4. sched'.todo \subseteq Waiting'
    BY <1>2, <1>5 DEF Orderly, RetryOrderly
  <2> QED BY <2>2, <2>3, <2>4 DEF RetryOrderly
<1>8. HandsOrderly'
  <2>1. HandOrderly(w)'
    BY <1>3, FreshTypes DEF HandOrderly
  <2>2. Resting.pc = "idle"
    BY FreshTypes
  <2>3. PICK v : v = Resting
    OBVIOUS
  <2> QED BY <1>2, <2>1, <2>2, <2>3, HandMoves DEF Orderly
<1>9. RequestsOrderly' /\ QueueOrderly'
  BY <1>2, RequestsUntouched, QueueUntouched DEF Orderly
<1>10. ItemsOrderly'
  <2>1. Awaited' = Awaited /\ Queued' = Queued /\ Settled' = Settled
    BY <1>2, PlacesUntouched
  <2>2. Placed' \subseteq Placed /\ Exclusive'
    BY <1>4, <1>6, <2>1 DEF Orderly, ItemsOrderly, Exclusive, Placed
  <2> QED BY <1>2, <2>2, ItemsMoved DEF Orderly
<1> QED BY <1>7, <1>8, <1>9, <1>10 DEF Orderly

-----------------------------------------------------------------------------
(* The scheduler and the faults.                                           *)

\* The scheduler takes a member out of the retry set, to the list, in two steps
\* that nothing cuts.
LEMMA SchedulerOrderly ==
    ASSUME IInv, Orderly, SchedulerStep
    PROVE  Orderly'
<1>1. UNCHANGED <<batch, item, call, worker, settled>>
  BY DEF SchedulerStep, FetchDue, PushDue, RemoveDue, redisVars, historyVars
<1>2. RequestsOrderly' /\ HandsOrderly' /\ Awaited' = Awaited /\ Held' = Held /\ Settled' = Settled
  BY <1>1, RequestsUntouched, HandsUntouched, PlacesUntouched DEF Orderly
<1>3. NoJob \notin retry
  BY JobsAbout
<1>4. CASE FetchDue \/ RemoveDue
  <2>1. UNCHANGED queue /\ Waiting' = Waiting /\ sched'.todo \subseteq Waiting
    <3>1. CASE FetchDue
      BY <1>3, <3>1 DEF FetchDue, NoMoves, Waiting, redisVars
    <3>2. CASE RemoveDue
      <4>1. sched' = [sched EXCEPT !.half = NoJob] /\ retry' = retry \ {sched.half}
            /\ sched \in [todo : SUBSET LaunchedJob, half : LaunchedJob \cup {NoJob}]
            /\ UNCHANGED queue
        BY <3>2 DEF RemoveDue, IInv, RedisOK
      <4>2. sched'.half = NoJob /\ sched'.todo = sched.todo
        BY <4>1
      <4> QED BY <1>3, <4>1, <4>2 DEF Waiting, Orderly, RetryOrderly
    <3> QED BY <1>4, <3>1, <3>2
  <2>2. RetryOrderly' /\ Parked' = Parked
    BY <1>1, <2>1 DEF Orderly, RetryOrderly, Parked, Fits, Open
  <2>3. QueueOrderly' /\ Queued' = Queued
    BY <1>1, <2>1, QueueUntouched, PlacesUntouched DEF Orderly
  <2>4. Placed' \subseteq Placed /\ Exclusive'
    BY <1>2, <2>2, <2>3 DEF Orderly, ItemsOrderly, Exclusive, Placed
  <2> QED BY <1>1, <1>2, <2>2, <2>3, <2>4, ItemsMoved DEF Orderly
<1>5. CASE PushDue
  <2>1. PICK j \in sched.todo : /\ queue' = Append(queue, j)
                                /\ sched' = [todo |-> sched.todo \ {j}, half |-> j]
                                /\ sched.half = NoJob /\ UNCHANGED retry
    BY <1>5 DEF PushDue
  <2>2. j \in Waiting /\ j.item \in Items /\ Waiting' = Waiting \ {j} /\ Fits(j)
        /\ sched'.todo \subseteq Waiting'
    BY <1>3, <2>1, JobsAbout DEF Orderly, RetryOrderly, Waiting
  <2>3. j.item \in Parked /\ j.item \notin Queued /\ Parked' \subseteq Parked \ {j.item}
    BY <2>2 DEF Parked, Orderly, RetryOrderly, ItemsOrderly, Exclusive
  <2>4. /\ DOMAIN queue' = DOMAIN queue \cup {Len(queue) + 1}
        /\ Len(queue) + 1 \notin DOMAIN queue /\ queue'[Len(queue) + 1] = j
        /\ \A k \in DOMAIN queue : queue'[k] = queue[k]
    BY <2>1 DEF IInv, RedisOK
  <2>5. Queued' \subseteq Queued \cup {j.item}
    BY <2>4 DEF Queued
  <2>6. QueueOrderly'
    <3>1. \A k \in DOMAIN queue : queue[k].item # j.item
      BY <2>2, <2>3 DEF Queued
    <3>2. \A k, m \in DOMAIN queue' : queue'[k].item = queue'[m].item => k = m
      BY <2>4, <3>1 DEF Orderly, QueueOrderly
    <3>3. (\A k \in DOMAIN queue : Fits(queue[k]))'
      BY <1>1, <2>2, <2>4 DEF Orderly, QueueOrderly, Fits, Open
    <3> QED BY <3>2, <3>3 DEF QueueOrderly
  <2>7. RetryOrderly'
    BY <1>1, <2>2 DEF Orderly, RetryOrderly, Fits, Open
  <2>8. Placed' \subseteq Placed /\ Exclusive'
    BY <1>2, <2>3, <2>5 DEF Orderly, ItemsOrderly, Exclusive, Placed
  <2> QED BY <1>1, <1>2, <2>6, <2>7, <2>8, ItemsMoved DEF Orderly
<1> QED BY <1>4, <1>5 DEF SchedulerStep

\* A worker that fails drops its job, a request that fails the rest of its own.
LEMMA FaultOrderly ==
    ASSUME NoTornMoves, IInv, Orderly, FaultStep
    PROVE  Orderly'
<1>1. CASE \E w \in Workers : WorkerFails(w)
  <2>1. PICK w \in Workers : WorkerFails(w)
    BY <1>1
  <2> DEFINE v == Resting
  <2>2. /\ worker' = [worker EXCEPT ![w] = v] /\ v.pc = "idle"
        /\ UNCHANGED <<batch, item, call, queue, retry, sched, settled>>
    BY <2>1, FreshTypes DEF WorkerFails, Fault, redisVars, historyVars
  <2> HIDE DEF v
  <2>3. HandOrderly(w)'
    BY <2>2 DEF HandOrderly, IInv, WorkersOK
  <2> QED BY <2>2, <2>3, SameHand
<1>2. CASE \E s \in Sessions : EnqueueFails(s)
  <2>1. PICK s \in Sessions : EnqueueFails(s)
    BY <1>2
  <2>2. /\ call' = [call EXCEPT ![s] = NoCall] /\ NoCall.pc = "idle"
        /\ UNCHANGED <<batch, item, queue, retry, worker, sched, settled>>
    BY <2>1, FreshTypes DEF EnqueueFails, Fault, redisVars, historyVars
  <2>3. \A t \in Sessions : call'[t] = IF t = s THEN NoCall ELSE call[t]
    BY <2>2 DEF IInv, CallsOK
  <2>4. Awaited' \subseteq Awaited
    BY <2>2, <2>3 DEF Awaited, Owed
  <2>5. RequestsOrderly'
    BY <2>2, <2>3, <2>4 DEF Orderly, RequestsOrderly, Open
  <2>6. QueueOrderly' /\ RetryOrderly' /\ HandsOrderly'
    BY <2>2, QueueUntouched, RetryUntouched, HandsUntouched DEF Orderly
  <2>7. Placed' \subseteq Placed /\ Exclusive'
    BY <2>2, <2>4, PlacesUntouched DEF Orderly, ItemsOrderly, Exclusive, Placed
  <2> QED BY <2>2, <2>5, <2>6, <2>7, ItemsMoved DEF Orderly
<1>3. ~SchedulerFails /\ ~Crash
  BY DEF NoTornMoves, SchedulerFails, Crash, Fault
<1> QED BY <1>1, <1>2, <1>3 DEF FaultStep

-----------------------------------------------------------------------------
(* The API.                                                                *)

\* A new batch: nothing was about for its items, and nothing is yet.
LEMMA CreateOrderly ==
    ASSUME IInv, Orderly, NEW u \in Users, NEW b \in Batches, Create(u, b)
    PROVE  Orderly'
<1> DEFINE row == [NewBatch EXCEPT !.status = "draft", !.createdBy = u]
           new == [NoItem EXCEPT !.status = "pending"]
<1>1. /\ batch[b].status = "none" /\ ~Started(b)
      /\ UNCHANGED <<call, queue, retry, worker, sched, settled>>
      /\ batch' = [batch EXCEPT ![b] = row] /\ row.status = "draft"
      /\ item' = [i \in Items |-> IF BatchOf(i) = b THEN new ELSE item[i]]
      /\ new.status = "pending" /\ new.attempts = 0
  BY FreshTypes DEF Create, redisVars, historyVars, Started, NewBatch, NoItem
<1> HIDE DEF row, new
<1>2. \A c \in Batches : batch'[c] = IF c = b THEN row ELSE batch[c]
  BY <1>1 DEF IInv, BatchesOK
<1>3. \A i \in Items : item'[i] = IF BatchOf(i) = b THEN new ELSE item[i]
  BY <1>1
<1>4. \A c \in Batches : Started(c)' <=> Started(c)
  BY <1>1, <1>2 DEF Started
<1>5. \A i \in Placed : i \in Items /\ BatchOf(i) # b /\ item'[i] = item[i]
  BY <1>1, <1>3 DEF Orderly, ItemsOrderly, ItemOrderly, Placed, Awaited, Queued, Parked, Held, Settled
<1>6. Exclusive' /\ Placed' = Placed
  BY <1>1, PlacesUntouched DEF Orderly, ItemsOrderly, Exclusive, Placed
<1>7. RequestsOrderly'
  <2>1. \A s \in Sessions : call[s].pc \in {"validating", "executing"} =>
           call[s].batch \in Batches /\ call[s].batch # b
    BY <1>1 DEF IInv, CallsOK, CallOK, Orderly, RequestsOrderly
  <2> QED BY <1>1, <1>2, <1>5, <2>1, RequestsUntouched DEF Orderly, Placed
<1>8. QueueOrderly' /\ RetryOrderly'
  BY <1>1, <1>5, QueueUntouched, RetryUntouched DEF Orderly, Placed
<1>9. HandsOrderly'
  BY <1>1, <1>5, HandsUntouched DEF Orderly, Placed
<1>10. ASSUME NEW i \in Items PROVE ItemOrderly(i)'
  <2>1. ItemOrderly(i) /\ BatchOf(i) \in Batches
    BY BatchOfType DEF Orderly, ItemsOrderly
  <2>2. CASE BatchOf(i) # b
    BY <1>1, <1>2, <1>3, <1>4, <1>6, <2>1, <2>2 DEF ItemOrderly, Settlements
  <2>3. CASE BatchOf(i) = b
    <3>1. i \notin Placed /\ i \notin Settled
      BY <1>5, <2>3 DEF Placed
    <3>2. Settlements(i) = 0 /\ settled[i].charged = 0 /\ settled[i].refunded = 0
      BY <3>1, Unsettled
    <3> QED BY <1>1, <1>2, <1>3, <1>4, <1>6, <2>1, <2>3, <3>1, <3>2
            DEF ItemOrderly, Settlements
  <2> QED BY <2>2, <2>3
<1> QED BY <1>6, <1>7, <1>8, <1>9, <1>10 DEF Orderly, ItemsOrderly

\* A request that reads a row has it as it is.
LEMMA ReadOrderly ==
    ASSUME IInv, Orderly, NEW s \in Sessions, NEW u \in Users, NEW b \in Batches,
           ReadToValidate(s, u, b) \/ ReadToExecute(s, u, b)
    PROVE  Orderly'
<1>1. PICK pc \in {"validating", "executing"} :
         /\ call' = [call EXCEPT ![s] = CallOf(pc, b, u, batch[b], 1, 0)]
         /\ call[s].pc = "idle"
  BY Zenon DEF ReadToValidate, ReadToExecute
<1>2. UNCHANGED <<batch, item, queue, retry, worker, sched, settled>>
  BY DEF ReadToValidate, ReadToExecute, redisVars, historyVars
<1> DEFINE c == CallOf(pc, b, u, batch[b], 1, 0)
<1>3. /\ \A t \in Sessions : call'[t] = IF t = s THEN c ELSE call[t]
      /\ c.pc = pc /\ c.batch = b /\ c.row = batch[b]
  BY <1>1 DEF IInv, CallsOK, CallOf
<1> HIDE DEF c
<1>4. Awaited' \subseteq Awaited
  BY <1>1, <1>3 DEF Awaited, Owed
<1>5. RequestsOrderly'
  BY <1>2, <1>3, <1>4 DEF Orderly, RequestsOrderly, Open
<1>6. QueueOrderly' /\ RetryOrderly' /\ HandsOrderly'
  BY <1>2, QueueUntouched, RetryUntouched, HandsUntouched DEF Orderly
<1>7. Placed' \subseteq Placed /\ Exclusive'
  BY <1>2, <1>4, PlacesUntouched DEF Orderly, ItemsOrderly, Exclusive, Placed
<1> QED BY <1>2, <1>5, <1>6, <1>7, ItemsMoved DEF Orderly

\* The copies of the row in the other requests' hands: there are none.
LEMMA NoOtherCopy ==
    ASSUME IInv, Orderly, TakeTurns, NEW s \in Sessions, call[s].pc # "idle"
    PROVE  \A t \in Sessions \ {s} : call[t].pc # "idle" => call[t].batch # call[s].batch
BY DEF TakeTurns

\* Validate writes the row it read, which is still the row: a draft.
LEMMA SaveValidatedOrderly ==
    ASSUME IInv, Orderly, TakeTurns, NEW s \in Sessions, SaveValidated(s)
    PROVE  Orderly'
<1>1. PICK b \in Batches : b = call[s].batch /\ batch[b] = call[s].row /\ batch[b].status = "draft"
  BY DEF SaveValidated, IInv, CallsOK, CallOK, Orderly, RequestsOrderly
<1> DEFINE row == [call[s].row EXCEPT !.status = "validated", !.validatedBy = call[s].user]
<1>2. /\ batch' = [batch EXCEPT ![b] = row] /\ call[s].pc = "validating"
      /\ call' = [call EXCEPT ![s] = NoCall]
      /\ UNCHANGED <<item, queue, retry, worker, sched, settled>>
  BY <1>1 DEF SaveValidated, redisVars, historyVars
<1>3. /\ \A t \in Sessions : call'[t] = IF t = s THEN NoCall ELSE call[t]
      /\ \A c \in Batches : batch'[c] = IF c = b THEN row ELSE batch[c]
      /\ row.status = "validated"
  <2>1. batch[b] \in BatchRow
    BY DEF IInv, BatchesOK
  <2>2. row.status = "validated"
    BY <1>1, <2>1 DEF BatchRow
  <2> QED BY <1>2, <2>2 DEF IInv, CallsOK, BatchesOK
<1> HIDE DEF row
<1>4. Awaited' \subseteq Awaited
  BY <1>3, FreshTypes DEF Awaited, Owed
<1>5. \A t \in Sessions \ {s} : call[t].pc # "idle" => call[t].batch # b
  BY <1>1, <1>2, NoOtherCopy
<1>6. RequestsOrderly'
  <2>1. \A t \in Sessions : call[t].pc \in {"validating", "executing"} =>
                             call[t].batch \in Batches
    BY DEF IInv, CallsOK, CallOK
  <2> QED BY <1>2, <1>3, <1>4, <1>5, <2>1, FreshTypes DEF Orderly, RequestsOrderly, Open
<1>7. QueueOrderly' /\ RetryOrderly' /\ HandsOrderly'
  BY <1>2, QueueUntouched, RetryUntouched, HandsUntouched DEF Orderly
<1>8. Placed' \subseteq Placed /\ Exclusive'
  BY <1>2, <1>4, PlacesUntouched DEF Orderly, ItemsOrderly, Exclusive, Placed
<1>9. ASSUME NEW i \in Items PROVE ItemOrderly(i)'
  <2>1. ItemOrderly(i) /\ BatchOf(i) \in Batches
    BY BatchOfType DEF Orderly, ItemsOrderly
  <2> QED BY <1>1, <1>2, <1>3, <1>8, <2>1 DEF ItemOrderly, Started, Settlements
<1> QED BY <1>6, <1>7, <1>8, <1>9 DEF Orderly, ItemsOrderly

\* Execute writes the row it read, which is still the row: validated, with no
\* job about.  From here on the request owes one job for each item.
LEMMA SaveProcessingOrderly ==
    ASSUME IInv, Orderly, TakeTurns, NEW s \in Sessions, SaveProcessing(s)
    PROVE  Orderly'
<1>1. PICK b \in Batches : /\ b = call[s].batch /\ batch[b] = call[s].row
                           /\ batch[b].status = "validated"
  BY DEF SaveProcessing, IInv, CallsOK, CallOK, Orderly, RequestsOrderly
<1> DEFINE row == [call[s].row EXCEPT !.status = "processing", !.executedBy = call[s].user]
           d   == CallOf("enqueueing", b, call[s].user, call[s].row, 1, CommissionAmount(b))
<1>2. /\ batch' = [batch EXCEPT ![b] = row] /\ call[s].pc = "executing"
      /\ call' = [call EXCEPT ![s] = d]
      /\ UNCHANGED <<item, queue, retry, worker, sched, settled>>
  <2>1. call' = [call EXCEPT ![s] = d]
    BY <1>1, Zenon DEF SaveProcessing
  <2> QED BY <1>1, <2>1 DEF SaveProcessing, redisVars, historyVars
<1>3. /\ \A t \in Sessions : call'[t] = IF t = s THEN d ELSE call[t]
      /\ \A c \in Batches : batch'[c] = IF c = b THEN row ELSE batch[c]
      /\ row.status = "processing" /\ d.pc = "enqueueing" /\ d.batch = b
  <2>1. batch[b] \in BatchRow
    BY DEF IInv, BatchesOK
  <2>2. row.status = "processing"
    BY <1>1, <2>1 DEF BatchRow
  <2>3. d.pc = "enqueueing" /\ d.batch = b
    BY DEF CallOf
  <2> QED BY <1>2, <2>2, <2>3 DEF IInv, CallsOK, BatchesOK
<1>4. d.next = 1
  BY DEF CallOf
<1> HIDE DEF row, d
<1>5. Awaited' \subseteq Awaited \cup {i \in Items : BatchOf(i) = b}
  <2> SUFFICES ASSUME NEW i \in Items, NEW t \in Sessions, Owed(t, i)', t = s
               PROVE  BatchOf(i) = b
    BY <1>3 DEF Awaited, Owed
  <2>1. PICK k \in 1..ItemCount(b) : i = ItemsOf[b][k]
    BY <1>3, <1>4 DEF Owed
  <2> QED BY <2>1, BatchOfUnique
<1>6. \A i \in Items : BatchOf(i) = b =>
         i \notin Placed /\ item[i].status = "pending" /\ item[i].attempts = 0
  BY <1>1 DEF Orderly, ItemsOrderly, ItemOrderly, Started
<1>7. \A t \in Sessions \ {s} : call[t].pc # "idle" => call[t].batch # b
  BY <1>1, <1>2, NoOtherCopy
<1>8. RequestsOrderly'
  <2>1. \A t \in Sessions : call[t].pc \in {"validating", "executing"} =>
                             call[t].batch \in Batches
    BY DEF IInv, CallsOK, CallOK
  <2>2. (\A t \in Sessions : call[t].pc \in {"validating", "executing"} =>
                              call[t].row = batch[call[t].batch])'
    BY <1>2, <1>3, <1>7, <2>1 DEF Orderly, RequestsOrderly
  <2>3. (\A i \in Awaited : Open(i) /\ item[i].attempts = 0)'
    BY <1>2, <1>5, <1>6 DEF Orderly, RequestsOrderly, Open
  <2> QED BY <2>2, <2>3 DEF RequestsOrderly
<1>9. QueueOrderly' /\ RetryOrderly' /\ HandsOrderly'
  BY <1>2, QueueUntouched, RetryUntouched, HandsUntouched DEF Orderly
<1>10. Exclusive' /\ Placed' \subseteq Placed \cup {i \in Items : BatchOf(i) = b}
  <2>1. Queued' = Queued /\ Parked' = Parked /\ Held' = Held /\ Settled' = Settled
    BY <1>2, PlacesUntouched
  <2>2. /\ \A i \in Queued \cup Parked \cup Held \cup Settled : i \in Items /\ i \in Placed
    BY DEF Placed, Queued, Parked, Held, Settled
  <2> QED BY <1>5, <1>6, <2>1, <2>2 DEF Orderly, ItemsOrderly, Exclusive, Placed
<1>11. ASSUME NEW i \in Items PROVE ItemOrderly(i)'
  <2>1. ItemOrderly(i) /\ BatchOf(i) \in Batches
    BY BatchOfType DEF Orderly, ItemsOrderly
  <2> QED BY <1>1, <1>2, <1>3, <1>6, <1>10, <2>1 DEF ItemOrderly, Started, Settlements
<1> QED BY <1>8, <1>9, <1>10, <1>11 DEF Orderly, ItemsOrderly

\* One job more in the list, and one less that the request owes.
LEMMA EnqueueJobOrderly ==
    ASSUME IInv, Orderly, TakeTurns, NEW s \in Sessions, EnqueueJob(s)
    PROVE  Orderly'
<1>1. PICK c \in CallRow : /\ c = call[s] /\ c.pc = "enqueueing" /\ c.batch \in Batches
                           /\ c.next \in 1..ItemCount(c.batch)
  BY DEF EnqueueJob, IInv, CallsOK, CallOK
<1>2. PICK b \in Batches, i \in Items : b = c.batch /\ i = ItemsOf[b][c.next]
  BY <1>1, AmountsType
<1>3. UNCHANGED <<batch, item, retry, worker, sched, settled>>
  BY DEF EnqueueJob, historyVars
<1>4. PICK j, d : /\ queue' = Append(queue, j) /\ j.item = i /\ j.attempt = 0
                  /\ call' = [call EXCEPT ![s] = d]
                  /\ IF IsLast(c) THEN d.pc = "idle"
                     ELSE d.pc = "enqueueing" /\ d.batch = b /\ d.next = c.next + 1
  <2>1. PICK share : share = AllocateItemCommission(TotalAmount(b), CommissionAmount(b),
                                                    Amount[i], c.remaining, IsLast(c))
    OBVIOUS
  <2> DEFINE j == [item |-> i, commission |-> share, attempt |-> 0, ref |-> FALSE]
             d == IF IsLast(c) THEN NoCall
                  ELSE CallOf("enqueueing", b, c.user, c.row, c.next + 1, c.remaining - share)
  <2>2. queue' = Append(queue, j) /\ call' = [call EXCEPT ![s] = d]
    BY <1>1, <1>2, <2>1, Zenon DEF EnqueueJob
  <2>3. j.item = i /\ j.attempt = 0
    OBVIOUS
  <2>4. IF IsLast(c) THEN d.pc = "idle"
        ELSE d.pc = "enqueueing" /\ d.batch = b /\ d.next = c.next + 1
    BY FreshTypes DEF CallOf
  <2> HIDE DEF j, d
  <2> QED BY <2>2, <2>3, <2>4
<1>5. \A t \in Sessions : call'[t] = IF t = s THEN d ELSE call[t]
  BY <1>4 DEF IInv, CallsOK
<1>6. \A k \in 1..ItemCount(b) : ItemsOf[b][k] = i => k = c.next
  BY <1>1, <1>2, ListedOnce
<1>7. i \in Awaited /\ Awaited' \subseteq Awaited \ {i}
  <2>1. ItemCount(b) \in Nat /\ c.next \in Nat
    BY <1>1, <1>2, AmountsType
  <2>2. i \in Awaited
    BY <1>1, <1>2, <2>1 DEF Awaited, Owed
  <2>3. ASSUME NEW t \in Sessions, NEW k \in Items, Owed(t, k)'
        PROVE  Owed(t, k) /\ k # i
    <3>1. CASE t = s
      <4>1. /\ ~IsLast(c) /\ d.batch = b /\ d.next = c.next + 1
            /\ \E m \in (c.next + 1)..ItemCount(b) : ItemsOf[b][m] = k
        BY <1>4, <1>5, <2>3, <3>1 DEF Owed
      <4> QED BY <1>1, <1>2, <1>6, <2>1, <3>1, <4>1 DEF Owed
    <3>2. CASE t # s
      <4>1. Owed(t, k) /\ call[t].pc = "enqueueing" /\ call[t].batch \in Batches
            /\ call[t].next \in 1..ItemCount(call[t].batch)
        BY <1>5, <2>3, <3>2 DEF Owed, IInv, CallsOK, CallOK
      <4>2. call[t].batch # b
        BY <1>1, <1>2, <3>2, <4>1, NoOtherCopy
      <4>3. PICK a \in Batches : a = call[t].batch
        BY <4>1
      <4>4. PICK m \in 1..ItemCount(a) : ItemsOf[a][m] = k
        BY <4>1, <4>3, AmountsType DEF Owed
      <4>5. BatchOf(k) = a /\ BatchOf(i) = b
        BY <1>1, <1>2, <4>4, BatchOfUnique
      <4> QED BY <4>1, <4>2, <4>3, <4>5
    <3> QED BY <3>1, <3>2
  <2> QED BY <2>2, <2>3 DEF Awaited
<1>8. Queued' \subseteq Queued \cup {i} /\ i \notin Queued /\ QueueOrderly'
  <2>1. /\ DOMAIN queue' = DOMAIN queue \cup {Len(queue) + 1}
        /\ Len(queue) + 1 \notin DOMAIN queue /\ queue'[Len(queue) + 1] = j
        /\ \A k \in DOMAIN queue : queue'[k] = queue[k]
    BY <1>4 DEF IInv, RedisOK
  <2>2. i \notin Queued /\ Fits(j)
    BY <1>4, <1>7 DEF Orderly, ItemsOrderly, Exclusive, RequestsOrderly, Fits, Open
  <2>3. \A k \in DOMAIN queue : queue[k].item # i
    BY <2>2 DEF Queued
  <2>4. \A k, m \in DOMAIN queue' : queue'[k].item = queue'[m].item => k = m
    BY <1>4, <2>1, <2>3 DEF Orderly, QueueOrderly
  <2>5. (\A k \in DOMAIN queue : Fits(queue[k]))'
    BY <1>3, <2>1, <2>2 DEF Orderly, QueueOrderly, Fits, Open
  <2>6. Queued' \subseteq Queued \cup {i}
    BY <1>4, <2>1 DEF Queued
  <2> QED BY <2>2, <2>4, <2>5, <2>6 DEF QueueOrderly
<1>9. RequestsOrderly'
  BY <1>3, <1>4, <1>5, <1>7 DEF Orderly, RequestsOrderly, Open
<1>10. RetryOrderly' /\ HandsOrderly'
  BY <1>3, RetryUntouched, HandsUntouched DEF Orderly
<1>11. Placed' \subseteq Placed /\ Exclusive'
  BY <1>3, <1>7, <1>8, PlacesUntouched DEF Orderly, ItemsOrderly, Exclusive, Placed
<1> QED BY <1>3, <1>8, <1>9, <1>10, <1>11, ItemsMoved DEF Orderly

-----------------------------------------------------------------------------
(* The invariant holds for ever, and what follows from it.                 *)

\* Nothing is about in the initial state.
LEMMA InitOrderly == Init => Orderly
<1> SUFFICES ASSUME Init PROVE Orderly
  OBVIOUS
<1>1. /\ \A s \in Sessions : call[s].pc = "idle"
      /\ \A w \in Workers : worker[w].pc = "idle"
      /\ queue = << >> /\ retry = {} /\ sched.todo = {}
  BY FreshTypes DEF Init, NoMoves
<1>2. \A i \in Items : /\ settled[i].charged = 0 /\ settled[i].refunded = 0
                       /\ item[i].status = "none" /\ item[i].attempts = 0
                       /\ batch[BatchOf(i)].status = "none"
  BY BatchOfType DEF Init, NoItem, NewBatch
<1>3. Awaited = {} /\ Queued = {} /\ Parked = {} /\ Held = {} /\ Settled = {}
  BY <1>1, <1>2 DEF Awaited, Owed, Queued, Parked, Waiting, Held, Busy, Settled, Settlements
<1>4. RequestsOrderly /\ QueueOrderly /\ RetryOrderly /\ HandsOrderly
  BY <1>1, <1>3 DEF RequestsOrderly, QueueOrderly, RetryOrderly, Waiting, HandsOrderly,
                    HandOrderly, Busy
<1>5. ItemsOrderly
  BY <1>2, <1>3 DEF ItemsOrderly, ItemOrderly, Exclusive, Placed, Started, Settlements
<1> QED BY <1>4, <1>5 DEF Orderly

\* Every step keeps the order.
LEMMA NextOrderly ==
    ASSUME NoTornMoves, TakeTurns, IInv, Orderly, [Next]_vars
    PROVE  Orderly'
<1>1. CASE UserStep
  BY <1>1, CreateOrderly, ReadOrderly DEF UserStep
<1>2. CASE \E s \in Sessions : RequestStep(s)
  BY <1>2, SaveValidatedOrderly, SaveProcessingOrderly, EnqueueJobOrderly DEF RequestStep
<1>3. CASE \E w \in Workers : WorkerStep(w)
  BY <1>3, PopJobOrderly, CallGatewayOrderly, FinishItemOrderly, SettleItemOrderly,
     NotifyOrderly, MarkRetryingOrderly, ScheduleRetryOrderly DEF WorkerStep
<1>4. CASE UNCHANGED vars
  BY <1>4, NothingMoves DEF vars
<1> QED BY <1>1, <1>2, <1>3, <1>4, SchedulerOrderly, FaultOrderly DEF Next

\* The order is kept.
LEMMA OrderlyHolds == ASSUME NoTornMoves PROVE Spec /\ []TakeTurns => []Orderly
<1>1. TakeTurns /\ IInv /\ Orderly /\ [Next]_vars => Orderly'
  BY NextOrderly
<1> QED BY <1>1, InitOrderly, IInvHolds, PTL DEF Spec

\* The tries of an item stay below the configured number, whatever the gateways
\* answer and however the retries of other items overtake it
\* (disbursement.go:147-155, 179-212, 229-262).
THEOREM RetriesWithinBudget == NoTornMoves => (Spec /\ []TakeTurns => []RetryBudget)
<1> SUFFICES ASSUME NoTornMoves PROVE Spec /\ []TakeTurns => []RetryBudget
  OBVIOUS
<1>1. Orderly => RetryBudget
  BY DEF Orderly, ItemsOrderly, ItemOrderly, RetryBudget
<1> QED BY <1>1, OrderlyHolds, PTL

\* A set whose elements are all the same.
LEMMA AtMostOne ==
    ASSUME NEW S, \A x, y \in S : x = y
    PROVE  Cardinality(S) = IF S = {} THEN 0 ELSE 1
<1>1. CASE S = {}
  BY <1>1, FS_EmptySet
<1>2. CASE S # {}
  <2>1. PICK x : S = {x}
    BY <1>2
  <2> QED BY <1>2, <2>1, FS_Singleton
<1> QED BY <1>1, <1>2

\* No item has two jobs, nor a job once it is settled: no interleaving of
\* workers, retries and dropped jobs pays an item twice
\* (disbursement.go:104-130, 229-295).
THEOREM OneLiveJobHolds == NoTornMoves => (Spec /\ []TakeTurns => []OneLiveJob)
<1> SUFFICES ASSUME NoTornMoves PROVE Spec /\ []TakeTurns => []OneLiveJob
  OBVIOUS
<1>1. IInv /\ Orderly => OneLiveJob
  <2> SUFFICES ASSUME IInv, Orderly, NEW i \in Items
               PROVE  LET queued == {k \in DOMAIN queue : queue[k].item = i}
                          parked == {j \in retry \ {sched.half} : j.item = i}
                          held   == {w \in Workers : worker[w].pc \notin {"idle", "notify"}
                                                      /\ worker[w].job.item = i}
                      IN  Cardinality(queued) + Cardinality(parked) + Cardinality(held)
                            + Settlements(i) <= 1
    BY DEF OneLiveJob
  <2> DEFINE queued == {k \in DOMAIN queue : queue[k].item = i}
             parked == {j \in retry \ {sched.half} : j.item = i}
             held   == {w \in Workers : worker[w].pc \notin {"idle", "notify"}
                                         /\ worker[w].job.item = i}
  <2>1. Cardinality(queued) = IF i \in Queued THEN 1 ELSE 0
    <3>1. \A x, y \in queued : x = y
      BY DEF Orderly, QueueOrderly
    <3>2. queued = {} <=> i \notin Queued
      BY DEF Queued
    <3> QED BY <3>1, <3>2, AtMostOne
  <2>2. Cardinality(parked) = IF i \in Parked THEN 1 ELSE 0
    <3>1. \A x, y \in parked : x = y
      BY DEF Orderly, RetryOrderly, Waiting
    <3>2. parked = {} <=> i \notin Parked
      BY DEF Parked, Waiting
    <3> QED BY <3>1, <3>2, AtMostOne
  <2>3. Cardinality(held) = IF i \in Held THEN 1 ELSE 0
    <3>1. \A x, y \in held : x = y
      BY DEF Orderly, HandsOrderly, Busy
    <3>2. held = {} <=> i \notin Held
      BY DEF Held, Busy
    <3> QED BY <3>1, <3>2, AtMostOne
  <2>4. Settlements(i) <= 1 /\ (i \notin Settled => Settlements(i) = 0)
    BY Unsettled DEF Orderly, ItemsOrderly, ItemOrderly
  <2>5. Settlements(i) \in Nat
    BY DEF Settlements, IInv, RecordsOK
  <2> HIDE DEF queued, parked, held
  <2>6. Cardinality(queued) + Cardinality(parked) + Cardinality(held) + Settlements(i) <= 1
    BY <2>1, <2>2, <2>3, <2>4, <2>5 DEF Orderly, ItemsOrderly, Exclusive
  <2> QED BY <2>6 DEF queued, parked, held
<1> QED BY <1>1, IInvHolds, OrderlyHolds, PTL

-----------------------------------------------------------------------------
(* The counters of a batch, and what is final.                             *)

Having(b, st) == {i \in ItemsIn(b) : item[i].status = st}

CountsOrderly ==
    \A b \in Batches :
        /\ batch[b].success = Cardinality(Having(b, "success"))
        /\ batch[b].failure = Cardinality(Having(b, "failed"))
        /\ batch[b].status = "failed" <=>
              (batch[b].status # "none" /\ batch[b].failure = ItemCount(b))

\* A batch has as many items as its list is long.
LEMMA ItemsCounted ==
    ASSUME NEW b \in Batches
    PROVE  IsFiniteSet(ItemsIn(b)) /\ Cardinality(ItemsIn(b)) = ItemCount(b)
<1>1. ItemCount(b) \in Nat /\ \A k \in 1..ItemCount(b) : ItemsOf[b][k] \in Items
  BY AmountsType
<1> DEFINE n == ItemCount(b)
           f == [k \in 1..n |-> ItemsOf[b][k]]
<1>2. \A k \in 1..n : f[k] \in ItemsIn(b)
  BY <1>1, BatchOfUnique DEF ItemsIn
<1>3. \A k, m \in 1..n : f[k] = f[m] => k = m
  BY ListedOnce
<1>4. ASSUME NEW i \in ItemsIn(b) PROVE \E k \in 1..n : f[k] = i
  <2>1. PICK c \in Batches : \E k \in DOMAIN ItemsOf[c] : ItemsOf[c][k] = i
    BY DEF ItemsIn, ConstantAssumption
  <2>2. ItemsOf[c] \in Seq(Items)
    BY DEF ConstantAssumption
  <2>3. DOMAIN ItemsOf[c] = 1..ItemCount(c)
    BY <2>2 DEF ItemCount
  <2>4. PICK k \in 1..ItemCount(c) : ItemsOf[c][k] = i
    BY <2>1, <2>3
  <2>5. c = b
    BY <2>4, BatchOfUnique DEF ItemsIn
  <2> QED BY <2>4, <2>5
<1>5. f \in Bijection(1..n, ItemsIn(b))
  BY <1>2, <1>3, <1>4 DEF Bijection, Injection, Surjection, IsInjective
<1>6. IsFiniteSet(1..n) /\ Cardinality(1..n) = n
  BY <1>1, FS_Interval
<1> QED BY <1>5, <1>6, FS_Bijection DEF ExistsBijection

\* The steps that write rows of batches or items, or settle an item.
LEMMA StepKinds ==
    ASSUME [Next]_vars
    PROVE  \/ UNCHANGED <<batch, item, settled>>
           \/ \E u \in Users, b \in Batches : Create(u, b)
           \/ \E s \in Sessions : SaveValidated(s) \/ SaveProcessing(s)
           \/ \E w \in Workers : FinishItem(w) \/ MarkRetrying(w) \/ SettleItem(w)
<1>1. CASE UserStep
  BY <1>1 DEF UserStep, ReadToValidate, ReadToExecute, historyVars
<1>2. CASE \E s \in Sessions : RequestStep(s)
  BY <1>2 DEF RequestStep, EnqueueJob, historyVars
<1>3. CASE \E w \in Workers : WorkerStep(w)
  BY <1>3 DEF WorkerStep, PopJob, CallGateway, NotifyIfBatchDone, ScheduleRetry, historyVars
<1>4. CASE SchedulerStep
  BY <1>4 DEF SchedulerStep, FetchDue, PushDue, RemoveDue, historyVars
<1>5. CASE FaultStep
  BY <1>5 DEF FaultStep, WorkerFails, EnqueueFails, SchedulerFails, Crash, Fault, historyVars
<1>6. CASE UNCHANGED vars
  BY <1>6 DEF vars
<1> QED BY <1>1, <1>2, <1>3, <1>4, <1>5, <1>6 DEF Next

\* What a request saves over: the row it has read.
LEMMA SavedRow ==
    ASSUME IInv, Orderly, NEW s \in Sessions, SaveValidated(s) \/ SaveProcessing(s)
    PROVE  \E b \in Batches, row \in BatchRow :
             /\ batch' = [batch EXCEPT ![b] = row] /\ UNCHANGED item
             /\ row.success = batch[b].success /\ row.failure = batch[b].failure
             /\ \/ SaveValidated(s) /\ batch[b].status = "draft" /\ row.status = "validated"
                \/ SaveProcessing(s) /\ batch[b].status = "validated" /\ row.status = "processing"
<1>1. call[s].batch \in Batches /\ batch[call[s].batch] = call[s].row /\ call[s].row \in BatchRow
      /\ call[s].user \in Users \cup {NoUser}
  BY DEF SaveValidated, SaveProcessing, IInv, CallsOK, CallOK, CallRow, Orderly, RequestsOrderly
<1>2. CASE SaveValidated(s)
  <2> DEFINE row == [call[s].row EXCEPT !.status = "validated", !.validatedBy = call[s].user]
  <2>1. row \in BatchRow /\ row.status = "validated" /\ row.success = call[s].row.success
        /\ row.failure = call[s].row.failure
    BY <1>1 DEF BatchRow, BatchStatus
  <2>2. batch' = [batch EXCEPT ![call[s].batch] = row] /\ UNCHANGED item
    BY <1>2 DEF SaveValidated
  <2>3. batch[call[s].batch].status = "draft"
    BY <1>1, <1>2 DEF SaveValidated, IInv, CallsOK, CallOK
  <2> HIDE DEF row
  <2> QED BY <1>1, <1>2, <2>1, <2>2, <2>3
<1>3. CASE SaveProcessing(s)
  <2> DEFINE row == [call[s].row EXCEPT !.status = "processing", !.executedBy = call[s].user]
  <2>1. row \in BatchRow /\ row.status = "processing" /\ row.success = call[s].row.success
        /\ row.failure = call[s].row.failure
    BY <1>1 DEF BatchRow, BatchStatus
  <2>2. batch' = [batch EXCEPT ![call[s].batch] = row] /\ UNCHANGED item
    BY <1>3 DEF SaveProcessing
  <2>3. batch[call[s].batch].status = "validated"
    BY <1>1, <1>3 DEF SaveProcessing, IInv, CallsOK, CallOK
  <2> HIDE DEF row
  <2> QED BY <1>1, <1>3, <2>1, <2>2, <2>3
<1> QED BY <1>2, <1>3

\* The row of a batch after one more result.
LEMMA CountedFields ==
    ASSUME NEW b \in Batches, NEW row \in BatchRow, NEW paid \in BOOLEAN
    PROVE  LET new == CountedRow(b, row, paid) IN
           /\ new \in BatchRow
           /\ new.success = row.success + (IF paid THEN 1 ELSE 0)
           /\ new.failure = row.failure + (IF paid THEN 0 ELSE 1)
           /\ new.status = IF row.success + row.failure + 1 < ItemCount(b) THEN row.status
                           ELSE IF new.failure = ItemCount(b) THEN "failed" ELSE "completed"
<1> DEFINE r     == IF paid THEN [row EXCEPT !.success = @ + 1] ELSE [row EXCEPT !.failure = @ + 1]
           st    == IF r.failure = ItemCount(b) THEN "failed" ELSE "completed"
           final == [r EXCEPT !.status = st]
<1>1. /\ row.success \in Nat /\ row.failure \in Nat /\ r \in BatchRow /\ r.status = row.status
      /\ r.success = row.success + (IF paid THEN 1 ELSE 0)
      /\ r.failure = row.failure + (IF paid THEN 0 ELSE 1)
      /\ r.success + r.failure = row.success + row.failure + 1
  BY DEF BatchRow
<1> HIDE DEF r
<1>2. st \in BatchStatus
  BY DEF BatchStatus
<1>3. /\ final \in BatchRow /\ final.status = st
      /\ final.success = r.success /\ final.failure = r.failure
  <2> HIDE DEF st
  <2> QED BY <1>1, <1>2 DEF BatchRow
<1>4. CountedRow(b, row, paid) = IF r.success + r.failure < ItemCount(b) THEN r ELSE final
  BY DEF CountedRow, r
<1> HIDE DEF final
<1>5. CASE r.success + r.failure < ItemCount(b)
  BY <1>1, <1>4, <1>5
<1>6. CASE ~(r.success + r.failure < ItemCount(b))
  BY <1>1, <1>3, <1>4, <1>6
<1> QED BY <1>5, <1>6

\* The verdict on item i of batch b, and what it does to the two rows.
Decides(i, b, paid) ==
    /\ b = BatchOf(i) /\ Open(i) /\ Started(b)
    /\ item'[i].status = IF paid THEN "success" ELSE "failed"
    /\ \A k \in Items \ {i} : item'[k] = item[k]
    /\ \A c \in Batches \ {b} : batch'[c] = batch[c]
    /\ batch'[b] \in BatchRow
    /\ batch'[b].success = batch[b].success + (IF paid THEN 1 ELSE 0)
    /\ batch'[b].failure = batch[b].failure + (IF paid THEN 0 ELSE 1)
    /\ batch'[b].status =
         IF batch[b].success + batch[b].failure + 1 < ItemCount(b) THEN batch[b].status
         ELSE IF batch'[b].failure = ItemCount(b) THEN "failed" ELSE "completed"

\* What FinishItem decides: the verdict on an open item, counted once.
LEMMA Verdict ==
    ASSUME IInv, Orderly, NEW w \in Workers, FinishItem(w)
    PROVE  \E i \in Items, b \in Batches, paid \in BOOLEAN :
              /\ i = worker[w].job.item /\ paid = worker[w].paid /\ i \in Held
              /\ Decides(i, b, paid)
<1>1. PICK i \in Items, b \in Batches, paid \in BOOLEAN :
         i = worker[w].job.item /\ b = BatchOf(i) /\ paid = worker[w].paid
  BY WorkerBusy DEF FinishItem, IInv, WorkersOK, WorkerRow
<1>2. worker[w].pc = "finish" /\ i \in Held /\ Open(i)
  BY <1>1 DEF FinishItem, Held, Busy, Orderly, HandsOrderly, HandOrderly, Fits
<1>3. Started(b)
  BY <1>1, <1>2 DEF Orderly, ItemsOrderly, ItemOrderly, Placed
<1>4. /\ item'[i].status = IF paid THEN "success" ELSE "failed"
      /\ \A k \in Items \ {i} : item'[k] = item[k]
  <2>1. PICK ref \in BOOLEAN :
           item' = [item EXCEPT ![i] = IF paid THEN [@ EXCEPT !.status = "success", !.ref = ref]
                                               ELSE [@ EXCEPT !.status = "failed", !.ref = FALSE]]
    BY <1>1, WorkerBusy DEF FinishItem, Job
  <2>2. item \in [Items -> ItemRow]
    BY DEF IInv, RecordsOK
  <2> QED BY <2>1, <2>2 DEF ItemRow
<1>5. PICK new : new = CountedRow(b, batch[b], paid)
  OBVIOUS
<1>6. batch' = [batch EXCEPT ![b] = new] /\ batch \in [Batches -> BatchRow]
  BY <1>1, <1>5, Zenon DEF FinishItem, IInv, BatchesOK
<1>7. \A c \in Batches : batch'[c] = IF c = b THEN new ELSE batch[c]
  BY <1>6
<1>8. /\ new \in BatchRow
      /\ new.success = batch[b].success + (IF paid THEN 1 ELSE 0)
      /\ new.failure = batch[b].failure + (IF paid THEN 0 ELSE 1)
      /\ new.status = IF batch[b].success + batch[b].failure + 1 < ItemCount(b)
                      THEN batch[b].status
                      ELSE IF new.failure = ItemCount(b) THEN "failed" ELSE "completed"
  BY <1>5, <1>6, CountedFields, Zenon
<1> QED BY <1>1, <1>2, <1>3, <1>4, <1>7, <1>8 DEF Decides

\* What MarkRetrying writes: an open item stays open.
LEMMA Retried ==
    ASSUME IInv, Orderly, NEW w \in Workers, MarkRetrying(w)
    PROVE  \E i \in Items :
             /\ Open(i) /\ item'[i].status = "retrying" /\ UNCHANGED batch
             /\ \A k \in Items \ {i} : item'[k] = item[k]
<1>1. PICK i \in Items : i = worker[w].job.item
  BY WorkerBusy DEF MarkRetrying
<1>2. Open(i)
  BY <1>1 DEF MarkRetrying, Orderly, HandsOrderly, HandOrderly, Fits
<1>3. item' = [item EXCEPT ![i].status = "retrying", ![i].attempts = @ + 1] /\ UNCHANGED batch
      /\ item \in [Items -> ItemRow]
  BY <1>1 DEF MarkRetrying, IInv, RecordsOK
<1> QED BY <1>1, <1>2, <1>3 DEF ItemRow

\* While one item of a batch is open, its counters have not reached the number
\* of its items: the batch is not closed.
LEMMA NotClosedYet ==
    ASSUME IInv, Orderly, CountsOrderly, NEW i \in Items, Open(i),
           NEW b \in Batches, b = BatchOf(i)
    PROVE  /\ batch[b].success + batch[b].failure < ItemCount(b)
           /\ batch[b].status \notin Terminal \cup {"none"}
<1> DEFINE paid == Having(b, "success")
           lost == Having(b, "failed")
<1>1. i \in ItemsIn(b) /\ i \notin paid \cup lost /\ paid \cap lost = {}
      /\ paid \cup lost \subseteq ItemsIn(b)
  BY DEF ItemsIn, Having, Open
<1>2. IsFiniteSet(ItemsIn(b)) /\ Cardinality(ItemsIn(b)) = ItemCount(b)
  BY ItemsCounted
<1>3. batch[b].success = Cardinality(paid) /\ batch[b].failure = Cardinality(lost)
  BY DEF CountsOrderly
<1> HIDE DEF paid, lost
<1>4. IsFiniteSet(ItemsIn(b) \ {i}) /\ Cardinality(ItemsIn(b) \ {i}) = ItemCount(b) - 1
  BY <1>1, <1>2, FS_RemoveElement
<1>5. IsFiniteSet(paid) /\ IsFiniteSet(lost)
  BY <1>1, <1>2, FS_Subset
<1>6. Cardinality(paid \cup lost) = Cardinality(paid) + Cardinality(lost)
  <2>1. Cardinality(paid \cup lost) = Cardinality(paid) + Cardinality(lost)
                                        - Cardinality(paid \cap lost)
    BY <1>5, FS_Union
  <2>2. Cardinality(paid \cap lost) = 0
    BY <1>1, FS_EmptySet
  <2>3. Cardinality(paid) \in Nat /\ Cardinality(lost) \in Nat
    BY <1>5, FS_CardinalityType
  <2> QED BY <2>1, <2>2, <2>3
<1>7. Cardinality(paid \cup lost) <= ItemCount(b) - 1
  <2>1. paid \cup lost \subseteq ItemsIn(b) \ {i}
    BY <1>1
  <2> QED BY <1>4, <2>1, FS_Subset
<1>8. batch[b].success + batch[b].failure < ItemCount(b)
  BY <1>3, <1>5, <1>6, <1>7, AmountsType, FS_CardinalityType
<1>9. batch[b].status # "none"
  BY DEF Orderly, ItemsOrderly, ItemOrderly, Open
<1>10. RowOK(b, batch[b]) /\ ItemCount(b) \in Nat
  BY AmountsType DEF IInv, BatchesOK
<1> QED BY <1>8, <1>9, <1>10 DEF RowOK, Counted, BatchRow

\* The same items as before have the status.
LEMMA HavingSame ==
    ASSUME NEW b \in Batches, NEW st,
           \A i \in ItemsIn(b) : item'[i].status = st <=> item[i].status = st
    PROVE  Having(b, st)' = Having(b, st)
BY DEF Having, ItemsIn

\* No counter has counted anything in the initial state.
LEMMA InitCounts == Init => CountsOrderly
<1> SUFFICES ASSUME Init, NEW b \in Batches
             PROVE  /\ batch[b].success = Cardinality(Having(b, "success"))
                    /\ batch[b].failure = Cardinality(Having(b, "failed"))
                    /\ batch[b].status = "failed" <=>
                          (batch[b].status # "none" /\ batch[b].failure = ItemCount(b))
  BY DEF CountsOrderly
<1>1. Having(b, "success") = {} /\ Having(b, "failed") = {}
  BY DEF Init, Having, ItemsIn, NoItem
<1>2. batch[b].status = "none" /\ batch[b].success = 0 /\ batch[b].failure = 0
  BY FreshTypes DEF Init
<1> QED BY <1>1, <1>2, FS_EmptySet

\* A verdict adds its item to one of the two sets, and one to its counter.
LEMMA FinishItemCounts ==
    ASSUME IInv, Orderly, CountsOrderly, NEW w \in Workers, FinishItem(w)
    PROVE  CountsOrderly'
<1>1. PICK i \in Items, b \in Batches, paid \in BOOLEAN : Decides(i, b, paid)
  BY Verdict
<1>2. /\ b = BatchOf(i) /\ Open(i) /\ i \in ItemsIn(b)
      /\ item'[i].status = IF paid THEN "success" ELSE "failed"
      /\ \A k \in Items \ {i} : item'[k] = item[k]
      /\ \A c \in Batches \ {b} : batch'[c] = batch[c]
  BY <1>1 DEF Decides, ItemsIn
<1>3. /\ batch'[b].success = batch[b].success + (IF paid THEN 1 ELSE 0)
      /\ batch'[b].failure = batch[b].failure + (IF paid THEN 0 ELSE 1)
      /\ batch'[b].status =
           IF batch[b].success + batch[b].failure + 1 < ItemCount(b) THEN batch[b].status
           ELSE IF batch'[b].failure = ItemCount(b) THEN "failed" ELSE "completed"
  BY <1>1 DEF Decides
<1>4. ASSUME NEW c \in Batches \ {b}, NEW st PROVE Having(c, st)' = Having(c, st)
  BY <1>2, HavingSame DEF ItemsIn
<1>5. ASSUME NEW st \in {"success", "failed"}
      PROVE  Cardinality(Having(b, st)') =
                Cardinality(Having(b, st)) + (IF item'[i].status = st THEN 1 ELSE 0)
  <2>1. IsFiniteSet(Having(b, st)) /\ i \notin Having(b, st)
    <3>1. Having(b, st) \subseteq ItemsIn(b)
      BY DEF Having
    <3> QED BY <1>2, <3>1, ItemsCounted, FS_Subset DEF Having, Open
  <2>2. Having(b, st)' = Having(b, st) \cup (IF item'[i].status = st THEN {i} ELSE {})
    BY <1>2, <2>1 DEF Having, ItemsIn
  <2>3. Cardinality(Having(b, st)) \in Nat
    BY <2>1, FS_CardinalityType
  <2>4. CASE item'[i].status = st
    <3>1. Having(b, st)' = Having(b, st) \cup {i}
      BY <2>2, <2>4
    <3>2. Cardinality(Having(b, st) \cup {i}) = Cardinality(Having(b, st)) + 1
      BY <2>1, FS_AddElement
    <3> QED BY <2>4, <3>1, <3>2
  <2>5. CASE item'[i].status # st
    <3>1. Having(b, st)' = Having(b, st)
      BY <2>2, <2>5
    <3> QED BY <2>3, <2>5, <3>1
  <2> QED BY <2>4, <2>5
<1>6. /\ batch'[b].success = Cardinality(Having(b, "success")')
      /\ batch'[b].failure = Cardinality(Having(b, "failed")')
  <2>1. /\ batch[b].success = Cardinality(Having(b, "success"))
        /\ batch[b].failure = Cardinality(Having(b, "failed"))
        /\ batch[b].success \in Nat /\ batch[b].failure \in Nat
    BY DEF CountsOrderly, IInv, BatchesOK, BatchRow
  <2>2. /\ Cardinality(Having(b, "success")') =
              Cardinality(Having(b, "success")) + (IF item'[i].status = "success" THEN 1 ELSE 0)
        /\ Cardinality(Having(b, "failed")') =
              Cardinality(Having(b, "failed")) + (IF item'[i].status = "failed" THEN 1 ELSE 0)
    BY <1>5
  <2>3. (item'[i].status = "success" <=> paid) /\ (item'[i].status = "failed" <=> ~paid)
    BY <1>2
  <2> QED BY <1>3, <2>1, <2>2, <2>3
<1>7. batch'[b].status = "failed" <=>
         (batch'[b].status # "none" /\ batch'[b].failure = ItemCount(b))
  <2>1. /\ batch[b].success + batch[b].failure < ItemCount(b)
        /\ batch[b].status \notin {"completed", "failed", "none"}
        /\ batch[b].success \in Nat /\ batch[b].failure \in Nat /\ ItemCount(b) \in Nat
    BY <1>2, NotClosedYet, AmountsType DEF Terminal, IInv, BatchesOK, BatchRow
  <2>2. batch'[b].failure \in Nat /\ batch'[b].failure <= batch[b].success + batch[b].failure + 1
    BY <1>3, <2>1
  <2> QED BY <1>3, <2>1, <2>2
<1> QED BY <1>2, <1>4, <1>6, <1>7 DEF CountsOrderly

\* No step that writes rows loses count.
LEMMA NextCounts ==
    ASSUME IInv, Orderly, CountsOrderly, [Next]_vars
    PROVE  CountsOrderly'
<1>1. CASE UNCHANGED <<batch, item>>
  BY <1>1 DEF CountsOrderly, Having, ItemsIn
<1>2. ASSUME NEW u \in Users, NEW b \in Batches, Create(u, b) PROVE CountsOrderly'
  <2> DEFINE row == [NewBatch EXCEPT !.status = "draft", !.createdBy = u]
  <2>1. /\ batch' = [batch EXCEPT ![b] = row] /\ batch \in [Batches -> BatchRow]
        /\ \A i \in Items : item'[i] = IF BatchOf(i) = b THEN [NoItem EXCEPT !.status = "pending"]
                                                         ELSE item[i]
    BY <1>2 DEF Create, IInv, BatchesOK
  <2>2. row.status = "draft" /\ row.success = 0 /\ row.failure = 0
    BY FreshTypes DEF NewBatch
  <2> HIDE DEF row
  <2>3. \A c \in Batches : batch'[c] = IF c = b THEN row ELSE batch[c]
    BY <2>1
  <2>4. Having(b, "success")' = {} /\ Having(b, "failed")' = {}
    BY <2>1 DEF Having, ItemsIn, NoItem
  <2>5. \A c \in Batches \ {b} : /\ Having(c, "success")' = Having(c, "success")
                                 /\ Having(c, "failed")' = Having(c, "failed")
    BY <2>1 DEF Having, ItemsIn
  <2>6. ItemCount(b) # 0
    BY AmountsType
  <2> QED BY <2>2, <2>3, <2>4, <2>5, <2>6, FS_EmptySet DEF CountsOrderly
<1>3. ASSUME NEW s \in Sessions, SaveValidated(s) \/ SaveProcessing(s) PROVE CountsOrderly'
  <2>1. PICK b \in Batches, row \in BatchRow :
             /\ batch' = [batch EXCEPT ![b] = row] /\ UNCHANGED item
             /\ row.success = batch[b].success /\ row.failure = batch[b].failure
             /\ batch[b].status \in {"draft", "validated"}
             /\ row.status \in {"validated", "processing"}
    BY <1>3, SavedRow
  <2>2. \A c \in Batches : batch'[c] = IF c = b THEN row ELSE batch[c]
    BY <2>1 DEF IInv, BatchesOK
  <2>3. \A c \in Batches, st \in {"success", "failed"} : Having(c, st)' = Having(c, st)
    BY <2>1 DEF Having, ItemsIn
  <2> QED BY <2>1, <2>2, <2>3 DEF CountsOrderly
<1>4. ASSUME NEW w \in Workers, MarkRetrying(w) PROVE CountsOrderly'
  <2>1. PICK i \in Items : /\ Open(i) /\ item'[i].status = "retrying" /\ UNCHANGED batch
                           /\ \A k \in Items \ {i} : item'[k] = item[k]
    BY <1>4, Retried
  <2>2. \A c \in Batches, st \in {"success", "failed"} : Having(c, st)' = Having(c, st)
    BY <2>1 DEF Having, ItemsIn, Open
  <2> QED BY <2>1, <2>2 DEF CountsOrderly
<1> QED BY <1>1, <1>2, <1>3, <1>4, FinishItemCounts, StepKinds DEF SettleItem

\* The counts are kept.
LEMMA CountsHold == ASSUME NoTornMoves PROVE Spec /\ []TakeTurns => []CountsOrderly
<1>1. IInv /\ Orderly /\ CountsOrderly /\ [Next]_vars => CountsOrderly'
  BY NextCounts
<1> QED BY <1>1, InitCounts, IInvHolds, OrderlyHolds, PTL DEF Spec

\* The counters of a batch tell how many of its items are paid and how many have
\* failed, each counted once, and the verdict on the batch follows from the items
\* (batch.go:298-320).
THEOREM CountersAlwaysMatch == NoTornMoves => (Spec /\ []TakeTurns => []CountersMatchItems)
<1> SUFFICES ASSUME NoTornMoves PROVE Spec /\ []TakeTurns => []CountersMatchItems
  OBVIOUS
<1>1. CountsOrderly => CountersMatchItems
  <2> SUFFICES ASSUME CountsOrderly, NEW b \in Batches
               PROVE  /\ batch[b].success = Cardinality(Having(b, "success"))
                      /\ batch[b].failure = Cardinality(Having(b, "failed"))
                      /\ batch[b].status = "failed" <=>
                            (batch[b].status # "none" /\ Having(b, "failed") = ItemsIn(b))
    BY DEF CountersMatchItems, Having
  <2>1. batch[b].failure = ItemCount(b) <=> Having(b, "failed") = ItemsIn(b)
    <3>1. Having(b, "failed") \subseteq ItemsIn(b)
      BY DEF Having
    <3> QED BY <3>1, ItemsCounted, FS_Subset DEF CountsOrderly
  <2> QED BY <2>1 DEF CountsOrderly
<1> QED BY <1>1, CountsHold, PTL

\* What is decided stays decided: a paid or failed item and a closed batch are
\* never written again (batch.go:277-323, disbursement.go:104-130).
THEOREM FinalStaysFinal == NoTornMoves => (Spec /\ []TakeTurns => FinalIsFinal)
<1> SUFFICES ASSUME NoTornMoves PROVE Spec /\ []TakeTurns => FinalIsFinal
  OBVIOUS
<1> DEFINE Kept == /\ \A i \in Items : item[i].status \in {"success", "failed"} => item'[i] = item[i]
                   /\ \A b \in Batches : batch[b].status \in Terminal => batch'[b] = batch[b]
<1>1. IInv /\ Orderly /\ CountsOrderly /\ [Next]_vars => [Kept]_vars
  <2> SUFFICES ASSUME IInv, Orderly, CountsOrderly, [Next]_vars PROVE Kept
    OBVIOUS
  <2>1. CASE UNCHANGED <<batch, item>>
    BY <2>1
  <2>2. ASSUME NEW u \in Users, NEW b \in Batches, Create(u, b) PROVE Kept
    <3>1. batch[b].status = "none" /\ \A i \in ItemsIn(b) : item[i].status = "none"
      BY <2>2 DEF Create, ItemsIn, Orderly, ItemsOrderly, ItemOrderly
    <3>2. /\ \A c \in Batches \ {b} : batch'[c] = batch[c]
          /\ \A i \in Items \ ItemsIn(b) : item'[i] = item[i]
      BY <2>2 DEF Create, ItemsIn, IInv, BatchesOK
    <3> QED BY <3>1, <3>2 DEF Terminal
  <2>3. ASSUME NEW s \in Sessions, SaveValidated(s) \/ SaveProcessing(s) PROVE Kept
    <3>1. PICK b \in Batches, row \in BatchRow :
               /\ batch' = [batch EXCEPT ![b] = row] /\ UNCHANGED item
               /\ batch[b].status \in {"draft", "validated"}
      BY <2>3, SavedRow
    <3> QED BY <3>1 DEF IInv, BatchesOK, Terminal
  <2>4. ASSUME NEW w \in Workers, MarkRetrying(w) PROVE Kept
    BY <2>4, Retried DEF Open
  <2>5. ASSUME NEW w \in Workers, FinishItem(w) PROVE Kept
    BY <2>5, Verdict, NotClosedYet DEF Decides, Open
  <2> HIDE DEF Kept
  <2> QED BY <2>1, <2>2, <2>3, <2>4, <2>5, StepKinds DEF SettleItem
<1>2. Spec /\ []TakeTurns => [][Kept]_vars
  <2> HIDE DEF Kept
  <2> QED BY <1>1, IInvHolds, OrderlyHolds, CountsHold, PTL DEF Spec
<1> QED BY <1>2 DEF FinalIsFinal

-----------------------------------------------------------------------------
(* The settlements and the provision they are taken from.                  *)

Dues == [i \in Items |-> Due(i)]

\* What the settlements of an item take out of the blocked balance.
Takes == [i \in Items |-> Amount[i] * Settlements(i) + settled[i].carried]

CarriedShares == \A i \in Items : settled[i].carried = Share(i) * Settlements(i)

\* The shares of the items of a batch add up to its commission.
LEMMA SharesAddUp ==
    ASSUME NEW b \in Batches, NEW s, \A k \in 1..ItemCount(b) : s[k] = Share(ItemsOf[b][k])
    PROVE  SumFunctionOnSet(s, 1..ItemCount(b)) = CommissionAmount(b)
<1>1. PICK n \in Nat \ {0} : n = ItemCount(b)
  BY AmountsType
<1>2. CommissionAmount(b) \in Nat
  BY AmountsType
<1>3. \A k \in 1..n : s[k] \in Int
  BY <1>1, ShareOfItem
<1>4. SumFunctionOnSet(s, 1..n) = s[n] + SumFunctionOnSet(s, 1..(n - 1))
  BY <1>1, <1>3, SumOfFirst
<1>5. SumFunctionOnSet(s, 1..(n - 1)) = SumFunctionOnSet(FloorsIn(b), 1..(n - 1))
  <2>1. IsFiniteSet(1..(n - 1))
    BY FS_Interval
  <2>2. \A k \in 1..(n - 1) : s[k] = FloorsIn(b)[k]
    BY <1>1, ShareOfItem
  <2> QED BY <2>1, <2>2, SumCongruent
<1>6. s[n] = Rest(b, n) /\ s[n] \in Nat
  BY <1>1, ShareOfItem
<1>7. SumFunctionOnSet(FloorsIn(b), 1..(n - 1)) \in Int
  <2>1. \A k \in 1..n : FloorsIn(b)[k] \in Int
    BY <1>1, RestStep
  <2> QED BY <2>1, SumOfFirst
<1> QED BY <1>1, <1>2, <1>4, <1>5, <1>6, <1>7 DEF Rest

\* What is due for the items of a batch is its provision.
LEMMA ProvisionIsDue ==
    ASSUME NEW b \in Batches
    PROVE  SumFunctionOnSet(Dues, ItemsIn(b)) = ProvisionAmount(b)
<1> DEFINE D == 1..ItemCount(b)
           h == ItemsOf[b]
           a == AmountsIn(b)
           s == [k \in D |-> Share(h[k])]
           d == [k \in D |-> Due(h[k])]
<1>1. IsFiniteSet(D) /\ \A k \in D : h[k] \in Items /\ h[k] \in ItemsIn(b)
  <2>1. ItemCount(b) \in Nat /\ \A k \in D : h[k] \in Items
    BY AmountsType
  <2>2. \A k \in D : BatchOf(h[k]) = b
    BY BatchOfUnique
  <2>3. IsFiniteSet(D)
    BY <2>1, FS_Interval
  <2> QED BY <2>1, <2>2, <2>3 DEF ItemsIn
<1>2. \A k \in D : /\ a[k] = Amount[h[k]] /\ a[k] \in Int /\ s[k] = Share(h[k]) /\ s[k] \in Int
                   /\ d[k] = Due(h[k]) /\ d[k] = a[k] + s[k]
  <2> SUFFICES ASSUME NEW k \in D
               PROVE  /\ a[k] = Amount[h[k]] /\ a[k] \in Int /\ s[k] = Share(h[k]) /\ s[k] \in Int
                      /\ d[k] = Due(h[k]) /\ d[k] = a[k] + s[k]
    OBVIOUS
  <2>1. a[k] = Amount[h[k]] /\ s[k] = Share(h[k]) /\ d[k] = Due(h[k])
    BY DEF AmountsIn
  <2>2. PICK i \in Items : i = h[k]
    BY <1>1
  <2>3. Amount[i] \in Nat /\ Share(i) \in Nat /\ Due(i) = Amount[i] + Share(i)
    BY ShareType DEF Due, ConstantAssumption
  <2> HIDE DEF a, s, d
  <2> QED BY <2>1, <2>2, <2>3
<1>3. ItemsIn(b) = {h[k] : k \in D}
  BY <1>1, ItemListed DEF ItemsIn
<1>4. \A k, m \in D : h[k] = h[m] => k = m
  BY ListedOnce
<1>5. \A k \in D : Dues[h[k]] = d[k]
  BY <1>1 DEF Dues
<1>6. TotalAmount(b) = SumFunctionOnSet(a, D)
  BY BatchDivided
<1>7. SumFunctionOnSet(s, D) = CommissionAmount(b)
  <2> HIDE DEF s
  <2> QED BY <1>2, SharesAddUp
<1> HIDE DEF D, h, a, s, d
<1>8. SumFunctionOnSet(Dues, {h[k] : k \in D}) = SumFunctionOnSet(d, D)
  <2>1. \A k \in D : d[k] \in Int
    BY <1>2
  <2> QED BY <1>1, <1>4, <1>5, <2>1, SumReindex
<1>9. SumFunctionOnSet(d, D) = SumFunctionOnSet(a, D) + SumFunctionOnSet(s, D)
  BY <1>1, <1>2, SumOfSums
<1> QED BY <1>3, <1>6, <1>7, <1>8, <1>9 DEF ProvisionAmount

\* Every settlement carries the share of its item: the jobs do, wherever they
\* have been (batch.go:224-235, disbursement.go:171, 209).
THEOREM SettlementsCarryShares == Spec => []CarriedShares
<1>1. Init => CarriedShares
  <2> SUFFICES ASSUME Init, NEW i \in Items
               PROVE  settled[i].carried = Share(i) * Settlements(i)
    BY DEF CarriedShares
  <2>1. settled[i].carried = 0 /\ Settlements(i) = 0
    BY DEF Init, Settlements
  <2> QED BY <2>1, ShareType
<1>2. IInv /\ SharesOK /\ CarriedShares /\ [Next]_vars => CarriedShares'
  <2> SUFFICES ASSUME IInv, SharesOK, CarriedShares, [Next]_vars PROVE CarriedShares'
    OBVIOUS
  <2>1. CASE UNCHANGED settled
    BY <2>1 DEF CarriedShares, Settlements
  <2>2. ASSUME NEW w \in Workers, SettleItem(w) PROVE CarriedShares'
    <3>1. PICK i \in Items, paid \in BOOLEAN :
             /\ SettledOnce(i, paid)
             /\ settled'[i].carried = settled[i].carried + Share(i)
      BY <2>2, SettleItemRecords, WorkerBusy DEF SettleItem, SharesOK, HandShares, ShareJob
    <3>2. /\ settled[i].charged \in Nat /\ settled[i].refunded \in Nat /\ Share(i) \in Nat
          /\ settled[i].carried = Share(i) * Settlements(i)
      BY ShareType DEF IInv, RecordsOK, CarriedShares
    <3>3. Settlements(i)' = Settlements(i) + 1 /\ Settlements(i) \in Nat
      BY <3>1, <3>2 DEF SettledOnce, Settlements
    <3>4. Share(i) * (Settlements(i) + 1) = Share(i) * Settlements(i) + Share(i) * 1
      BY <3>2, <3>3, Distributes
    <3>5. settled'[i].carried = Share(i) * Settlements(i)'
      BY <3>1, <3>2, <3>3, <3>4
    <3>6. \A k \in Items \ {i} : settled'[k].carried = Share(k) * Settlements(k)'
      BY <3>1 DEF SettledOnce, CarriedShares, Settlements
    <3> QED BY <3>5, <3>6 DEF CarriedShares
  <2> QED BY <2>1, <2>2, StepKinds
          DEF Create, SaveValidated, SaveProcessing, FinishItem, MarkRetrying, historyVars
<1> QED BY <1>1, <1>2, IInvHolds, SharesHold, PTL DEF Spec

\* What the settlements of an item take: what it is due, if it is settled.
LEMMA TakesDue ==
    ASSUME IInv, Orderly, CarriedShares, NEW i \in Items
    PROVE  /\ Takes[i] = IF Settlements(i) = 1 THEN Dues[i] ELSE 0
           /\ Dues[i] \in Nat \ {0}
<1>1. Settlements(i) \in {0, 1}
  BY DEF Settlements, IInv, RecordsOK, Orderly, ItemsOrderly, ItemOrderly
<1>2. PICK a \in Nat \ {0}, s \in Nat : a = Amount[i] /\ s = Share(i)
  BY ShareType DEF ConstantAssumption
<1>3. Takes[i] = a * Settlements(i) + s * Settlements(i) /\ Dues[i] = a + s
  BY <1>2 DEF Takes, Dues, Due, CarriedShares
<1> QED BY <1>1, <1>2, <1>3

\* A sum of positive numbers over some elements.
LEMMA SomeArePositive ==
    ASSUME NEW f, NEW S, IsFiniteSet(S), \A x \in S : f[x] \in Nat \ {0}
    PROVE  SumFunctionOnSet(f, S) \in Nat /\ (SumFunctionOnSet(f, S) = 0 <=> S = {})
<1>1. SumFunctionOnSet(f, S) \in Nat /\ SumFunctionOnSet(f, {}) = 0
  BY SumType
<1>2. ASSUME NEW x \in S PROVE SumFunctionOnSet(f, S) > 0
  <2>1. SumFunctionOnSet(f, S) = f[x] + SumFunctionOnSet(f, S \ {x})
    BY SumRemove
  <2>2. IsFiniteSet(S \ {x}) /\ \A y \in S \ {x} : f[y] \in Nat
    BY FS_RemoveElement
  <2>3. SumFunctionOnSet(f, S \ {x}) \in Nat
    BY <2>2, SumType
  <2> QED BY <2>1, <2>3
<1> QED BY <1>1, <1>2

\* However workers, retries and dropped jobs interleave, the settlements of a batch
\* never take more than its provision, and take all of it exactly when each item
\* has been settled (batch.go:137, 224-253; disbursement.go:104-212).
THEOREM SettledWithinProvisionHolds ==
    NoTornMoves => (Spec /\ []TakeTurns => []SettledWithinProvision)
<1> SUFFICES ASSUME NoTornMoves PROVE Spec /\ []TakeTurns => []SettledWithinProvision
  OBVIOUS
<1>1. IInv /\ Orderly /\ CarriedShares => SettledWithinProvision
  <2> SUFFICES ASSUME IInv, Orderly, CarriedShares, NEW b \in Batches
               PROVE  LET Taken == SumFunction([i \in ItemsIn(b) |->
                                      Amount[i] * Settlements(i) + settled[i].carried])
                      IN  /\ Taken <= ProvisionAmount(b)
                          /\ Taken = ProvisionAmount(b)
                               <=> \A i \in ItemsIn(b) : Settlements(i) = 1
    BY DEF SettledWithinProvision
  <2> DEFINE g == [i \in ItemsIn(b) |-> Amount[i] * Settlements(i) + settled[i].carried]
             P == {i \in ItemsIn(b) : Settlements(i) = 1}
             R == ItemsIn(b) \ P
  <2>1. IsFiniteSet(ItemsIn(b)) /\ ItemsIn(b) \subseteq Items
    BY ItemsCounted DEF ItemsIn
  <2>2. IsFiniteSet(P) /\ IsFiniteSet(R) /\ P \cap R = {} /\ P \cup R = ItemsIn(b)
    BY <2>1, FS_Subset
  <2>3. /\ \A i \in P : Takes[i] = Dues[i]
        /\ \A i \in R : Takes[i] = 0
        /\ \A i \in ItemsIn(b) : Takes[i] \in Nat /\ Dues[i] \in Nat \ {0}
    BY <2>1, TakesDue
  <2>4. SumFunction(g) = SumFunctionOnSet(Takes, ItemsIn(b))
    <3>1. DOMAIN g = ItemsIn(b) /\ \A i \in ItemsIn(b) : g[i] = Takes[i]
      BY <2>1 DEF Takes
    <3> HIDE DEF g
    <3> QED BY <2>1, <3>1, SumOfValues
  <2>5. R = {} <=> \A i \in ItemsIn(b) : Settlements(i) = 1
    OBVIOUS
  <2> HIDE DEF g, P, R
  <2>6. SumFunctionOnSet(Takes, ItemsIn(b)) = SumFunctionOnSet(Takes, P) + SumFunctionOnSet(Takes, R)
    <3>1. \A i \in P \cup R : Takes[i] \in Int
      BY <2>2, <2>3
    <3>2. SumFunctionOnSet(Takes, P \cup R)
             = SumFunctionOnSet(Takes, P) + SumFunctionOnSet(Takes, R)
      BY <2>2, <3>1, SumUnion
    <3> QED BY <2>2, <3>2
  <2>7. ProvisionAmount(b) = SumFunctionOnSet(Dues, P) + SumFunctionOnSet(Dues, R)
    <3>1. \A i \in P \cup R : Dues[i] \in Int
      BY <2>2, <2>3
    <3>2. SumFunctionOnSet(Dues, P \cup R)
             = SumFunctionOnSet(Dues, P) + SumFunctionOnSet(Dues, R)
      BY <2>2, <3>1, SumUnion
    <3> QED BY <2>2, <3>2, ProvisionIsDue
  <2>8. SumFunctionOnSet(Takes, P) = SumFunctionOnSet(Dues, P)
    BY <2>2, <2>3, SumCongruent
  <2>9. SumFunctionOnSet(Takes, R) = 0
    BY <2>2, <2>3, SumOfZeros
  <2>10. /\ SumFunctionOnSet(Dues, P) \in Nat /\ SumFunctionOnSet(Dues, R) \in Nat
         /\ SumFunctionOnSet(Dues, R) = 0 <=> R = {}
    <3>1. (\A i \in P : Dues[i] \in Nat \ {0}) /\ \A i \in R : Dues[i] \in Nat \ {0}
      BY <2>2, <2>3
    <3> QED BY <2>2, <3>1, SomeArePositive
  <2>11. /\ SumFunction(g) <= ProvisionAmount(b)
         /\ SumFunction(g) = ProvisionAmount(b) <=> R = {}
    BY <2>4, <2>6, <2>7, <2>8, <2>9, <2>10
  <2> QED BY <2>5, <2>11 DEF g
<1> QED BY <1>1, IInvHolds, OrderlyHolds, SettlementsCarryShares, PTL

\* Item i is settled, once, the way its verdict says.
Pays(i, paid) ==
    /\ item[i].status = IF paid THEN "success" ELSE "failed"
    /\ Settlements(i) = 0 /\ settled[i].charged = 0 /\ settled[i].refunded = 0
    /\ UNCHANGED <<batch, item>>
    /\ settled'[i].charged = IF paid THEN 1 ELSE 0
    /\ settled'[i].refunded = IF paid THEN 0 ELSE 1
    /\ \A k \in Items \ {i} : settled'[k] = settled[k]

\* What SettleItem settles: an item with a verdict and no settlement.
LEMMA Payment ==
    ASSUME IInv, Orderly, NEW w \in Workers, SettleItem(w)
    PROVE  \E i \in Items, paid \in BOOLEAN : Pays(i, paid)
<1>1. PICK i \in Items, paid \in BOOLEAN : i = worker[w].job.item /\ paid = worker[w].paid
  BY WorkerBusy DEF SettleItem
<1>2. i \in Held /\ i \notin Settled
  BY <1>1 DEF SettleItem, Held, Busy, Orderly, ItemsOrderly, Exclusive
<1>3. Settlements(i) = 0 /\ settled[i].charged = 0 /\ settled[i].refunded = 0
  BY <1>2, Unsettled
<1>4. item[i].status = IF paid THEN "success" ELSE "failed"
  BY <1>1 DEF SettleItem, Orderly, HandsOrderly, HandOrderly
<1>5. UNCHANGED <<batch, item>>
  BY DEF SettleItem
<1>6. SettledOnce(i, paid)
  BY <1>1, SettleItemRecords
<1> QED BY <1>3, <1>4, <1>5, <1>6 DEF Pays, SettledOnce

-----------------------------------------------------------------------------
(* The promise to the tenant: every step is a step of Payout, or none.     *)

Stage == [b \in Batches |-> batch[b].status]

Verdicts == [i \in Items |->
                CASE item[i].status = "none"    -> "none"
                  [] item[i].status = "success" -> "paid"
                  [] item[i].status = "failed"  -> "failed"
                  [] OTHER                      -> "open"]

Monies == [i \in Items |->
              CASE item[i].status = "none"  -> "none"
                [] settled[i].charged > 0   -> "gone"
                [] settled[i].refunded > 0  -> "back"
                [] OTHER                    -> "held"]

\* The steps of Payout, in terms of the three.
LEMMA PromisedSteps ==
    /\ UNCHANGED <<Stage, Verdicts, Monies>> => UNCHANGED Promise!payoutVars
    /\ \A b \in Batches :
          /\ Stage[b] = "none"
          /\ Stage' = [Stage EXCEPT ![b] = "draft"]
          /\ Verdicts' = [i \in Items |-> IF i \in ItemsIn(b) THEN "open" ELSE Verdicts[i]]
          /\ Monies' = [i \in Items |-> IF i \in ItemsIn(b) THEN "held" ELSE Monies[i]]
          => Promise!Next
    /\ \A b \in Batches, steps \in {<<"draft", "validated">>, <<"validated", "processing">>} :
          /\ Stage[b] = steps[1] /\ Stage' = [Stage EXCEPT ![b] = steps[2]]
          /\ UNCHANGED <<Verdicts, Monies>>
          => Promise!Next
    /\ \A b \in Batches, i \in Items, v \in {"paid", "failed"} :
          /\ Stage[b] = "processing" /\ i \in ItemsIn(b) /\ Verdicts[i] = "open"
          /\ Verdicts' = [Verdicts EXCEPT ![i] = v]
          /\ Stage' = IF \E j \in ItemsIn(b) : Verdicts'[j] = "open" THEN Stage
                      ELSE [Stage EXCEPT ![b] =
                              IF \E j \in ItemsIn(b) : Verdicts'[j] = "paid" THEN "completed"
                                                                             ELSE "failed"]
          /\ UNCHANGED Monies
          => Promise!Next
    /\ \A i \in Items :
          /\ Monies[i] = "held" /\ UNCHANGED <<Stage, Verdicts>>
          /\ \/ Verdicts[i] = "paid" /\ Monies' = [Monies EXCEPT ![i] = "gone"]
             \/ Verdicts[i] = "failed" /\ Monies' = [Monies EXCEPT ![i] = "back"]
          => Promise!Next
<1>1. UNCHANGED <<Stage, Verdicts, Monies>> => UNCHANGED Promise!payoutVars
  BY DEF Stage, Verdicts, Monies, Promise!payoutVars
<1>2. ASSUME NEW b \in Batches,
          /\ Stage[b] = "none"
          /\ Stage' = [Stage EXCEPT ![b] = "draft"]
          /\ Verdicts' = [i \in Items |-> IF i \in ItemsIn(b) THEN "open" ELSE Verdicts[i]]
          /\ Monies' = [i \in Items |-> IF i \in ItemsIn(b) THEN "held" ELSE Monies[i]]
      PROVE Promise!Next
  <2>1. Promise!Open(b)
    BY <1>2 DEF Stage, Verdicts, Monies, Promise!Open
  <2> QED BY <2>1 DEF Promise!Next
<1>3. ASSUME NEW b \in Batches,
             NEW steps \in {<<"draft", "validated">>, <<"validated", "processing">>},
             Stage[b] = steps[1], Stage' = [Stage EXCEPT ![b] = steps[2]],
             UNCHANGED <<Verdicts, Monies>>
      PROVE  Promise!Next
  <2>1. Promise!Advance(b, steps[1], steps[2])
    BY <1>3 DEF Stage, Verdicts, Monies, Promise!Advance
  <2>2. Promise!Advance(b, "draft", "validated") \/ Promise!Advance(b, "validated", "processing")
    BY <2>1
  <2> QED BY <2>2 DEF Promise!Next
<1>4. ASSUME NEW b \in Batches, NEW i \in Items, NEW v \in {"paid", "failed"},
          /\ Stage[b] = "processing" /\ i \in ItemsIn(b) /\ Verdicts[i] = "open"
          /\ Verdicts' = [Verdicts EXCEPT ![i] = v]
          /\ Stage' = IF \E j \in ItemsIn(b) : Verdicts'[j] = "open" THEN Stage
                      ELSE [Stage EXCEPT ![b] =
                              IF \E j \in ItemsIn(b) : Verdicts'[j] = "paid" THEN "completed"
                                                                             ELSE "failed"]
          /\ UNCHANGED Monies
      PROVE  Promise!Next
  <2>1. Promise!Conclude(b, i, v)
    BY <1>4 DEF Stage, Verdicts, Monies, Promise!Conclude
  <2> QED BY <2>1 DEF Promise!Next
<1>5. ASSUME NEW i \in Items,
          /\ Monies[i] = "held" /\ UNCHANGED <<Stage, Verdicts>>
          /\ \/ Verdicts[i] = "paid" /\ Monies' = [Monies EXCEPT ![i] = "gone"]
             \/ Verdicts[i] = "failed" /\ Monies' = [Monies EXCEPT ![i] = "back"]
      PROVE  Promise!Next
  <2>1. Promise!PayOut(i) \/ Promise!GiveBack(i)
    BY <1>5 DEF Stage, Verdicts, Monies, Promise!PayOut, Promise!GiveBack, Promise!Move
  <2> QED BY <2>1 DEF Promise!Next
<1> QED BY <1>1, <1>2, <1>3, <1>4, <1>5, Zenon

\* Two sets apart in a third fill it when their numbers do.
LEMMA TwoParts ==
    ASSUME NEW S, IsFiniteSet(S), NEW P, NEW L, P \cup L \subseteq S, P \cap L = {}
    PROVE  /\ Cardinality(P) \in Nat /\ Cardinality(L) \in Nat /\ Cardinality(S) \in Nat
           /\ P \cup L = S => Cardinality(P) + Cardinality(L) = Cardinality(S)
           /\ P \cup L # S => Cardinality(P) + Cardinality(L) < Cardinality(S)
           /\ L = S <=> Cardinality(L) = Cardinality(S)
<1>1. IsFiniteSet(P) /\ IsFiniteSet(L) /\ IsFiniteSet(P \cup L)
  BY FS_Subset
<1>2. Cardinality(P) \in Nat /\ Cardinality(L) \in Nat /\ Cardinality(S) \in Nat
  BY <1>1, FS_CardinalityType
<1>3. Cardinality(P \cup L) = Cardinality(P) + Cardinality(L) - Cardinality(P \cap L)
  BY <1>1, FS_Union
<1>4. Cardinality(P \cap L) = 0
  BY FS_EmptySet
<1>5. Cardinality(P \cup L) = Cardinality(P) + Cardinality(L)
  BY <1>2, <1>3, <1>4
<1>6. ASSUME NEW T, T \subseteq S PROVE Cardinality(T) <= Cardinality(S)
                                       /\ (T # S => Cardinality(T) < Cardinality(S))
  <2>1. Cardinality(T) \in Nat
    BY <1>6, FS_Subset, FS_CardinalityType
  <2> QED BY <1>2, <1>6, <2>1, FS_Subset
<1>7. L = S <=> Cardinality(L) = Cardinality(S)
  BY <1>2, <1>6
<1> QED BY <1>2, <1>5, <1>6, <1>7

\* The verdict on an item concludes it, and the last one closes the batch.
LEMMA FinishItemConcludes ==
    ASSUME IInv, Orderly, CountsOrderly, NEW w \in Workers, FinishItem(w)
    PROVE  Promise!Next
<1>1. PICK i \in Items, b \in Batches, paid \in BOOLEAN : Decides(i, b, paid)
  BY Verdict
<1>2. /\ b = BatchOf(i) /\ Open(i) /\ Started(b) /\ i \in ItemsIn(b)
      /\ item'[i].status = IF paid THEN "success" ELSE "failed"
      /\ \A k \in Items \ {i} : item'[k] = item[k]
      /\ \A c \in Batches \ {b} : batch'[c] = batch[c]
  BY <1>1 DEF Decides, ItemsIn
<1>3. /\ batch'[b].success = batch[b].success + (IF paid THEN 1 ELSE 0)
      /\ batch'[b].failure = batch[b].failure + (IF paid THEN 0 ELSE 1)
      /\ batch'[b].status =
           IF batch[b].success + batch[b].failure + 1 < ItemCount(b) THEN batch[b].status
           ELSE IF batch'[b].failure = ItemCount(b) THEN "failed" ELSE "completed"
  BY <1>1 DEF Decides
<1>4. UNCHANGED settled
  BY DEF FinishItem, historyVars
<1>5. batch[b].status = "processing" /\ batch[b].success \in Nat /\ batch[b].failure \in Nat
  BY <1>2, NotClosedYet DEF Started, Terminal, IInv, BatchesOK, BatchRow, BatchStatus
<1> DEFINE v == IF paid THEN "paid" ELSE "failed"
<1>6. Verdicts[i] = "open" /\ Verdicts' = [Verdicts EXCEPT ![i] = v]
  BY <1>2 DEF Verdicts, Open
<1>7. UNCHANGED Monies
  BY <1>2, <1>4 DEF Monies, Open
<1>8. PICK P, L, S : P = Having(b, "success")' /\ L = Having(b, "failed")' /\ S = ItemsIn(b)
  OBVIOUS
<1>9. /\ Cardinality(P) = batch'[b].success /\ Cardinality(L) = batch'[b].failure
      /\ IsFiniteSet(S) /\ Cardinality(S) = ItemCount(b)
  BY <1>8, FinishItemCounts, ItemsCounted DEF CountsOrderly
<1>10. P \cup L \subseteq S /\ P \cap L = {}
  BY <1>8 DEF Having, ItemsIn
<1>11. /\ (\E j \in ItemsIn(b) : Verdicts'[j] = "open") <=> P \cup L # S
       /\ (\E j \in ItemsIn(b) : Verdicts'[j] = "paid") <=> P # {}
  <2>1. \A j \in ItemsIn(b) : j \in Items /\ item[j].status \in ItemStatus \ {"none"}
    BY <1>5 DEF ItemsIn, Orderly, ItemsOrderly, ItemOrderly, IInv, RecordsOK, ItemRow
  <2>2. \A j \in ItemsIn(b) : item'[j].status \in ItemStatus \ {"none"}
    BY <1>2, <2>1 DEF ItemStatus
  <2>3. \A j \in ItemsIn(b) : /\ Verdicts'[j] = "open" <=> j \notin P \cup L
                              /\ Verdicts'[j] = "paid" <=> j \in P
    BY <1>8, <2>1, <2>2 DEF Verdicts, Having, ItemStatus
  <2> QED BY <1>8, <1>10, <2>3
<1>12. batch'[b].status = IF P \cup L # S THEN "processing"
                          ELSE IF P # {} THEN "completed" ELSE "failed"
  <2>1. Cardinality(P) + Cardinality(L) = batch[b].success + batch[b].failure + 1
    BY <1>3, <1>5, <1>9
  <2>2. /\ P \cup L = S => Cardinality(P) + Cardinality(L) = Cardinality(S)
        /\ P \cup L # S => Cardinality(P) + Cardinality(L) < Cardinality(S)
        /\ L = S <=> Cardinality(L) = Cardinality(S)
    BY <1>9, <1>10, TwoParts
  <2>3. P \cup L = S => (L = S <=> P = {})
    BY <1>10
  <2>4. CASE P \cup L # S
    BY <1>3, <1>5, <1>9, <2>1, <2>2, <2>4
  <2>5. CASE P \cup L = S
    <3>1. ~(batch[b].success + batch[b].failure + 1 < ItemCount(b))
      BY <1>5, <1>9, <2>1, <2>2, <2>5
    <3>2. batch'[b].failure = ItemCount(b) <=> P = {}
      BY <1>9, <2>2, <2>3, <2>5
    <3> QED BY <1>3, <2>5, <3>1, <3>2
  <2> QED BY <2>4, <2>5
<1>13. Stage' = IF P \cup L # S THEN Stage
                ELSE [Stage EXCEPT ![b] = IF P # {} THEN "completed" ELSE "failed"]
  BY <1>2, <1>5, <1>12 DEF Stage
<1>14. Stage[b] = "processing" /\ v \in {"paid", "failed"}
  BY <1>5 DEF Stage
<1>15. Stage' = IF \E j \in ItemsIn(b) : Verdicts'[j] = "open" THEN Stage
                ELSE [Stage EXCEPT ![b] =
                        IF \E j \in ItemsIn(b) : Verdicts'[j] = "paid" THEN "completed"
                                                                       ELSE "failed"]
  <2>1. CASE P \cup L # S
    BY <1>11, <1>13, <2>1
  <2>2. CASE P \cup L = S
    BY <1>11, <1>13, <2>2
  <2> QED BY <2>1, <2>2
<1> HIDE DEF v
<1> QED BY <1>2, <1>4, <1>6, <1>7, <1>14, <1>15, PromisedSteps

\* Every step is a promised one or changes nothing that was promised.
LEMMA NextPromised ==
    ASSUME IInv, Orderly, CountsOrderly, [Next]_vars
    PROVE  [Promise!Next]_(Promise!payoutVars)
<1>1. CASE UNCHANGED <<batch, item, settled>>
  BY <1>1, PromisedSteps DEF Stage, Verdicts, Monies
<1>2. ASSUME NEW u \in Users, NEW b \in Batches, Create(u, b) PROVE Promise!Next
  <2> DEFINE row == [NewBatch EXCEPT !.status = "draft", !.createdBy = u]
  <2>1. /\ batch[b].status = "none"
        /\ batch' = [batch EXCEPT ![b] = row] /\ batch \in [Batches -> BatchRow]
        /\ row.status = "draft"
        /\ UNCHANGED settled
    BY <1>2, FreshTypes DEF Create, IInv, BatchesOK, historyVars, NewBatch
  <2> HIDE DEF row
  <2>2. \A i \in Items : /\ i \in ItemsIn(b) => item'[i].status = "pending"
                         /\ i \notin ItemsIn(b) => item'[i] = item[i]
    BY <1>2 DEF Create, ItemsIn, NoItem
  <2>3. \A i \in ItemsIn(b) : settled[i].charged = 0 /\ settled[i].refunded = 0
    <3> SUFFICES ASSUME NEW i \in ItemsIn(b) PROVE settled[i].charged = 0 /\ settled[i].refunded = 0
      OBVIOUS
    <3>1. i \in Items /\ i \notin Settled
      BY <2>1 DEF ItemsIn, Orderly, ItemsOrderly, ItemOrderly, Started, Placed
    <3> QED BY <3>1, Unsettled
  <2>4. Stage[b] = "none" /\ Stage' = [Stage EXCEPT ![b] = "draft"]
    BY <2>1 DEF Stage
  <2>5. Verdicts' = [i \in Items |-> IF i \in ItemsIn(b) THEN "open" ELSE Verdicts[i]]
    BY <2>2 DEF Verdicts
  <2>6. Monies' = [i \in Items |-> IF i \in ItemsIn(b) THEN "held" ELSE Monies[i]]
    BY <2>1, <2>2, <2>3 DEF Monies
  <2> QED BY <2>1, <2>4, <2>5, <2>6, PromisedSteps
<1>3. ASSUME NEW s \in Sessions, SaveValidated(s) \/ SaveProcessing(s) PROVE Promise!Next
  <2>1. PICK b \in Batches, row \in BatchRow,
             steps \in {<<"draft", "validated">>, <<"validated", "processing">>} :
           /\ batch' = [batch EXCEPT ![b] = row] /\ UNCHANGED item
           /\ batch[b].status = steps[1] /\ row.status = steps[2]
    BY <1>3, SavedRow
  <2>2. UNCHANGED settled /\ batch \in [Batches -> BatchRow]
    BY <1>3 DEF SaveValidated, SaveProcessing, historyVars, IInv, BatchesOK
  <2>3. Stage[b] = steps[1] /\ Stage' = [Stage EXCEPT ![b] = steps[2]]
    BY <2>1, <2>2 DEF Stage
  <2>4. UNCHANGED <<Verdicts, Monies>>
    BY <2>1, <2>2 DEF Verdicts, Monies
  <2> QED BY <2>3, <2>4, PromisedSteps
<1>4. ASSUME NEW w \in Workers, MarkRetrying(w)
      PROVE  UNCHANGED Promise!payoutVars
  <2>1. UNCHANGED <<batch, settled>>
    BY <1>4 DEF MarkRetrying, historyVars
  <2>2. UNCHANGED <<Stage, Verdicts, Monies>>
    BY <1>4, <2>1, Retried DEF Stage, Verdicts, Monies, Open
  <2> QED BY <2>1, <2>2, PromisedSteps
<1>5. ASSUME NEW w \in Workers, SettleItem(w) PROVE Promise!Next
  <2>1. PICK i \in Items, paid \in BOOLEAN : Pays(i, paid)
    BY <1>5, Payment
  <2>2. Monies[i] = "held" /\ UNCHANGED <<Stage, Verdicts>>
        /\ Verdicts[i] = IF paid THEN "paid" ELSE "failed"
    BY <2>1 DEF Pays, Monies, Verdicts, Stage
  <2>3. Monies' = [Monies EXCEPT ![i] = IF paid THEN "gone" ELSE "back"]
    <3>0. /\ Monies = [k \in Items |-> Monies[k]]
          /\ Monies' = [k \in Items |-> Monies'[k]]
      BY DEF Monies
    <3>1. /\ UNCHANGED item
          /\ item[i].status \in {"success", "failed"}
          /\ \A k \in Items \ {i} : settled'[k] = settled[k]
      BY <2>1, <2>2 DEF Pays, Monies
    <3>2. \A k \in Items \ {i} : Monies'[k] = Monies[k]
      BY <3>1 DEF Monies
    <3>3. CASE paid
      <4>1. /\ settled'[i].charged > 0 /\ ~ (settled'[i].refunded > 0)
            /\ item'[i].status # "none"
        BY <2>1, <3>1, <3>3 DEF Pays
      <4>2. Monies'[i] = "gone"
        BY <4>1 DEF Monies
      <4>3. Monies' = [Monies EXCEPT ![i] = "gone"]
        BY <3>2, <4>2, <3>0
      <4> QED BY <3>3, <4>3
    <3>4. CASE ~paid
      <4>1. /\ ~ (settled'[i].charged > 0) /\ settled'[i].refunded > 0
            /\ item'[i].status # "none"
        BY <2>1, <3>1, <3>4 DEF Pays
      <4>2. Monies'[i] = "back"
        BY <4>1 DEF Monies
      <4>3. Monies' = [Monies EXCEPT ![i] = "back"]
        BY <3>2, <4>2, <3>0
      <4> QED BY <3>4, <4>3
    <3> QED BY <3>3, <3>4
  <2>4. CASE paid
    BY <2>2, <2>3, <2>4, PromisedSteps
  <2>5. CASE ~paid
    BY <2>2, <2>3, <2>5, PromisedSteps
  <2> QED BY <2>4, <2>5
<1> QED BY <1>1, <1>2, <1>3, <1>4, <1>5, FinishItemConcludes, StepKinds

\* Requests, jobs, queues and retries together implement Payout: each item gets
\* one verdict while its batch is processed, the last verdict closes the batch,
\* and an item is settled once, after its verdict and the way it says, whatever
\* the workers and the retries do (batch.go:137-323, disbursement.go:104-295).
THEOREM PayoutImplemented == NoTornMoves => (Spec /\ []TakeTurns => PayoutKept)
<1> SUFFICES ASSUME NoTornMoves PROVE Spec /\ []TakeTurns => PayoutKept
  OBVIOUS
<1>1. Init => Promise!Init
  BY DEF Init, Promise!Init, NewBatch, NoItem
<1>2. IInv /\ Orderly /\ CountsOrderly /\ [Next]_vars
        => [Promise!Next]_(Promise!payoutVars)
  BY NextPromised
<1> QED BY <1>1, <1>2, IInvHolds, OrderlyHolds, CountsHold, PTL
        DEF Spec, PayoutKept, Promise!Spec

=============================================================================
