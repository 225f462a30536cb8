----------------------------- MODULE BatchConsole -----------------------------
(***************************************************************************)
(* Batches as the tenant's pages make and launch them.  The page "Nouveau  *)
(* batch" composes one from the directory and from files, against a copy   *)
(* of the wallet taken when it opened, and launches it by three requests,  *)
(* create, validate, execute, any of which may fail and leave a batch      *)
(* behind.  The page of a batch validates and launches what is left, from  *)
(* the copy it loaded.  The server's Validate and Execute read the batch   *)
(* in one statement and save it in another.  Payment is the subject of     *)
(* Disbursement: here a launched batch just ends; and overlapping changes  *)
(* of one wallet are the subject of Wallet: here they come one by one.     *)
(***************************************************************************)
EXTENDS Naturals, Sequences, FiniteSets

CONSTANTS
    Directory,  \* the beneficiaries the page lists
    Flows,      \* sequences of requests of the composing page
    Views,      \* pages of a batch
    Unit,       \* the amount of a line
    PageRate,   \* commission of types.ts, per thousand
    Rate,       \* commission of the tenant, per thousand
    Threshold,  \* tenants.validation_threshold
    Limit,      \* tenants.batch_amount_limit
    Fund,       \* the wallet at first
    Top,        \* what a recharge brings
    MaxExtras,  \* bound: lines imported
    MaxEdits,   \* bound: selections and files
    MaxPresses, \* bound: launches pressed on the composing page
    MaxLooks,   \* bound: batch pages opened, buttons pressed there
    MaxEvents   \* bound: recharges, lost requests

ASSUME AmountsNatural ==
    {Unit, PageRate, Rate, Threshold, Limit, Fund, Top} \subseteq Nat
ASSUME FlowsAreNotViews == Flows \cap Views = {}
ASSUME DirectoryFinite == IsFiniteSet(Directory)
ASSUME BoundsNatural == MaxExtras \in Nat /\ MaxPresses \in Nat \ {0}

VARIABLES
    available,  \* wallets.available_balance
    batches,    \* the batches, in order of creation
    form,       \* the composing page
    job,        \* per flow and per batch page: the request under way
    view,       \* per batch page: what it shows
    unheard,    \* history: per composition, launches whose answer was lost
    spent       \* history: what the bounds count

server == <<available, batches>>
vars == <<server, form, job, view, unheard, spent>>

Jobs == Flows \cup Views
Compositions == 1..MaxPresses
NoPurse == [known |-> FALSE, amount |-> 0]
NoJob == [at |-> "idle", do |-> "load", batch |-> 0, lines |-> 0, comp |-> 1,
          fit |-> TRUE, own |-> FALSE, status |-> "none"]
NoView == [batch |-> 0, copy |-> "none", own |-> FALSE, busy |-> FALSE]

Init ==
    /\ available = Fund /\ batches = <<>>
    /\ form = [step |-> 2, picked |-> {}, extras |-> 0, reading |-> 0,
               purse |-> NoPurse, loading |-> FALSE, done |-> FALSE,
               comp |-> 1, last |-> 0, edited |-> FALSE]
    /\ job = [j \in Jobs |-> NoJob]
    /\ view = [v \in Views |-> NoView]
    /\ unheard = [c \in Compositions |-> 0]
    /\ spent = [edit |-> 0, press |-> 0, look |-> 0, event |-> 0]

Spend(what, max) == spent[what] < max /\ spent' = [spent EXCEPT ![what] = @ + 1]

Provision(mass, rate) == mass + (mass * rate) \div 1000
Mass == Unit * (Cardinality(form.picked) + form.extras)
Sufficient == form.purse.known /\ Provision(Mass, PageRate) <= form.purse.amount

Launched(b) == batches[b].launches > 0

-----------------------------------------------------------------------------
(* The composing page. *)

\* When it opens: the directory, all selected, and the wallet, once.
LoadForm ==
    /\ ~form.purse.known
    /\ form' = [form EXCEPT !.picked = Directory,
                            !.purse = [known |-> TRUE, amount |-> available]]
    /\ UNCHANGED <<server, job, view, unheard, spent>>

\* Step 2 asks for the lines, step 3 shows the total; step 1, which asks for a
\* name, is left out.
Go ==
    /\ ~form.done
    /\ form' = [form EXCEPT !.step = 5 - @]
    /\ UNCHANGED <<server, job, view, unheard, spent>>

\* toggle, one beneficiary; or all, or none.  Editing goes on while a launch is
\* under way.
Toggle(b) == IF b \in form.picked THEN form.picked \ {b} ELSE form.picked \cup {b}
Pick(picked) ==
    /\ form.step = 2 /\ ~form.done /\ form.purse.known /\ picked # form.picked
    /\ picked \in {{}, Directory} \cup {Toggle(b) : b \in Directory}
    /\ Spend("edit", MaxEdits)
    /\ form' = [form EXCEPT !.picked = picked, !.edited = TRUE]
    /\ UNCHANGED <<server, job, view, unheard>>

\* A file is chosen at step 2; the reader delivers its lines whenever it is done,
\* after those already there.
ChooseFile(n) ==
    /\ form.step = 2 /\ ~form.done /\ form.reading = 0
    /\ form.extras + n <= MaxExtras /\ Spend("edit", MaxEdits)
    /\ form' = [form EXCEPT !.reading = n]
    /\ UNCHANGED <<server, job, view, unheard>>

FileRead ==
    /\ form.reading > 0
    /\ form' = [form EXCEPT !.extras = @ + form.reading, !.reading = 0, !.edited = TRUE]
    /\ UNCHANGED <<server, job, view, unheard, spent>>

\* The cross of a line, or Vider.
DropExtras(n) ==
    /\ form.step = 2 /\ ~form.done /\ form.extras > 0 /\ n \in {form.extras - 1, 0}
    /\ form' = [form EXCEPT !.extras = n, !.edited = TRUE]
    /\ UNCHANGED <<server, job, view, unheard, spent>>

\* Is what is about to be sent what CreateBatchRequest and DetectOperator demand: a
\* label of 3 to 200 letters, at most 5000 lines, each of 100 francs at least and to
\* a number of a known operator?  The page asks for a name only and fills in 0 for
\* an amount it does not have; lines that are not fit may weigh anything.
MayPress(f, fit) ==
    /\ form.step = 3 /\ ~form.done /\ form.purse.known /\ ~form.loading
    /\ fit => Sufficient
    /\ job[f].at = "idle" /\ Spend("press", MaxPresses)

Sent(lines, fit) == [NoJob EXCEPT !.at = "sent", !.do = "create", !.own = TRUE,
                        !.lines = lines, !.fit = fit, !.comp = form.comp]

PressWithoutExtras(f) == \E fit \in BOOLEAN :
    /\ MayPress(f, fit)
    /\ form' = [form EXCEPT !.loading = TRUE, !.edited = FALSE, !.last = 0]
    /\ job' = [job EXCEPT ![f] = Sent(Cardinality(form.picked), fit)]
    /\ UNCHANGED <<server, view, unheard>>

\* execute: the lines of this moment go out; the button sleeps until the end.
Press(f) == \E fit \in BOOLEAN :
    /\ MayPress(f, fit)
    /\ form' = [form EXCEPT !.loading = TRUE, !.edited = FALSE, !.last = 0]
    /\ job' = [job EXCEPT ![f] = Sent(Cardinality(form.picked) + form.extras, fit)]
    /\ UNCHANGED <<server, view, unheard>>

AdvanceNotDone(f) ==
    /\ f \in Flows /\ job[f].at = "answered"
    /\ \/ /\ job[f].do \in {"create", "validate"}
          /\ job' = [job EXCEPT ![f].at = "sent",
                        ![f].do = IF job[f].do = "create" THEN "validate" ELSE "execute"]
          /\ form' = [form EXCEPT !.last = job[f].batch]
       \/ /\ job[f].do = "execute"
          /\ job' = [job EXCEPT ![f] = NoJob]
          /\ form' = [form EXCEPT !.loading = FALSE]
    /\ UNCHANGED <<server, view, unheard, spent>>

\* An answer: the next request of the three, or the page that says done.
Advance(f) ==
    /\ f \in Flows /\ job[f].at = "answered"
    /\ \/ /\ job[f].do \in {"create", "validate"}
          /\ job' = [job EXCEPT ![f].at = "sent",
                        ![f].do = IF job[f].do = "create" THEN "validate" ELSE "execute"]
          /\ form' = [form EXCEPT !.last = job[f].batch]
       \/ /\ job[f].do = "execute"
          /\ job' = [job EXCEPT ![f] = NoJob]
          /\ form' = [form EXCEPT !.loading = FALSE, !.done = TRUE]
    /\ UNCHANGED <<server, view, unheard, spent>>

ReportOnly(f) == job' = [job EXCEPT ![f] = NoJob] /\ UNCHANGED form

\* A refusal, a failure: the message, and the button again.
Report(f) ==
    /\ form' = [form EXCEPT !.loading = FALSE]
    /\ job' = [job EXCEPT ![f] = NoJob]

Refused(f) ==
    /\ f \in Flows /\ job[f].at = "refused"
    /\ Report(f)
    /\ UNCHANGED <<server, view, unheard, spent>>

\* "Nouveau batch": selection, imported lines and the copy of the wallet stay.
NewBatch ==
    /\ form.done /\ form.comp < MaxPresses
    /\ form' = [form EXCEPT !.done = FALSE, !.step = 2, !.comp = @ + 1]
    /\ UNCHANGED <<server, job, view, unheard, spent>>

-----------------------------------------------------------------------------
(* The page of a batch. *)

Ask(v, do) ==
    job' = [job EXCEPT ![v] = [NoJob EXCEPT !.at = "sent", !.do = do, !.batch = view'[v].batch,
                                            !.own = view'[v].own]]

\* Opened by the creator of the batch or by someone else.
OpenView(v, b, own) ==
    /\ job[v].at = "idle" /\ Spend("look", MaxLooks)
    /\ view' = [view EXCEPT ![v] = [NoView EXCEPT !.batch = b, !.own = own, !.busy = TRUE]]
    /\ Ask(v, "load")
    /\ UNCHANGED <<server, form, unheard>>

\* Valider on a draft, Exécuter, once confirmed, on a validated batch, Relancer
\* les échecs on a failed one, which asks for an execution too.
PressView(v, do) ==
    /\ ~view[v].busy /\ job[v].at = "idle" /\ Spend("look", MaxLooks)
    /\ \/ view[v].copy = "draft" /\ do = "validate"
       \/ view[v].copy = "failed" /\ do = "retry"
       \/ view[v].copy = "validated" /\ do = "execute"
    /\ view' = [view EXCEPT ![v].busy = TRUE]
    /\ Ask(v, do)
    /\ UNCHANGED <<server, form, unheard>>

\* setBatch of the answer; a relaunch ends by loading the batch again.
Show(v) ==
    /\ v \in Views /\ job[v].at = "answered"
    /\ IF job[v].do = "retry"
       THEN UNCHANGED view /\ Ask(v, "load")
       ELSE /\ view' = [view EXCEPT ![v].copy = job[v].status, ![v].busy = FALSE]
            /\ job' = [job EXCEPT ![v] = NoJob]
    /\ UNCHANGED <<server, form, unheard, spent>>

\* A message for three seconds and a half; the copy stays as it was.
Flash(v) ==
    /\ v \in Views /\ job[v].at = "refused"
    /\ view' = [view EXCEPT ![v].busy = FALSE]
    /\ job' = [job EXCEPT ![v] = NoJob]
    /\ UNCHANGED <<server, form, unheard, spent>>

-----------------------------------------------------------------------------
(* The server. *)

To(j, at) == job' = [job EXCEPT ![j].at = at]

CreateBelow(j) ==
    LET p == Provision(Unit * job[j].lines, Rate) IN
    /\ job[j].at = "sent" /\ job[j].do = "create"
    /\ IF ~job[j].fit \/ job[j].lines = 0 \/ p > Limit \/ p >= available
       THEN To(j, "refused") /\ UNCHANGED server
       ELSE /\ available' = available - p
            /\ batches' = Append(batches, [status |-> "draft", lines |-> job[j].lines, held |-> p,
                                           comp |-> job[j].comp, launches |-> 0,
                                           viewed |-> FALSE, raced |-> FALSE])
            /\ job' = [job EXCEPT ![j].at = "answered", ![j].batch = Len(batches) + 1]
    /\ UNCHANGED <<form, view, unheard, spent>>

\* Create: the content, the limit, then, in the transaction that creates the batch,
\* the reservation of its provision.
Create(j) ==
    LET p == Provision(Unit * job[j].lines, Rate) IN
    /\ job[j].at = "sent" /\ job[j].do = "create"
    /\ IF ~job[j].fit \/ job[j].lines = 0 \/ p > Limit \/ p > available
       THEN To(j, "refused") /\ UNCHANGED server
       ELSE /\ available' = available - p
            /\ batches' = Append(batches, [status |-> "draft", lines |-> job[j].lines, held |-> p,
                                           comp |-> job[j].comp, launches |-> 0,
                                           viewed |-> FALSE, raced |-> FALSE])
            /\ job' = [job EXCEPT ![j].at = "answered", ![j].batch = Len(batches) + 1]
    /\ UNCHANGED <<form, view, unheard, spent>>

Expected == [validate |-> "draft", execute |-> "validated", retry |-> "validated"]
Midway(b) == {k \in Jobs : job[k].at = "read" /\ job[k].batch = b}

ReadBatchUnchecked(j) ==
    LET b == job[j].batch IN
    /\ job[j].at = "sent" /\ job[j].do \in DOMAIN Expected
    /\ IF job[j].do = "validate" /\ job[j].own /\ batches[b].held >= Threshold
       THEN To(j, "refused") /\ UNCHANGED batches
       ELSE /\ To(j, "read")
            /\ batches' = [batches EXCEPT ![b].raced = @ \/ Midway(b) # {}]
    /\ UNCHANGED <<available, form, view, unheard, spent>>

\* Validate and Execute begin by reading the batch and looking at its status, and
\* Validate at who asks: a large batch is not validated by its creator.
ReadBatch(j) ==
    LET b == job[j].batch
        do == job[j].do IN
    /\ job[j].at = "sent" /\ do \in DOMAIN Expected
    /\ IF \/ batches[b].status # Expected[do]
          \/ do = "validate" /\ job[j].own /\ batches[b].held >= Threshold
       THEN To(j, "refused") /\ UNCHANGED batches
       ELSE /\ To(j, "read")
            /\ batches' = [batches EXCEPT ![b].raced = @ \/ Midway(b) # {}]
    /\ UNCHANGED <<available, form, view, unheard, spent>>

\* They end by saving it, whatever it has become.  An Execute whose jobs do not
\* all reach the queue is answered with an error though it launched.
SaveBatch(j) ==
    LET b == job[j].batch
        executes == job[j].do # "validate"
        status == IF executes THEN "processing" ELSE "validated" IN
    /\ job[j].at = "read"
    /\ batches' = [batches EXCEPT ![b].status = status,
                                  ![b].launches = @ + IF executes THEN 1 ELSE 0,
                                  ![b].viewed = @ \/ (executes /\ j \in Views)]
    /\ \/ /\ job' = [job EXCEPT ![j].at = "answered", ![j].status = status]
          /\ UNCHANGED <<unheard, spent>>
       \/ /\ executes /\ Spend("event", MaxEvents)
          /\ To(j, "refused")
          /\ unheard' = [unheard EXCEPT ![batches[b].comp] = @ + 1]
    /\ UNCHANGED <<available, form, view>>

GetBatch(j) ==
    /\ job[j].at = "sent" /\ job[j].do = "load"
    /\ job' = [job EXCEPT ![j].at = "answered", ![j].status = batches[job[j].batch].status]
    /\ UNCHANGED <<server, form, view, unheard, spent>>

\* A launched batch ends: paid, or failed and refunded.
Finish(b, ends) ==
    /\ batches[b].status = "processing" /\ ends \in {"completed", "failed"}
    /\ batches' = [batches EXCEPT ![b].status = ends, ![b].held = 0]
    /\ available' = available + IF ends = "failed" THEN batches[b].held ELSE 0
    /\ UNCHANGED <<form, job, view, unheard, spent>>

Recharge ==
    /\ Spend("event", MaxEvents)
    /\ available' = available + Top
    /\ UNCHANGED <<batches, form, job, view, unheard>>

\* A request of the composing page that fails on the way, or its answer.
Lose(f) ==
    /\ f \in Flows /\ job[f].at \in {"sent", "answered"} /\ Spend("event", MaxEvents)
    /\ Report(f)
    /\ unheard' = IF job[f].do = "execute" /\ job[f].at = "answered"
                  THEN [unheard EXCEPT ![job[f].comp] = @ + 1] ELSE unheard
    /\ UNCHANGED <<server, view>>

-----------------------------------------------------------------------------
Serve(j) == Create(j) \/ ReadBatch(j) \/ SaveBatch(j) \/ GetBatch(j)
Hear(j) == Advance(j) \/ Refused(j) \/ Show(j) \/ Flash(j)

Next ==
    \/ LoadForm \/ Go \/ \E picked \in SUBSET Directory : Pick(picked)
    \/ \E n \in 1..MaxExtras : ChooseFile(n)
    \/ FileRead \/ \E n \in 0..MaxExtras : DropExtras(n)
    \/ \E f \in Flows : Press(f) \/ Lose(f)
    \/ NewBatch
    \/ \E v \in Views :
          \/ \E b \in DOMAIN batches, own \in BOOLEAN : OpenView(v, b, own)
          \/ \E do \in DOMAIN Expected : PressView(v, do)
    \/ \E j \in Jobs : Serve(j) \/ Hear(j)
    \/ \E b \in DOMAIN batches, ends \in {"completed", "failed"} : Finish(b, ends)
    \/ Recharge

Spec == Init /\ [][Next]_vars

\* Requests are served and their answers heard; people are free.
FairSpec == Spec /\ \A j \in Jobs : WF_vars(Serve(j) \/ Hear(j))

-----------------------------------------------------------------------------
Made(c) == {b \in DOMAIN batches : batches[b].comp = c}
\* Pressing again after a message does not pay twice: once a composition's launch
\* was heard of, nothing of it is launched by the page again; a second launch
\* takes an execute whose answer was lost or was an error, or the page of a batch
\* that was left behind.
PaidOncePerPress ==
    \A c \in Compositions :
        Cardinality({b \in Made(c) : Launched(b) /\ ~batches[b].viewed}) <= 1 + unheard[c]

\* What the page says was sent is what was: unless the composition was changed
\* while it was launched, which the page allows, the lines it counts are those of
\* the batch launched.
DoneIsTrue ==
    form.done => /\ Launched(form.last)
                 /\ ~form.edited => batches[form.last].lines = Cardinality(form.picked) + form.extras

\* A batch is launched once, whatever stale copies its pages hold, unless two of
\* its requests were between their read and their save at once.
LaunchedOnce == \A b \in DOMAIN batches : batches[b].launches <= 1 \/ batches[b].raced

\* "Solde suffisant" holds unless the money went elsewhere: a creation that passes
\* the checks of content and limit, which the page does not make, is refused only
\* when the wallet has less than when the page opened, the page's rate being the
\* tenant's (new/page.tsx:72-75, batch.go:78-106, wallet.go:103).
SufficientUnlessSpent ==
    [][\A f \in Flows :
          /\ job[f].at = "sent" /\ job[f].do = "create" /\ job'[f].at = "refused"
          /\ job[f].fit /\ job[f].lines > 0 /\ Rate = PageRate
          /\ Provision(Unit * job[f].lines, Rate) <= Limit
          => available < form.purse.amount]_vars

\* Every press ends: the buttons come back, or the page says done.
PressEnds == form.loading ~> ~form.loading
===============================================================================
