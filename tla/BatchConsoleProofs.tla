-------------------------- MODULE BatchConsoleProofs --------------------------
(***************************************************************************)
(* Proofs about BatchConsole, for any directory, pages, batches, presses   *)
(* and lost answers: a batch is launched once, the page that says done     *)
(* tells the truth, a composition is paid once, and a creation is refused  *)
(* only for what the page cannot see.                                      *)
(***************************************************************************)
EXTENDS BatchConsole, FiniteSetTheorems, SequenceTheorems, TLAPS

Stages == {"draft", "validated", "processing", "completed", "failed"}
BatchRow == [status : Stages, lines : Nat, held : Nat, comp : Compositions, launches : Nat,
             viewed : BOOLEAN, raced : BOOLEAN]
JobRow == [at : {"idle", "sent", "read", "answered", "refused"},
           do : {"create", "validate", "execute", "retry", "load"},
           batch : Nat, lines : Nat, comp : Compositions, fit : BOOLEAN, own : BOOLEAN,
           status : Stages \cup {"none"}]
FormRow == [step : {2, 3}, picked : SUBSET Directory, extras : Nat, reading : Nat,
            purse : [known : BOOLEAN, amount : Nat], loading : BOOLEAN, done : BOOLEAN,
            comp : Compositions, last : Nat, edited : BOOLEAN]
ViewRow == [batch : Nat, copy : Stages \cup {"none"}, own : BOOLEAN, busy : BOOLEAN]

\* Type correctness.
ConsoleTypeOK ==
    /\ available \in Nat /\ batches \in Seq(BatchRow)
    /\ form \in FormRow
    /\ job \in [Jobs -> JobRow]
    /\ view \in [Views -> ViewRow]
    /\ unheard \in [Compositions -> Nat]

Active(j) == job[j].at # "idle"

\* The request has a batch: all but a creation not yet answered.
Has(j) == Active(j) /\ (job[j].do # "create" \/ job[j].at = "answered")

\* Requests and pages name batches there are, each makes the requests it can.
Named ==
    /\ \A j \in Jobs : Has(j) => job[j].batch \in DOMAIN batches
    /\ \A j \in Jobs : Active(j) => job[j].do \in IF j \in Flows THEN {"create", "validate", "execute"}
                                                  ELSE {"load", "validate", "execute", "retry"}
    /\ \A j \in Jobs : job[j].at = "read" => job[j].do \in DOMAIN Expected
    /\ \A v \in Views : Active(v) \/ view[v].copy # "none" => view[v].batch \in DOMAIN batches

-----------------------------------------------------------------------------
(* Types. *)

\* Flows and batch pages are different.
LEMMA JobsApart == (\A f \in Flows : f \in Jobs /\ f \notin Views) /\ \A v \in Views : v \in Jobs /\ v \notin Flows
BY FlowsAreNotViews DEF Jobs

\* A provision is an amount.
LEMMA ProvisionType == ASSUME NEW m \in Nat, NEW r \in Nat PROVE Provision(m, r) \in Nat
<1>1. m * r \in Nat
  OBVIOUS
<1>2. (m * r) \div 1000 \in Nat
  BY <1>1
<1> QED BY <1>2 DEF Provision

\* The number of lines of the page.
LEMMA LinesType == ASSUME ConsoleTypeOK PROVE Cardinality(form.picked) \in Nat /\ form.extras \in Nat
<1>1. form.picked \in SUBSET Directory /\ form.extras \in Nat
  BY DEF ConsoleTypeOK, FormRow
<1> QED BY <1>1, DirectoryFinite, FS_Subset, FS_CardinalityType

\* A request that is none, or new.
LEMMA NewJobs ==
    /\ NoJob \in JobRow /\ NoView \in ViewRow /\ NoPurse \in [known : BOOLEAN, amount : Nat]
    /\ 1 \in Compositions
    /\ \A do \in {"validate", "execute", "retry", "load"}, b \in Nat, own \in BOOLEAN :
          [NoJob EXCEPT !.at = "sent", !.do = do, !.batch = b, !.own = own] \in JobRow
    /\ \A n \in Nat, c \in Compositions, fit \in BOOLEAN :
          [NoJob EXCEPT !.at = "sent", !.do = "create", !.own = TRUE,
                        !.lines = n, !.fit = fit, !.comp = c] \in JobRow
<1>1. 1 \in Compositions
  BY BoundsNatural DEF Compositions
<1> QED BY <1>1 DEF NoJob, JobRow, NoView, ViewRow, NoPurse

\* Initially the variables have their types.
LEMMA InitTypes == Init => ConsoleTypeOK /\ Named
<1> SUFFICES ASSUME Init PROVE ConsoleTypeOK /\ Named
  OBVIOUS
<1>1. /\ job \in [Jobs -> JobRow] /\ view \in [Views -> ViewRow]
      /\ unheard \in [Compositions -> Nat] /\ available \in Nat
  BY NewJobs, AmountsNatural DEF Init
<1>2. batches \in Seq(BatchRow) /\ DOMAIN batches = {}
  BY DEF Init
<1>3. form \in FormRow
  BY NewJobs DEF Init, FormRow
<1>4. Named
  BY JobsApart DEF Init, Named, Has, Active, NoJob, NoView, Jobs
<1> QED BY <1>1, <1>2, <1>3, <1>4 DEF ConsoleTypeOK
\* A batch more.
LEMMA OneMore ==
    ASSUME ConsoleTypeOK, NEW r \in BatchRow, batches' = Append(batches, r)
    PROVE  /\ batches' \in Seq(BatchRow)
           /\ Len(batches) + 1 \in Nat /\ Len(batches) + 1 \notin DOMAIN batches
           /\ DOMAIN batches' = DOMAIN batches \cup {Len(batches) + 1}
           /\ \A b \in DOMAIN batches : batches'[b] = batches[b]
           /\ batches'[Len(batches) + 1] = r
<1>1. batches \in Seq(BatchRow) /\ Len(batches) \in Nat /\ DOMAIN batches = 1..Len(batches)
  BY LenProperties DEF ConsoleTypeOK
<1>2. /\ batches' \in Seq(BatchRow) /\ Len(batches') = Len(batches) + 1
      /\ \A b \in 1..Len(batches) : batches'[b] = batches[b]
      /\ batches'[Len(batches) + 1] = r
  BY <1>1, AppendProperties
<1>3. DOMAIN batches' = 1..(Len(batches) + 1)
  BY <1>2, LenProperties
<1> QED BY <1>1, <1>2, <1>3

\* A batch changed.
LEMMA OneChanged ==
    ASSUME ConsoleTypeOK, NEW b \in DOMAIN batches, NEW r \in BatchRow,
           batches' = [batches EXCEPT ![b] = r]
    PROVE  /\ batches' \in Seq(BatchRow) /\ DOMAIN batches' = DOMAIN batches
           /\ \A c \in DOMAIN batches \ {b} : batches'[c] = batches[c]
           /\ batches'[b] = r
<1>1. batches \in Seq(BatchRow) /\ DOMAIN batches = 1..Len(batches)
  BY LenProperties DEF ConsoleTypeOK
<1> QED BY <1>1, ExceptSeq

\* The row of a batch, and the request for it.
LEMMA RowTypes ==
    ASSUME ConsoleTypeOK
    PROVE  /\ \A b \in DOMAIN batches : batches[b] \in BatchRow /\ b \in Nat
           /\ \A j \in Jobs : job[j] \in JobRow
           /\ DOMAIN job = Jobs
<1>1. batches \in Seq(BatchRow) /\ DOMAIN batches = 1..Len(batches) /\ Len(batches) \in Nat
  BY LenProperties DEF ConsoleTypeOK
<1>2. \A b \in 1..Len(batches) : batches[b] \in BatchRow
  BY <1>1, ElementOfSeq
<1> QED BY <1>1, <1>2 DEF ConsoleTypeOK

-----------------------------------------------------------------------------
(* What the steps do. *)

\* The other requests stay as they are.
Only(j) == \A k \in Jobs \ {j} : job'[k] = job[k]

\* Nothing but the form of the page, and the copy of the wallet only once.
Composes ==
    /\ UNCHANGED <<batches, job, view, unheard>>
    /\ form'.loading = form.loading /\ form'.last = form.last
    /\ \/ /\ form'.purse = form.purse /\ form'.comp = form.comp /\ form'.done = form.done
          /\ \/ form'.edited = form.edited /\ form'.picked = form.picked /\ form'.extras = form.extras
             \/ form'.edited
       \/ /\ ~form.purse.known /\ form'.purse.known /\ form'.comp = form.comp /\ form'.done = form.done
       \/ /\ form.done /\ ~form'.done /\ form'.comp = form.comp + 1 /\ form'.purse = form.purse

\* A launch is pressed.
Presses(f) ==
    /\ UNCHANGED <<batches, view, unheard>> /\ Only(f) /\ job[f].at = "idle"
    /\ ~form.loading /\ ~form.done /\ form.purse.known /\ (job'[f].fit => Sufficient)
    /\ job'[f].at = "sent" /\ job'[f].do = "create" /\ job'[f].comp = form.comp
    /\ job'[f].lines = Cardinality(form.picked) + form.extras
    /\ form'.loading /\ ~form'.edited /\ form'.done = form.done /\ form'.comp = form.comp
    /\ form'.purse = form.purse /\ form'.picked = form.picked /\ form'.extras = form.extras

\* The page goes on to its next request.
Continues(f) ==
    /\ UNCHANGED <<batches, view, unheard>> /\ Only(f) /\ f \in Flows
    /\ job[f].at = "answered" /\ job[f].do \in {"create", "validate"}
    /\ job'[f].at = "sent" /\ job'[f].do = IF job[f].do = "create" THEN "validate" ELSE "execute"
    /\ job'[f].batch = job[f].batch /\ job'[f].lines = job[f].lines /\ job'[f].comp = job[f].comp
    /\ form'.last = job[f].batch
    /\ form'.loading = form.loading /\ form'.edited = form.edited /\ form'.done = form.done
    /\ form'.comp = form.comp /\ form'.purse = form.purse
    /\ form'.picked = form.picked /\ form'.extras = form.extras

\* It says that all was sent.
Concludes(f) ==
    /\ UNCHANGED <<batches, view, unheard>> /\ Only(f) /\ f \in Flows
    /\ job[f].at = "answered" /\ job[f].do = "execute" /\ job'[f] = NoJob
    /\ form' = [form EXCEPT !.loading = FALSE, !.done = TRUE]

\* It gives the launch up; of a lost answer it may know nothing.
GivesUp(f) ==
    /\ UNCHANGED <<batches, view>> /\ Only(f) /\ f \in Flows /\ Active(f) /\ job'[f] = NoJob
    /\ form' = [form EXCEPT !.loading = FALSE]
    /\ IF job[f].do = "execute" /\ job[f].at = "answered"
       THEN unheard' = [unheard EXCEPT ![job[f].comp] = @ + 1] ELSE unheard' = unheard

\* A batch page asks, hears, or shows.
Looks(v) ==
    /\ UNCHANGED <<batches, form, unheard>> /\ Only(v) /\ v \in Views
    /\ job'[v].at # "read" /\ job'[v].do # "create"

\* A request moves on, with what it asks for.
Turns(j, at) ==
    /\ Only(j) /\ job'[j].at = at /\ job'[j].do = job[j].do
    /\ job'[j].lines = job[j].lines /\ job'[j].comp = job[j].comp /\ job'[j].fit = job[j].fit
    /\ UNCHANGED <<form, view>>

\* A batch keeps what it pays and who made it.
Keeps(b) == batches'[b].lines = batches[b].lines /\ batches'[b].comp = batches[b].comp

\* A batch is created, ...
Creates(j) ==
    LET n == Len(batches) + 1 IN
    /\ Turns(j, "answered") /\ UNCHANGED unheard
    /\ job[j].at = "sent" /\ job[j].do = "create" /\ job'[j].batch = n
    /\ n \notin DOMAIN batches /\ DOMAIN batches' = DOMAIN batches \cup {n}
    /\ \A b \in DOMAIN batches : batches'[b] = batches[b]
    /\ batches'[n].status = "draft" /\ batches'[n].launches = 0 /\ ~batches'[n].viewed
    /\ ~batches'[n].raced /\ batches'[n].lines = job[j].lines /\ batches'[n].comp = job[j].comp

\* ... a request refused, a creation for its content or its size, ...
Excessive(j) ==
    LET p == Provision(Unit * job[j].lines, Rate) IN
    ~job[j].fit \/ job[j].lines = 0 \/ p > Limit \/ p > available

Refuses(j) ==
    /\ Turns(j, "refused") /\ UNCHANGED <<unheard, batches>> /\ job[j].at = "sent"
    /\ job'[j].batch = job[j].batch
    /\ job[j].do = "create" => Excessive(j)

\* ... a batch read, ...
Reads(j) ==
    LET b == job[j].batch IN
    /\ Turns(j, "read") /\ UNCHANGED unheard /\ job[j].at = "sent" /\ job'[j].batch = b
    /\ job[j].do \in DOMAIN Expected
    /\ batches[b].status = Expected[job[j].do]
    /\ DOMAIN batches' = DOMAIN batches /\ \A c \in DOMAIN batches \ {b} : batches'[c] = batches[c]
    /\ Keeps(b) /\ batches'[b].status = batches[b].status
    /\ batches'[b].launches = batches[b].launches /\ batches'[b].viewed = batches[b].viewed
    /\ batches'[b].raced = (batches[b].raced \/ Midway(b) # {})

\* ... and saved, ...
Saves(j) ==
    LET b == job[j].batch
        executes == job[j].do # "validate" IN
    /\ Turns(j, job'[j].at) /\ job[j].at = "read" /\ job'[j].batch = b
    /\ DOMAIN batches' = DOMAIN batches /\ \A c \in DOMAIN batches \ {b} : batches'[c] = batches[c]
    /\ Keeps(b) /\ batches'[b].raced = batches[b].raced
    /\ batches'[b].status = IF executes THEN "processing" ELSE "validated"
    /\ batches'[b].launches = batches[b].launches + IF executes THEN 1 ELSE 0
    /\ batches'[b].viewed = (batches[b].viewed \/ (executes /\ j \in Views))
    /\ \/ job'[j].at = "answered" /\ UNCHANGED unheard
       \/ /\ job'[j].at = "refused" /\ executes
          /\ unheard' = [unheard EXCEPT ![batches[b].comp] = @ + 1]

\* ... and one that was launched ends.
Ends(b) ==
    /\ UNCHANGED <<form, job, view, unheard>> /\ batches[b].status = "processing"
    /\ DOMAIN batches' = DOMAIN batches /\ \A c \in DOMAIN batches \ {b} : batches'[c] = batches[c]
    /\ Keeps(b) /\ batches'[b].status \in {"completed", "failed"}
    /\ batches'[b].launches = batches[b].launches /\ batches'[b].viewed = batches[b].viewed
    /\ batches'[b].raced = batches[b].raced

Shapes ==
    \/ Composes
    \/ \E f \in Flows : Presses(f) \/ Continues(f) \/ Concludes(f) \/ GivesUp(f)
    \/ \E v \in Views : Looks(v)
    \/ \E j \in Jobs : Creates(j) \/ Refuses(j) \/ Reads(j) \/ Saves(j)
    \/ \E b \in DOMAIN batches : Ends(b)
    \/ UNCHANGED <<batches, form, job, view, unheard>>

-----------------------------------------------------------------------------
(* Every step has one of the shapes, and keeps the types and the names. *)

\* The pages.
LEMMA ComposeSteps ==
    ASSUME ConsoleTypeOK, Named,
           \/ LoadForm \/ Go \/ \E picked \in SUBSET Directory : Pick(picked)
           \/ \E n \in 1..MaxExtras : ChooseFile(n)
           \/ FileRead \/ \E n \in 0..MaxExtras : DropExtras(n)
           \/ NewBatch
    PROVE  ConsoleTypeOK' /\ Named' /\ Composes
<1>1. UNCHANGED <<available, batches, job, view, unheard>>
  BY DEF LoadForm, Go, Pick, ChooseFile, FileRead, DropExtras, NewBatch, server
<1>2. Named'
  BY <1>1 DEF Named, Has, Active
<1>3. form \in FormRow /\ available \in Nat /\ MaxExtras \in Nat /\ MaxPresses \in Nat
  BY BoundsNatural DEF ConsoleTypeOK
<1>4. form' \in FormRow /\ Composes
  <2>1. CASE LoadForm
    BY <1>1, <1>3, <2>1 DEF LoadForm, FormRow, Composes
  <2>2. CASE Go
    BY <1>1, <1>3, <2>2 DEF Go, FormRow, Composes
  <2>3. CASE \E picked \in SUBSET Directory : Pick(picked)
    BY <1>1, <1>3, <2>3 DEF Pick, FormRow, Composes
  <2>4. CASE \E n \in 1..MaxExtras : ChooseFile(n)
    BY <1>1, <1>3, <2>4 DEF ChooseFile, FormRow, Composes
  <2>5. CASE FileRead
    <3> DEFINE n == form.extras + form.reading
    <3>1. n \in Nat /\ form' = [form EXCEPT !.extras = n, !.reading = 0, !.edited = TRUE]
      BY <1>3, <2>5 DEF FileRead, FormRow
    <3> HIDE DEF n
    <3> QED BY <1>1, <1>3, <3>1 DEF FormRow, Composes
  <2>6. CASE \E n \in 0..MaxExtras : DropExtras(n)
    <3>1. PICK n \in 0..MaxExtras : form' = [form EXCEPT !.extras = n, !.edited = TRUE]
      BY <2>6 DEF DropExtras
    <3>2. n \in Nat
      BY <1>3, <3>1
    <3> QED BY <1>1, <1>3, <3>1, <3>2 DEF FormRow, Composes
  <2>7. CASE NewBatch
    <3>1. form.comp + 1 \in Compositions
      BY <1>3, <2>7 DEF NewBatch, FormRow, Compositions
    <3> QED BY <1>1, <1>3, <2>7, <3>1 DEF NewBatch, FormRow, Composes
  <2> QED BY <2>1, <2>2, <2>3, <2>4, <2>5, <2>6, <2>7
<1> QED BY <1>1, <1>2, <1>4 DEF ConsoleTypeOK

\* One request of the composing page changes, and its form.
LEMMA FlowNamed ==
    ASSUME ConsoleTypeOK, Named, NEW f \in Flows, NEW r \in JobRow,
           job' = [job EXCEPT ![f] = r], UNCHANGED <<available, batches, view>>,
           form' \in FormRow, unheard' \in [Compositions -> Nat],
           r.at # "read",
           r.at # "idle" => /\ r.do \in {"create", "validate", "execute"}
                            /\ r.do # "create" \/ r.at = "answered" => r.batch \in DOMAIN batches
    PROVE  ConsoleTypeOK' /\ Named' /\ Only(f) /\ job'[f] = r
<1>1. f \in Jobs /\ f \notin Views /\ job \in [Jobs -> JobRow]
  BY JobsApart DEF ConsoleTypeOK
<1>2. Only(f) /\ job'[f] = r /\ job' \in [Jobs -> JobRow]
  BY <1>1 DEF Only
<1>3. Named'
  BY <1>1, <1>2, JobsApart DEF Named, Has, Active, Only
<1> QED BY <1>2, <1>3 DEF ConsoleTypeOK

\* A launch is pressed.
LEMMA PressStep ==
    ASSUME ConsoleTypeOK, Named, NEW f \in Flows, Press(f)
    PROVE  ConsoleTypeOK' /\ Named' /\ Presses(f)
<1> DEFINE n == Cardinality(form.picked) + form.extras
<1>1. n \in Nat /\ form.comp \in Compositions /\ form \in FormRow
  BY LinesType DEF ConsoleTypeOK, FormRow
<1>2. PICK fit \in BOOLEAN :
         /\ fit => Sufficient
         /\ job' = [job EXCEPT ![f] = Sent(n, fit)]
         /\ form' = [form EXCEPT !.loading = TRUE, !.edited = FALSE, !.last = 0]
  BY DEF Press, MayPress
<1>3. PICK r \in JobRow : r = Sent(n, fit)
  BY <1>1, <1>2, NewJobs DEF Sent
<1>4. r.at = "sent" /\ r.do = "create" /\ r.lines = n /\ r.comp = form.comp /\ r.fit = fit
  BY <1>3 DEF Sent, NoJob
<1>5. job' = [job EXCEPT ![f] = r] /\ UNCHANGED <<available, batches, view, unheard>>
  BY <1>2, <1>3 DEF Press, server
<1>6. form' \in FormRow
  BY <1>1, <1>2 DEF FormRow
<1>7. unheard' \in [Compositions -> Nat]
  BY <1>5 DEF ConsoleTypeOK
<1>8. ConsoleTypeOK' /\ Named' /\ Only(f) /\ job'[f] = r
  BY <1>4, <1>5, <1>6, <1>7, FlowNamed
<1> QED BY <1>1, <1>2, <1>4, <1>5, <1>8 DEF Presses, Press, MayPress, FormRow

\* The page goes on, or is done.
LEMMA AdvanceStep ==
    ASSUME ConsoleTypeOK, Named, NEW f \in Flows, Advance(f)
    PROVE  ConsoleTypeOK' /\ Named' /\ (Continues(f) \/ Concludes(f))
<1>1. /\ form \in FormRow /\ job[f] \in JobRow /\ UNCHANGED <<available, batches, view, unheard>>
      /\ unheard' \in [Compositions -> Nat] /\ job[f].at = "answered"
  BY JobsApart DEF Advance, server, ConsoleTypeOK
<1>2. job[f].batch \in DOMAIN batches
  BY <1>1, JobsApart DEF Named, Has, Active
<1>3. CASE job[f].do \in {"create", "validate"}
  <2> DEFINE r == [job[f] EXCEPT !.at = "sent",
                                 !.do = IF job[f].do = "create" THEN "validate" ELSE "execute"]
  <2>1. job' = [job EXCEPT ![f] = r] /\ form' = [form EXCEPT !.last = job[f].batch]
    BY <1>3 DEF Advance
  <2>2. /\ r \in JobRow /\ r.at = "sent" /\ r.do = IF job[f].do = "create" THEN "validate" ELSE "execute"
        /\ r.batch = job[f].batch /\ r.lines = job[f].lines /\ r.comp = job[f].comp
    BY <1>1 DEF JobRow
  <2>3. form' \in FormRow
    BY <1>1, <2>1 DEF FormRow, JobRow
  <2> HIDE DEF r
  <2>4. ConsoleTypeOK' /\ Named' /\ Only(f) /\ job'[f] = r
    BY <1>1, <1>2, <2>1, <2>2, <2>3, FlowNamed
  <2>5. Continues(f)
    BY <1>1, <1>3, <2>1, <2>2, <2>4 DEF Continues, FormRow
  <2> QED BY <2>4, <2>5
<1>4. CASE job[f].do = "execute"
  <2>1. job' = [job EXCEPT ![f] = NoJob] /\ form' = [form EXCEPT !.loading = FALSE, !.done = TRUE]
    BY <1>4 DEF Advance
  <2>2. form' \in FormRow
    BY <1>1, <2>1 DEF FormRow
  <2>3. NoJob \in JobRow /\ NoJob.at = "idle"
    BY NewJobs DEF NoJob
  <2>4. ConsoleTypeOK' /\ Named' /\ Only(f) /\ job'[f] = NoJob
    BY <1>1, <2>1, <2>2, <2>3, FlowNamed
  <2> QED BY <1>1, <1>4, <2>1, <2>4 DEF Concludes
<1> QED BY <1>3, <1>4 DEF Advance

\* A launch given up.
LEMMA GiveUpStep ==
    ASSUME ConsoleTypeOK, Named, NEW f \in Flows, Refused(f) \/ Lose(f)
    PROVE  ConsoleTypeOK' /\ Named' /\ GivesUp(f)
<1>1. /\ form \in FormRow /\ job[f] \in JobRow /\ UNCHANGED <<available, batches, view>>
      /\ job' = [job EXCEPT ![f] = NoJob] /\ form' = [form EXCEPT !.loading = FALSE]
      /\ job[f].at # "idle" /\ unheard \in [Compositions -> Nat]
  BY JobsApart DEF Refused, Lose, Report, server, ConsoleTypeOK
<1>2. /\ IF job[f].do = "execute" /\ job[f].at = "answered"
         THEN unheard' = [unheard EXCEPT ![job[f].comp] = @ + 1] ELSE unheard' = unheard
  BY DEF Refused, Lose
<1>3. unheard' \in [Compositions -> Nat] /\ form' \in FormRow
  <2>1. job[f].comp \in Compositions
    BY <1>1 DEF JobRow
  <2>2. unheard' \in [Compositions -> Nat]
    BY <1>1, <1>2, <2>1
  <2>3. form' \in FormRow
    BY <1>1 DEF FormRow
  <2> QED BY <2>2, <2>3
<1>4. NoJob \in JobRow /\ NoJob.at = "idle"
  BY NewJobs DEF NoJob
<1>5. ConsoleTypeOK' /\ Named' /\ Only(f) /\ job'[f] = NoJob
  BY <1>1, <1>3, <1>4, FlowNamed
<1> QED BY <1>1, <1>2, <1>5 DEF GivesUp, Active

\* A request of a batch page, about the batch it shows.
LEMMA ViewNamed ==
    ASSUME ConsoleTypeOK, Named, NEW v \in Views, NEW r \in JobRow, NEW w \in ViewRow,
           job' = [job EXCEPT ![v] = r], view' = [view EXCEPT ![v] = w],
           UNCHANGED <<available, batches, form, unheard>>,
           r.at # "read", r.do # "create",
           r.at # "idle" => r.do \in {"load", "validate", "execute", "retry"} /\ r.batch \in DOMAIN batches,
           r.at # "idle" \/ w.copy # "none" => w.batch \in DOMAIN batches
    PROVE  ConsoleTypeOK' /\ Named' /\ Looks(v)
<1>1. v \in Jobs /\ v \notin Flows /\ job \in [Jobs -> JobRow] /\ view \in [Views -> ViewRow]
  BY JobsApart DEF ConsoleTypeOK
<1>2. Only(v) /\ job'[v] = r /\ job' \in [Jobs -> JobRow]
  BY <1>1 DEF Only
<1>3. view' \in [Views -> ViewRow] /\ view'[v] = w /\ \A x \in Views \ {v} : view'[x] = view[x]
  BY <1>1
<1>4. Named'
  <2>1. \A j \in Jobs \ {v} : (Active(j)' <=> Active(j)) /\ (Has(j)' <=> Has(j))
    BY <1>2 DEF Only, Has, Active
  <2>2. \A j \in Jobs : Has(j)' => job'[j].batch \in DOMAIN batches
    <3> SUFFICES ASSUME NEW j \in Jobs, Has(j)' PROVE job'[j].batch \in DOMAIN batches
      OBVIOUS
    <3>1. CASE j = v
      BY <1>2, <3>1 DEF Has, Active
    <3>2. CASE j # v
      BY <1>2, <2>1, <3>2 DEF Named, Only
    <3> QED BY <3>1, <3>2
  <2>3. \A j \in Jobs : Active(j)' => job'[j].do \in IF j \in Flows THEN {"create", "validate", "execute"}
                                                     ELSE {"load", "validate", "execute", "retry"}
    BY <1>1, <1>2, <2>1 DEF Named, Active, Only
  <2>4. \A j \in Jobs : job'[j].at = "read" => job'[j].do \in DOMAIN Expected
    BY <1>2 DEF Named, Only
  <2>5. \A x \in Views : Active(x)' \/ view'[x].copy # "none" => view'[x].batch \in DOMAIN batches
    <3> SUFFICES ASSUME NEW x \in Views, Active(x)' \/ view'[x].copy # "none"
                 PROVE  view'[x].batch \in DOMAIN batches
      OBVIOUS
    <3>1. CASE x = v
      BY <1>2, <1>3, <3>1 DEF Active
    <3>2. CASE x # v
      BY <1>3, <2>1, <3>2, JobsApart DEF Named
    <3> QED BY <3>1, <3>2
  <2>6. DOMAIN Expected' = DOMAIN Expected /\ DOMAIN batches' = DOMAIN batches
    BY DEF Expected
  <2> QED BY <2>2, <2>3, <2>4, <2>5, <2>6 DEF Named
<1> QED BY <1>2, <1>3, <1>4 DEF ConsoleTypeOK, Looks

\* A batch page asks.
LEMMA AskStep ==
    ASSUME ConsoleTypeOK, Named, NEW v \in Views,
           \/ \E b \in DOMAIN batches, own \in BOOLEAN : OpenView(v, b, own)
           \/ \E do \in DOMAIN Expected : PressView(v, do)
    PROVE  ConsoleTypeOK' /\ Named' /\ Looks(v)
<1>1. view[v] \in ViewRow /\ view \in [Views -> ViewRow] /\ UNCHANGED <<available, batches, form, unheard>>
  BY DEF OpenView, PressView, server, ConsoleTypeOK
<1>2. PICK w \in ViewRow, do \in {"validate", "execute", "retry", "load"} :
         view' = [view EXCEPT ![v] = w] /\ w.batch \in DOMAIN batches /\ Ask(v, do)
  <2>1. CASE \E b \in DOMAIN batches, own \in BOOLEAN : OpenView(v, b, own)
    <3>1. PICK b \in DOMAIN batches, own \in BOOLEAN : OpenView(v, b, own)
      BY <2>1
    <3> DEFINE w == [NoView EXCEPT !.batch = b, !.own = own, !.busy = TRUE]
    <3>2. b \in Nat
      BY RowTypes
    <3>3. w \in ViewRow /\ w.batch = b
      BY <3>2 DEF NoView, ViewRow
    <3>4. view' = [view EXCEPT ![v] = w] /\ Ask(v, "load")
      BY <3>1 DEF OpenView
    <3> HIDE DEF w
    <3> QED BY <3>3, <3>4
  <2>2. CASE \E do \in DOMAIN Expected : PressView(v, do)
    <3>1. PICK do \in DOMAIN Expected : PressView(v, do)
      BY <2>2
    <3> DEFINE w == [view[v] EXCEPT !.busy = TRUE]
    <3>2. w \in ViewRow /\ w.batch = view[v].batch
      BY <1>1 DEF ViewRow
    <3>3. view' = [view EXCEPT ![v] = w] /\ Ask(v, do) /\ view[v].copy # "none"
      BY <1>1, <3>1 DEF PressView
    <3>4. view[v].batch \in DOMAIN batches
      BY <3>3 DEF Named
    <3>5. do \in {"validate", "execute", "retry", "load"}
      BY DEF Expected
    <3> HIDE DEF w
    <3> QED BY <3>2, <3>3, <3>4, <3>5
  <2> QED BY <2>1, <2>2
<1> DEFINE r == [NoJob EXCEPT !.at = "sent", !.do = do, !.batch = w.batch, !.own = w.own]
<1>3. view'[v] = w
  BY <1>1, <1>2
<1>4. job' = [job EXCEPT ![v] = r]
  BY <1>2, <1>3 DEF Ask
<1>5. w.batch \in Nat /\ w.own \in BOOLEAN
  BY DEF ViewRow
<1>6. r \in JobRow
  BY <1>5, NewJobs
<1>7. r.at = "sent" /\ r.do = do /\ r.batch = w.batch
  BY DEF NoJob
<1> HIDE DEF r
<1> QED BY <1>1, <1>2, <1>4, <1>6, <1>7, ViewNamed

\* It hears, and asks again after a relaunch.
LEMMA HearStep ==
    ASSUME ConsoleTypeOK, Named, NEW v \in Views, Show(v) \/ Flash(v)
    PROVE  ConsoleTypeOK' /\ Named' /\ Looks(v)
<1>1. /\ view[v] \in ViewRow /\ view \in [Views -> ViewRow] /\ UNCHANGED <<available, batches, form, unheard>>
      /\ job[v] \in JobRow /\ v \in Jobs /\ job[v].at # "idle"
  BY JobsApart DEF Show, Flash, server, ConsoleTypeOK
<1>2. view[v].batch \in DOMAIN batches
  BY <1>1 DEF Named, Active
<1>3. CASE Show(v) /\ job[v].do = "retry"
  <2> DEFINE r == [NoJob EXCEPT !.at = "sent", !.do = "load", !.batch = view[v].batch, !.own = view[v].own]
  <2>1. view' = view /\ view' = [view EXCEPT ![v] = view[v]] /\ Ask(v, "load")
    BY <1>1, <1>3 DEF Show
  <2>2. job' = [job EXCEPT ![v] = r]
    BY <2>1 DEF Ask
  <2>3. view[v].batch \in Nat /\ view[v].own \in BOOLEAN
    BY <1>1 DEF ViewRow
  <2>4. r \in JobRow
    BY <2>3, NewJobs
  <2>5. r.at = "sent" /\ r.do = "load" /\ r.batch = view[v].batch
    BY DEF NoJob
  <2> HIDE DEF r
  <2> QED BY <1>1, <1>2, <2>1, <2>2, <2>4, <2>5, ViewNamed
<1>4. CASE ~(Show(v) /\ job[v].do = "retry")
  <2>1. PICK c \in Stages \cup {"none"} : /\ view' = [view EXCEPT ![v] = [view[v] EXCEPT !.copy = c, !.busy = FALSE]]
                                          /\ job' = [job EXCEPT ![v] = NoJob]
    <3>1. CASE Show(v)
      BY <1>1, <1>4, <3>1 DEF Show, JobRow
    <3>2. CASE Flash(v)
      <4>1. view[v].copy \in Stages \cup {"none"} /\ [view[v] EXCEPT !.busy = FALSE] = [view[v] EXCEPT !.copy = view[v].copy, !.busy = FALSE]
        BY <1>1 DEF ViewRow
      <4> QED BY <1>1, <3>2, <4>1 DEF Flash
    <3> QED BY <3>1, <3>2
  <2> DEFINE w == [view[v] EXCEPT !.copy = c, !.busy = FALSE]
  <2>2. w \in ViewRow /\ w.batch = view[v].batch
    BY <1>1 DEF ViewRow
  <2>3. NoJob \in JobRow /\ NoJob.at = "idle" /\ NoJob.do = "load"
    BY NewJobs DEF NoJob
  <2>4. view' = [view EXCEPT ![v] = w]
    BY <2>1
  <2> HIDE DEF w
  <2> QED BY <1>1, <1>2, <2>1, <2>2, <2>3, <2>4, ViewNamed
<1> QED BY <1>3, <1>4

\* The server reads a batch for it.
LEMMA GetStep ==
    ASSUME ConsoleTypeOK, Named, NEW j \in Jobs, GetBatch(j)
    PROVE  ConsoleTypeOK' /\ Named' /\ \E v \in Views : Looks(v)
<1>1. /\ UNCHANGED <<available, batches, form, unheard>> /\ view' = view
      /\ job[j] \in JobRow /\ job[j].at = "sent" /\ job[j].do = "load"
      /\ job' = [job EXCEPT ![j].at = "answered", ![j].status = batches[job[j].batch].status]
      /\ job \in [Jobs -> JobRow]
  BY DEF GetBatch, server, ConsoleTypeOK
<1>2. j \in Views
  BY <1>1 DEF Named, Active, Jobs
<1>3. job[j].batch \in DOMAIN batches
  BY <1>1 DEF Named, Has, Active
<1>4. batches[job[j].batch].status \in Stages
  BY <1>3, RowTypes DEF BatchRow
<1> DEFINE r == [job[j] EXCEPT !.at = "answered", !.status = batches[job[j].batch].status]
<1>5. r \in JobRow /\ r.at = "answered" /\ r.do = "load" /\ r.batch = job[j].batch
  BY <1>1, <1>4 DEF JobRow
<1>6. job' = [job EXCEPT ![j] = r]
  BY <1>1
<1>7. view[j] \in ViewRow /\ view' = [view EXCEPT ![j] = view[j]]
  BY <1>1, <1>2 DEF ConsoleTypeOK
<1>8. view[j].batch \in DOMAIN batches
  BY <1>1, <1>2 DEF Named, Active
<1> HIDE DEF r
<1>9. r.at # "idle" => r.do \in {"load", "validate", "execute", "retry"} /\ r.batch \in DOMAIN batches
  BY <1>3, <1>5
<1>10. ConsoleTypeOK' /\ Named' /\ Looks(j)
  BY <1>1, <1>2, <1>5, <1>6, <1>7, <1>8, <1>9, ViewNamed
<1> QED BY <1>2, <1>10

\* The server moves one request on, and perhaps a batch with it.
LEMMA ServerNamed ==
    ASSUME ConsoleTypeOK, Named, NEW j \in Jobs, NEW r \in JobRow, job' = [job EXCEPT ![j] = r],
           UNCHANGED <<form, view>>, available' \in Nat, unheard' \in [Compositions -> Nat],
           batches' \in Seq(BatchRow), DOMAIN batches \subseteq DOMAIN batches',
           job[j].at # "idle", r.at # "idle",
           r.do = job[j].do, r.lines = job[j].lines, r.comp = job[j].comp, r.fit = job[j].fit,
           r.do # "create" \/ r.at = "answered" => r.batch \in DOMAIN batches',
           r.at = "read" => r.do \in DOMAIN Expected
    PROVE  ConsoleTypeOK' /\ Named' /\ Turns(j, r.at) /\ job'[j] = r
<1>1. Only(j) /\ job'[j] = r /\ job' \in [Jobs -> JobRow]
  BY DEF Only, ConsoleTypeOK
<1>2. \A k \in Jobs \ {j} : (Active(k)' <=> Active(k)) /\ (Has(k)' <=> Has(k))
  BY <1>1 DEF Only, Has, Active
<1>3. \A k \in Jobs : Has(k)' => job'[k].batch \in DOMAIN batches'
  BY <1>1, <1>2 DEF Named, Only, Has, Active
<1>4. \A k \in Jobs : Active(k)' => Active(k) /\ job'[k].do = job[k].do
  BY <1>1, <1>2 DEF Only, Active
<1>5. \A k \in Jobs : job'[k].at = "read" => job'[k].do \in DOMAIN Expected
  BY <1>1 DEF Named, Only
<1>6. \A v \in Views : Active(v)' \/ view'[v].copy # "none" => view'[v].batch \in DOMAIN batches'
  BY <1>4, JobsApart DEF Named
<1>7. DOMAIN Expected' = DOMAIN Expected
  BY DEF Expected
<1>8. Named'
  BY <1>3, <1>4, <1>5, <1>6, <1>7 DEF Named
<1> QED BY <1>1, <1>8 DEF ConsoleTypeOK, Turns

\* A request that is refused.
LEMMA RefuseStep ==
    ASSUME ConsoleTypeOK, Named, NEW j \in Jobs, To(j, "refused"), job[j].at = "sent",
           UNCHANGED <<available, batches, form, view, unheard>>,
           job[j].do = "create" => Excessive(j)
    PROVE  ConsoleTypeOK' /\ Named' /\ Refuses(j)
<1> DEFINE r == [job[j] EXCEPT !.at = "refused"]
<1>1. job[j] \in JobRow /\ job \in [Jobs -> JobRow]
  BY DEF ConsoleTypeOK
<1>2. /\ r \in JobRow /\ r.at = "refused" /\ r.do = job[j].do /\ r.batch = job[j].batch
      /\ r.lines = job[j].lines /\ r.comp = job[j].comp /\ r.fit = job[j].fit
  BY <1>1 DEF JobRow
<1>3. job' = [job EXCEPT ![j] = r]
  BY DEF To
<1>4. r.do # "create" => r.batch \in DOMAIN batches'
  BY <1>2 DEF Named, Has, Active
<1>5. available' \in Nat /\ unheard' \in [Compositions -> Nat] /\ batches' \in Seq(BatchRow)
  BY DEF ConsoleTypeOK
<1> HIDE DEF r
<1>6. ConsoleTypeOK' /\ Named' /\ Turns(j, r.at) /\ job'[j] = r
  BY <1>2, <1>3, <1>4, <1>5, ServerNamed
<1> QED BY <1>2, <1>6 DEF Refuses

\* A batch is created.
LEMMA CreateStep ==
    ASSUME ConsoleTypeOK, Named, NEW j \in Jobs, Create(j)
    PROVE  ConsoleTypeOK' /\ Named' /\ (Creates(j) \/ Refuses(j))
<1> DEFINE p == Provision(Unit * job[j].lines, Rate)
           n == Len(batches) + 1
           b == [status |-> "draft", lines |-> job[j].lines, held |-> p, comp |-> job[j].comp,
                 launches |-> 0, viewed |-> FALSE, raced |-> FALSE]
           r == [job[j] EXCEPT !.at = "answered", !.batch = n]
<1>1. /\ job[j] \in JobRow /\ job \in [Jobs -> JobRow] /\ UNCHANGED <<form, view, unheard>>
      /\ job[j].at = "sent" /\ job[j].do = "create" /\ available \in Nat
      /\ unheard' \in [Compositions -> Nat]
  BY DEF Create, ConsoleTypeOK
<1>2. p \in Nat
  <2>1. job[j].lines \in Nat /\ Unit \in Nat /\ Rate \in Nat
    BY <1>1, AmountsNatural DEF JobRow
  <2>2. Unit * job[j].lines \in Nat
    BY <2>1
  <2> QED BY <2>1, <2>2, ProvisionType
<1>3. CASE ~job[j].fit \/ job[j].lines = 0 \/ p > Limit \/ p > available
  <2>1. To(j, "refused") /\ UNCHANGED <<available, batches>>
    BY <1>3 DEF Create, server
  <2>2. Excessive(j)
    BY <1>3 DEF Excessive
  <2> QED BY <1>1, <2>1, <2>2, RefuseStep
<1>4. CASE ~(~job[j].fit \/ job[j].lines = 0 \/ p > Limit \/ p > available)
  <2> HIDE DEF p
  <2>1. available' = available - p /\ batches' = Append(batches, b) /\ job' = [job EXCEPT ![j] = r]
    BY <1>1, <1>4 DEF Create, p
  <2>2. available' \in Nat
    BY <1>1, <1>2, <1>4, <2>1
  <2>3. b \in BatchRow
    BY <1>1, <1>2 DEF BatchRow, JobRow, Stages
  <2>4. /\ b.status = "draft" /\ b.lines = job[j].lines /\ b.comp = job[j].comp
        /\ b.launches = 0 /\ ~b.viewed /\ ~b.raced
    OBVIOUS
  <2> HIDE DEF b
  <2>5. /\ batches' \in Seq(BatchRow) /\ n \in Nat /\ n \notin DOMAIN batches
        /\ DOMAIN batches' = DOMAIN batches \cup {n} /\ \A c \in DOMAIN batches : batches'[c] = batches[c]
        /\ batches'[n] = b
    BY <2>1, <2>3, OneMore
  <2> HIDE DEF n
  <2>6. /\ r \in JobRow /\ r.at = "answered" /\ r.do = job[j].do /\ r.batch = n
        /\ r.lines = job[j].lines /\ r.comp = job[j].comp /\ r.fit = job[j].fit
    BY <1>1, <2>5 DEF JobRow
  <2> HIDE DEF r
  <2>7. ConsoleTypeOK' /\ Named' /\ Turns(j, r.at) /\ job'[j] = r
    BY <1>1, <2>1, <2>2, <2>5, <2>6, ServerNamed
  <2>8. Creates(j)
    BY <1>1, <2>4, <2>5, <2>6, <2>7 DEF Creates, n
  <2> QED BY <2>7, <2>8
<1> QED BY <1>3, <1>4

\* A batch is read.
LEMMA ReadStep ==
    ASSUME ConsoleTypeOK, Named, NEW j \in Jobs, ReadBatch(j)
    PROVE  ConsoleTypeOK' /\ Named' /\ (Reads(j) \/ Refuses(j))
<1> DEFINE b == job[j].batch
           r == [job[j] EXCEPT !.at = "read"]
           row == [batches[b] EXCEPT !.raced = batches[b].raced \/ Midway(b) # {}]
           unfit == \/ batches[b].status # Expected[job[j].do]
                    \/ job[j].do = "validate" /\ job[j].own /\ batches[b].held >= Threshold
<1>1. /\ job[j] \in JobRow /\ job \in [Jobs -> JobRow] /\ UNCHANGED <<available, form, view, unheard>>
      /\ job[j].at = "sent" /\ job[j].do \in DOMAIN Expected
      /\ unheard' \in [Compositions -> Nat] /\ available' \in Nat
  BY DEF ReadBatch, ConsoleTypeOK
<1>2. b \in DOMAIN batches /\ batches[b] \in BatchRow
  BY <1>1, RowTypes DEF Named, Has, Active, Expected
<1>3. CASE unfit
  <2>1. To(j, "refused") /\ UNCHANGED batches
    BY <1>3 DEF ReadBatch
  <2>2. job[j].do # "create"
    BY <1>1 DEF Expected
  <2> QED BY <1>1, <2>1, <2>2, RefuseStep
<1>4. CASE ~unfit
  <2>1. To(j, "read") /\ batches' = [batches EXCEPT ![b].raced = @ \/ Midway(b) # {}]
    BY <1>4 DEF ReadBatch
  <2>2. batches' = [batches EXCEPT ![b] = row] /\ job' = [job EXCEPT ![j] = r]
    BY <2>1 DEF To
  <2>3. /\ row \in BatchRow /\ row.lines = batches[b].lines /\ row.comp = batches[b].comp
        /\ row.status = batches[b].status /\ row.launches = batches[b].launches
        /\ row.viewed = batches[b].viewed /\ row.raced = (batches[b].raced \/ Midway(b) # {})
    BY <1>2 DEF BatchRow
  <2> HIDE DEF row
  <2>4. /\ batches' \in Seq(BatchRow) /\ DOMAIN batches' = DOMAIN batches
        /\ \A c \in DOMAIN batches \ {b} : batches'[c] = batches[c]
        /\ batches'[b] = row
    BY <1>2, <2>2, <2>3, OneChanged
  <2>5. /\ r \in JobRow /\ r.at = "read" /\ r.do = job[j].do /\ r.batch = b
        /\ r.lines = job[j].lines /\ r.comp = job[j].comp /\ r.fit = job[j].fit
    BY <1>1 DEF JobRow
  <2> HIDE DEF r
  <2>6. ConsoleTypeOK' /\ Named' /\ Turns(j, r.at) /\ job'[j] = r
    BY <1>1, <1>2, <2>2, <2>4, <2>5, ServerNamed
  <2>7. Reads(j)
    BY <1>1, <1>4, <2>3, <2>4, <2>5, <2>6 DEF Reads, Keeps
  <2> QED BY <2>6, <2>7
<1> QED BY <1>3, <1>4

\* A batch is saved.
LEMMA SaveStep ==
    ASSUME ConsoleTypeOK, Named, NEW j \in Jobs, SaveBatch(j)
    PROVE  ConsoleTypeOK' /\ Named' /\ Saves(j)
<1> DEFINE b == job[j].batch
           executes == job[j].do # "validate"
           status == IF executes THEN "processing" ELSE "validated"
           launches == batches[b].launches + IF executes THEN 1 ELSE 0
           viewed == batches[b].viewed \/ (executes /\ j \in Views)
           row == [batches[b] EXCEPT !.status = status, !.launches = launches, !.viewed = viewed]
<1>1. /\ job[j] \in JobRow /\ job \in [Jobs -> JobRow] /\ UNCHANGED <<available, form, view>>
      /\ job[j].at = "read" /\ job[j].do \in DOMAIN Expected
      /\ unheard \in [Compositions -> Nat] /\ available' \in Nat
  BY DEF SaveBatch, ConsoleTypeOK, Named
<1>2. b \in DOMAIN batches /\ batches[b] \in BatchRow
  BY <1>1, RowTypes DEF Named, Has, Active, Expected
<1>3. batches' = [batches EXCEPT ![b] = row]
  BY DEF SaveBatch
<1>4. /\ row \in BatchRow /\ row.lines = batches[b].lines /\ row.comp = batches[b].comp
      /\ row.status = status /\ row.launches = launches
      /\ row.viewed = viewed /\ row.raced = batches[b].raced
  <2>1. launches \in Nat /\ viewed \in BOOLEAN
    BY <1>2 DEF BatchRow
  <2>2. status \in Stages
    BY DEF Stages
  <2> HIDE DEF launches, viewed, status
  <2> QED BY <1>2, <2>1, <2>2 DEF BatchRow
<1> HIDE DEF row
<1>5. /\ batches' \in Seq(BatchRow) /\ DOMAIN batches' = DOMAIN batches
      /\ \A c \in DOMAIN batches \ {b} : batches'[c] = batches[c]
      /\ batches'[b] = row
  BY <1>2, <1>3, <1>4, OneChanged
<1>6. PICK r \in JobRow :
         /\ job' = [job EXCEPT ![j] = r] /\ r.do = job[j].do /\ r.batch = b
         /\ r.lines = job[j].lines /\ r.comp = job[j].comp /\ r.fit = job[j].fit
         /\ \/ r.at = "answered" /\ UNCHANGED unheard
            \/ /\ r.at = "refused" /\ executes
               /\ unheard' = [unheard EXCEPT ![batches[b].comp] = @ + 1]
  <2>1. CASE job' = [job EXCEPT ![j].at = "answered", ![j].status = status] /\ UNCHANGED <<unheard, spent>>
    <3> DEFINE r == [job[j] EXCEPT !.at = "answered", !.status = status]
    <3>1. /\ r \in JobRow /\ r.at = "answered" /\ r.do = job[j].do /\ r.batch = b
          /\ r.lines = job[j].lines /\ r.comp = job[j].comp /\ r.fit = job[j].fit
      BY <1>1 DEF JobRow, Stages
    <3>2. job' = [job EXCEPT ![j] = r]
      BY <2>1
    <3> HIDE DEF r
    <3> QED BY <2>1, <3>1, <3>2
  <2>2. CASE /\ executes /\ To(j, "refused")
             /\ unheard' = [unheard EXCEPT ![batches[b].comp] = @ + 1]
    <3> DEFINE r == [job[j] EXCEPT !.at = "refused"]
    <3>1. /\ r \in JobRow /\ r.at = "refused" /\ r.do = job[j].do /\ r.batch = b
          /\ r.lines = job[j].lines /\ r.comp = job[j].comp /\ r.fit = job[j].fit
      BY <1>1 DEF JobRow
    <3>2. job' = [job EXCEPT ![j] = r]
      BY <2>2 DEF To
    <3> HIDE DEF r
    <3> QED BY <2>2, <3>1, <3>2
  <2> QED BY <2>1, <2>2 DEF SaveBatch
<1>7. unheard' \in [Compositions -> Nat]
  <2>1. batches[b].comp \in Compositions
    BY <1>2 DEF BatchRow
  <2> QED BY <1>1, <1>6, <2>1
<1>8. ConsoleTypeOK' /\ Named' /\ Turns(j, r.at) /\ job'[j] = r
  BY <1>1, <1>2, <1>5, <1>6, <1>7, ServerNamed
<1>9. Saves(j)
  BY <1>1, <1>4, <1>5, <1>6, <1>8 DEF Saves, Keeps
<1> QED BY <1>8, <1>9

\* A batch that was launched ends.
LEMMA FinishStep ==
    ASSUME ConsoleTypeOK, Named, NEW b \in DOMAIN batches, NEW ends \in {"completed", "failed"},
           Finish(b, ends)
    PROVE  ConsoleTypeOK' /\ Named' /\ Ends(b)
<1> DEFINE row == [batches[b] EXCEPT !.status = ends, !.held = 0]
<1>1. /\ UNCHANGED <<form, job, view, unheard>> /\ batches[b].status = "processing"
      /\ batches' = [batches EXCEPT ![b] = row] /\ batches[b] \in BatchRow
  BY RowTypes DEF Finish
<1>2. available' \in Nat
  <2>1. available \in Nat /\ batches[b].held \in Nat
    BY <1>1 DEF ConsoleTypeOK, BatchRow
  <2> QED BY <2>1 DEF Finish
<1>3. /\ row \in BatchRow /\ row.lines = batches[b].lines /\ row.comp = batches[b].comp
      /\ row.status = ends /\ row.launches = batches[b].launches
      /\ row.viewed = batches[b].viewed /\ row.raced = batches[b].raced
  BY <1>1 DEF BatchRow, Stages
<1> HIDE DEF row
<1>4. /\ batches' \in Seq(BatchRow) /\ DOMAIN batches' = DOMAIN batches
      /\ \A c \in DOMAIN batches \ {b} : batches'[c] = batches[c]
      /\ batches'[b] = row
  BY <1>1, <1>3, OneChanged
<1>5. Named'
  BY <1>1, <1>4 DEF Named, Has, Active, Expected
<1> QED BY <1>1, <1>2, <1>3, <1>4, <1>5 DEF ConsoleTypeOK, Ends, Keeps

\* Every step has one of the shapes.
LEMMA StepShapes ==
    ASSUME ConsoleTypeOK, Named, [Next]_vars
    PROVE  ConsoleTypeOK' /\ Named' /\ Shapes
<1>1. CASE UNCHANGED vars
  BY <1>1 DEF vars, server, ConsoleTypeOK, Named, Has, Active, Shapes
<1>2. CASE Recharge
  <2>1. available' \in Nat /\ UNCHANGED <<batches, form, job, view, unheard>>
    BY <1>2, AmountsNatural DEF Recharge, ConsoleTypeOK
  <2> QED BY <2>1 DEF ConsoleTypeOK, Named, Has, Active, Shapes
<1>3. CASE \/ LoadForm \/ Go \/ \E picked \in SUBSET Directory : Pick(picked)
           \/ \E n \in 1..MaxExtras : ChooseFile(n)
           \/ FileRead \/ \E n \in 0..MaxExtras : DropExtras(n)
           \/ NewBatch
  BY <1>3, ComposeSteps DEF Shapes
<1>4. CASE \E f \in Flows : Press(f) \/ Lose(f)
  BY <1>4, PressStep, GiveUpStep DEF Shapes
<1>5. ASSUME NEW j \in Jobs, Serve(j) PROVE ConsoleTypeOK' /\ Named' /\ Shapes
  BY <1>5, CreateStep, ReadStep, SaveStep, GetStep DEF Serve, Shapes
<1>6. ASSUME NEW j \in Jobs, Hear(j) PROVE ConsoleTypeOK' /\ Named' /\ Shapes
  <2>1. CASE Advance(j) \/ Refused(j)
    <3>1. j \in Flows
      BY <2>1 DEF Advance, Refused
    <3> QED BY <2>1, <3>1, AdvanceStep, GiveUpStep DEF Shapes
  <2>2. CASE Show(j) \/ Flash(j)
    <3>1. j \in Views
      BY <2>2 DEF Show, Flash
    <3> QED BY <2>2, <3>1, HearStep DEF Shapes
  <2> QED BY <1>6, <2>1, <2>2 DEF Hear
<1>7. CASE \E v \in Views :
              \/ \E b \in DOMAIN batches, own \in BOOLEAN : OpenView(v, b, own)
              \/ \E do \in DOMAIN Expected : PressView(v, do)
  BY <1>7, AskStep DEF Shapes
<1>8. CASE \E b \in DOMAIN batches, ends \in {"completed", "failed"} : Finish(b, ends)
  BY <1>8, FinishStep DEF Shapes
<1> QED BY <1>1, <1>2, <1>3, <1>4, <1>5, <1>6, <1>7, <1>8 DEF Next

-----------------------------------------------------------------------------
(* A batch is launched once. *)

\* Until two requests are between their read and their save, the one that is there
\* finds at its save what it read, and nothing launched.
OnceEach ==
    \A b \in DOMAIN batches : ~batches[b].raced =>
        /\ batches[b].launches <= 1
        /\ batches[b].status \in {"draft", "validated"} => batches[b].launches = 0
        /\ \A j \in Midway(b) : batches[b].status = Expected[job[j].do]
        /\ \A j, k \in Midway(b) : j = k

\* What the server expects.
LEMMA ExpectedStages ==
    /\ DOMAIN Expected = {"validate", "execute", "retry"}
    /\ \A do \in DOMAIN Expected : Expected[do] \in {"draft", "validated"}
BY DEF Expected

\* Initially there is no batch.
LEMMA InitOnce == Init => OnceEach
BY DEF Init, OnceEach

\* The batches are as they were, and fewer requests at most are about to save.
LEMMA OnceKept ==
    ASSUME OnceEach, batches' = batches, NEW j,
           \A k \in Jobs \ {j} : job'[k] = job[k], job'[j].at # "read"
    PROVE  OnceEach'
<1>1. \A b : Midway(b)' \subseteq Midway(b) /\ \A k \in Midway(b)' : job'[k] = job[k]
  BY DEF Midway
<1> SUFFICES ASSUME NEW b \in DOMAIN batches, ~batches[b].raced
             PROVE  /\ batches[b].launches <= 1
                    /\ batches[b].status \in {"draft", "validated"} => batches[b].launches = 0
                    /\ \A k \in Midway(b)' : batches[b].status = Expected[job'[k].do]
                    /\ \A k, l \in Midway(b)' : k = l
  BY DEF OnceEach, Expected
<1> QED BY <1>1 DEF OnceEach

\* A new batch is nobody's yet.
LEMMA CreateOnce ==
    ASSUME ConsoleTypeOK, Named, OnceEach, NEW j \in Jobs, Creates(j) PROVE OnceEach'
<1>0. PICK n : n = Len(batches) + 1
  OBVIOUS
<1>1. \A k \in Jobs : job'[k].at = "read" => k # j /\ job'[k] = job[k] /\ job[k].batch \in DOMAIN batches
  BY DEF Creates, Turns, Only, Named, Has, Active, Expected
<1>2. \A b : Midway(b)' \subseteq Midway(b) /\ \A k \in Midway(b)' : job'[k] = job[k]
  BY <1>1 DEF Midway
<1>3. Midway(n)' = {}
  BY <1>0, <1>1 DEF Midway, Creates
<1> SUFFICES ASSUME NEW b \in DOMAIN batches', ~batches'[b].raced
             PROVE  /\ batches'[b].launches <= 1
                    /\ batches'[b].status \in {"draft", "validated"} => batches'[b].launches = 0
                    /\ \A k \in Midway(b)' : batches'[b].status = Expected[job'[k].do]
                    /\ \A k, l \in Midway(b)' : k = l
  BY DEF OnceEach, Expected
<1>4. CASE b = n
  BY <1>0, <1>3, <1>4 DEF Creates
<1>5. CASE b # n
  <2>1. b \in DOMAIN batches /\ batches'[b] = batches[b]
    BY <1>0, <1>5 DEF Creates
  <2> QED BY <1>2, <2>1 DEF OnceEach
<1> QED BY <1>4, <1>5

\* The first request to read a batch is alone with it.
LEMMA ReadOnce ==
    ASSUME ConsoleTypeOK, Named, OnceEach, NEW j \in Jobs, Reads(j) PROVE OnceEach'
<1> DEFINE b == job[j].batch
<1>1. \A c : Midway(c)' \subseteq Midway(c) \cup {j} /\ \A k \in Midway(c)' \ {j} : job'[k] = job[k]
  BY DEF Midway, Reads, Turns, Only
<1>2. \A c : j \in Midway(c)' => c = b
  BY DEF Midway, Reads, Turns
<1> SUFFICES ASSUME NEW c \in DOMAIN batches, ~batches'[c].raced
             PROVE  /\ batches'[c].launches <= 1
                    /\ batches'[c].status \in {"draft", "validated"} => batches'[c].launches = 0
                    /\ \A k \in Midway(c)' : batches'[c].status = Expected[job'[k].do]
                    /\ \A k, l \in Midway(c)' : k = l
  BY DEF OnceEach, Expected, Reads
<1>3. CASE c = b
  <2>1. ~batches[b].raced /\ Midway(b) = {}
    BY <1>3 DEF Reads
  <2>2. /\ batches'[b].launches = batches[b].launches /\ batches'[b].status = batches[b].status
        /\ batches[b].status = Expected[job[j].do] /\ job'[j].do = job[j].do
    BY DEF Reads, Turns
  <2>3. Midway(c)' \subseteq {j}
    BY <1>1, <1>3, <2>1
  <2>4. /\ batches[b].launches <= 1
        /\ batches[b].status \in {"draft", "validated"} => batches[b].launches = 0
    BY <1>3, <2>1 DEF OnceEach
  <2> HIDE DEF b
  <2> QED BY <1>3, <2>2, <2>3, <2>4
<1>4. CASE c # b
  <2>1. batches'[c] = batches[c] /\ Midway(c)' \subseteq Midway(c)
    BY <1>1, <1>2, <1>4 DEF Reads
  <2>2. j \notin Midway(c)'
    BY <1>2, <1>4
  <2> QED BY <1>1, <2>1, <2>2 DEF OnceEach
<1> QED BY <1>3, <1>4

\* The request that saves finds what it read.
LEMMA SaveOnce ==
    ASSUME ConsoleTypeOK, Named, OnceEach, NEW j \in Jobs, Saves(j) PROVE OnceEach'
<1> DEFINE b == job[j].batch
<1>1. /\ b \in DOMAIN batches /\ batches[b] \in BatchRow /\ j \in Midway(b)
      /\ job[j].do \in DOMAIN Expected /\ job'[j].at # "read"
  BY RowTypes DEF Named, Has, Active, Expected, Saves, Midway
<1>2. \A c : /\ Midway(c)' \subseteq Midway(c) \ {j} /\ \A k \in Midway(c)' : job'[k] = job[k]
  BY <1>1 DEF Midway, Saves, Turns, Only
<1> SUFFICES ASSUME NEW c \in DOMAIN batches, ~batches'[c].raced
             PROVE  /\ batches'[c].launches <= 1
                    /\ batches'[c].status \in {"draft", "validated"} => batches'[c].launches = 0
                    /\ \A k \in Midway(c)' : batches'[c].status = Expected[job'[k].do]
                    /\ \A k, l \in Midway(c)' : k = l
  BY DEF OnceEach, Expected, Saves
<1>3. CASE c = b
  <2>1. ~batches[b].raced
    BY <1>3 DEF Saves
  <2>2. batches[b].status = Expected[job[j].do] /\ \A k \in Midway(b) : k = j
    BY <1>1, <2>1 DEF OnceEach
  <2>3. batches[b].launches = 0
    BY <1>1, <2>1, <2>2, ExpectedStages DEF OnceEach
  <2>4. Midway(c)' = {}
    BY <1>2, <1>3, <2>2
  <2>5. /\ batches'[b].status = IF job[j].do # "validate" THEN "processing" ELSE "validated"
        /\ batches'[b].launches = IF job[j].do # "validate" THEN 1 ELSE 0
    BY <2>3 DEF Saves
  <2> HIDE DEF b
  <2> QED BY <1>3, <2>4, <2>5
<1>4. CASE c # b
  <2>1. batches'[c] = batches[c]
    BY <1>4 DEF Saves
  <2> QED BY <1>2, <2>1 DEF OnceEach
<1> QED BY <1>3, <1>4

\* Nobody is about to save a batch that is being paid.
LEMMA EndOnce ==
    ASSUME ConsoleTypeOK, Named, OnceEach, NEW b \in DOMAIN batches, Ends(b) PROVE OnceEach'
<1>1. \A c : Midway(c)' = Midway(c)
  BY DEF Midway, Ends
<1> SUFFICES ASSUME NEW c \in DOMAIN batches, ~batches'[c].raced
             PROVE  /\ batches'[c].launches <= 1
                    /\ batches'[c].status \in {"draft", "validated"} => batches'[c].launches = 0
                    /\ \A k \in Midway(c) : batches'[c].status = Expected[job[k].do]
                    /\ \A k, l \in Midway(c) : k = l
  BY <1>1 DEF OnceEach, Expected, Ends
<1>2. CASE c = b
  <2>1. ~batches[b].raced /\ batches[b].status = "processing"
    BY <1>2 DEF Ends
  <2>2. \A k \in Midway(b) : job[k].do \in DOMAIN Expected
    BY DEF Named, Midway
  <2>3. Midway(b) = {}
    BY <2>1, <2>2, ExpectedStages DEF OnceEach
  <2> QED BY <1>2, <2>1, <2>3 DEF OnceEach, Ends
<1>3. CASE c # b
  <2>1. batches'[c] = batches[c]
    BY <1>3 DEF Ends
  <2> QED BY <2>1 DEF OnceEach
<1> QED BY <1>2, <1>3

\* Every step keeps it.
LEMMA OnceStep == ASSUME ConsoleTypeOK, Named, OnceEach, Shapes PROVE OnceEach'
<1>1. CASE Composes \/ UNCHANGED <<batches, form, job, view, unheard>>
  <2>1. batches' = batches /\ job' = job
    BY <1>1 DEF Composes
  <2>2. \A b : Midway(b)' = Midway(b)
    BY <2>1 DEF Midway
  <2> QED BY <2>1, <2>2 DEF OnceEach, Expected
<1>2. CASE \E f \in Flows : Presses(f) \/ Continues(f) \/ Concludes(f) \/ GivesUp(f)
  <2>1. PICK f \in Flows : Presses(f) \/ Continues(f) \/ Concludes(f) \/ GivesUp(f)
    BY <1>2
  <2>2. batches' = batches /\ Only(f) /\ job'[f].at # "read"
    BY <2>1 DEF Presses, Continues, Concludes, GivesUp, NoJob
  <2> QED BY <2>2, OnceKept DEF Only
<1>3. CASE \E v \in Views : Looks(v)
  <2>1. PICK v \in Views : batches' = batches /\ Only(v) /\ job'[v].at # "read"
    BY <1>3 DEF Looks
  <2> QED BY <2>1, OnceKept DEF Only
<1>4. CASE \E j \in Jobs : Refuses(j)
  <2>1. PICK j \in Jobs : batches' = batches /\ Only(j) /\ job'[j].at # "read"
    BY <1>4 DEF Refuses, Turns
  <2> QED BY <2>1, OnceKept DEF Only
<1> QED BY <1>1, <1>2, <1>3, <1>4, CreateOnce, ReadOnce, SaveOnce, EndOnce DEF Shapes

\* The invariant so far, for ever.
LEMMA AlwaysOnce == Spec => [](ConsoleTypeOK /\ Named /\ OnceEach)
<1>1. ConsoleTypeOK /\ Named /\ OnceEach /\ [Next]_vars => (ConsoleTypeOK /\ Named /\ OnceEach)'
  BY StepShapes, OnceStep
<1> QED BY InitTypes, InitOnce, <1>1, PTL DEF Spec

\* Requests, pages and batches keep their types, and requests name batches there are.
THEOREM ConsoleTypes == Spec => [](ConsoleTypeOK /\ Named)
<1> QED BY AlwaysOnce, PTL

\* However the composing page and the pages of a batch interleave, a batch is launched
\* once, unless two requests were between the read and the save of Validate or Execute
\* (batch.go, Validate and Execute).
THEOREM OneLaunch == Spec => []LaunchedOnce
<1>1. OnceEach => LaunchedOnce
  BY DEF OnceEach, LaunchedOnce
<1> QED BY <1>1, AlwaysOnce, PTL

-----------------------------------------------------------------------------
(* What the composing page knows. *)

LinesShown == Cardinality(form.picked) + form.extras

\* A launch under way is the page's only one, of what it showed when it was pressed,
\* and its requests are about the batch that its creation made.
Follows(f) ==
    /\ form.loading /\ ~form.done /\ form.purse.known /\ job[f].comp = form.comp
    /\ ~form.edited => job[f].lines = LinesShown
    /\ job[f].do = "create" /\ job[f].fit
          => Provision(Unit * job[f].lines, PageRate) <= form.purse.amount
    /\ Has(f) => /\ batches[job[f].batch].lines = job[f].lines
                 /\ batches[job[f].batch].comp = job[f].comp
    /\ job[f].do # "create" => form.last = job[f].batch
    /\ job[f].do = "execute" /\ job[f].at = "answered" => Launched(job[f].batch)

Steady ==
    /\ \A f, g \in Flows : Active(f) /\ Active(g) => f = g
    /\ \A f \in Flows : Active(f) => Follows(f)
    /\ form.done => /\ form.purse.known /\ form.last \in DOMAIN batches /\ Launched(form.last)
                    /\ ~form.edited => batches[form.last].lines = LinesShown

\* Initially nothing is under way.
LEMMA InitSteady == Init => Steady
BY JobsApart DEF Init, Steady, Active, NoJob

\* The page is edited, reads its wallet or begins another batch.
LEMMA ComposeSteady == ASSUME Steady, Composes PROVE Steady'
<1>1. /\ batches' = batches /\ job' = job /\ form'.loading = form.loading /\ form'.last = form.last
      /\ \A f : (Active(f)' <=> Active(f)) /\ (Has(f)' <=> Has(f))
      /\ \A b : Launched(b)' <=> Launched(b)
  BY DEF Composes, Active, Has, Launched
<1>2. CASE \E f \in Flows : Active(f)
  <2>1. ~form.done /\ form.purse.known
    BY <1>2 DEF Steady, Follows
  <2>2. /\ form'.purse = form.purse /\ form'.comp = form.comp /\ ~form'.done
        /\ ~form'.edited => ~form.edited /\ LinesShown' = LinesShown
    BY <2>1 DEF Composes, LinesShown
  <2>3. \A f \in Flows : Active(f) => Follows(f)'
    BY <1>1, <2>2 DEF Steady, Follows
  <2> QED BY <1>1, <2>2, <2>3 DEF Steady
<1>3. CASE ~ \E f \in Flows : Active(f)
  <2>1. CASE form'.done
    <3>1. /\ form.done /\ form'.purse = form.purse
          /\ ~form'.edited => ~form.edited /\ LinesShown' = LinesShown
      BY <2>1 DEF Composes, Steady, LinesShown
    <3> QED BY <1>1, <1>3, <3>1 DEF Steady
  <2> QED BY <1>1, <1>3, <2>1 DEF Steady
<1> QED BY <1>2, <1>3

\* A launch is pressed when none is under way, with a wallet sufficient for lines that are fit.
LEMMA PressSteady == ASSUME Named, Steady, NEW f \in Flows, Presses(f) PROVE Steady'
<1>1. \A g \in Flows : ~ Active(g)
  BY DEF Presses, Steady, Follows
<1>2. \A g \in Flows : Active(g)' => g = f
  BY <1>1, JobsApart DEF Presses, Only, Active
<1>3. LinesShown' = LinesShown /\ ~ Has(f)'
  BY DEF Presses, LinesShown, Has
<1>4. /\ job'[f].fit => Provision(Unit * job'[f].lines, PageRate) <= form'.purse.amount
      /\ form'.purse.known
  BY DEF Presses, Sufficient, Mass
<1>5. Follows(f)'
  BY <1>3, <1>4 DEF Presses, Follows, LinesShown
<1>6. ~form'.done
  BY DEF Presses
<1> QED BY <1>2, <1>5, <1>6 DEF Steady

\* The next request of a launch is about the same batch.
LEMMA ContinueSteady == ASSUME ConsoleTypeOK, Named, Steady, NEW f \in Flows, Continues(f) PROVE Steady'
<1>1. Active(f) /\ Has(f) /\ Follows(f) /\ \A g \in Flows : Active(g) => g = f
  BY DEF Continues, Active, Has, Steady
<1>2. \A g \in Flows : Active(g)' => g = f
  BY <1>1, JobsApart DEF Continues, Only, Active
<1>3. LinesShown' = LinesShown /\ batches' = batches
  BY DEF Continues, LinesShown
<1>4. Follows(f)'
  BY <1>1, <1>3 DEF Continues, Follows
<1>5. ~form'.done
  BY <1>1 DEF Continues, Follows
<1> QED BY <1>2, <1>4, <1>5 DEF Steady

\* Done is said of a batch that was launched.
LEMMA ConcludeSteady == ASSUME ConsoleTypeOK, Named, Steady, NEW f \in Flows, Concludes(f) PROVE Steady'
<1>1. Active(f) /\ Has(f) /\ Follows(f) /\ \A g \in Flows : Active(g) => g = f
  BY DEF Concludes, Active, Has, Steady
<1>2. \A g \in Flows : ~ Active(g)'
  BY <1>1, JobsApart DEF Concludes, Only, Active, NoJob
<1>3. /\ form'.purse = form.purse /\ form'.last = form.last /\ form'.edited = form.edited
      /\ LinesShown' = LinesShown /\ batches' = batches
  BY DEF Concludes, LinesShown, ConsoleTypeOK, FormRow
<1>4. form.last = job[f].batch /\ Launched(form.last) /\ form.last \in DOMAIN batches /\ form.purse.known
  BY <1>1, JobsApart DEF Concludes, Follows, Named
<1>5. ~form.edited => batches[form.last].lines = LinesShown
  BY <1>1, <1>4 DEF Follows
<1>6. Launched(form.last)'
  BY <1>3, <1>4 DEF Launched
<1> QED BY <1>2, <1>3, <1>4, <1>5, <1>6 DEF Steady

\* After a launch given up none is under way.
LEMMA GiveUpSteady == ASSUME ConsoleTypeOK, Named, Steady, NEW f \in Flows, GivesUp(f) PROVE Steady'
<1>1. Active(f) /\ Follows(f) /\ \A g \in Flows : Active(g) => g = f
  BY DEF GivesUp, Steady
<1>2. \A g \in Flows : ~ Active(g)'
  BY <1>1, JobsApart DEF GivesUp, Only, Active, NoJob
<1>3. ~form'.done
  BY <1>1 DEF GivesUp, Follows, ConsoleTypeOK, FormRow
<1> QED BY <1>2, <1>3 DEF Steady

\* A batch page changes nothing here.
LEMMA LookSteady == ASSUME Steady, NEW v \in Views, Looks(v) PROVE Steady'
<1>1. \A f \in Flows : job'[f] = job[f]
  BY JobsApart DEF Looks, Only
<1>2. batches' = batches /\ form' = form
  BY DEF Looks
<1>3. \A f \in Flows : (Active(f)' <=> Active(f)) /\ (Follows(f)' <=> Follows(f))
  BY <1>1, <1>2 DEF Active, Follows, Has, LinesShown, Launched
<1>4. \A b : Launched(b)' <=> Launched(b)
  BY <1>2 DEF Launched
<1> QED BY <1>2, <1>3, <1>4 DEF Steady, LinesShown

\* What the server keeps of the batches there are.
Grows == \A b \in DOMAIN batches : b \in DOMAIN batches' /\ Keeps(b) /\ (Launched(b) => Launched(b)')

\* The server moves one request on.
LEMMA ServedSteady ==
    ASSUME Named, Steady, NEW j \in Jobs, NEW at, Turns(j, at), Active(j), Grows,
           job[j].do # "create" => job'[j].batch = job[j].batch,
           Has(j)' => /\ batches'[job'[j].batch].lines = job[j].lines
                      /\ batches'[job'[j].batch].comp = job[j].comp,
           job'[j].do = "execute" /\ job'[j].at = "answered" => batches'[job'[j].batch].launches > 0
    PROVE  Steady'
<1>1. form' = form /\ LinesShown' = LinesShown
  BY DEF Turns, LinesShown
<1>2. \A f \in Flows : Active(f)' => Active(f)
  BY JobsApart DEF Turns, Only, Active
<1>3. ASSUME NEW f \in Flows, Active(f)' PROVE Follows(f)'
  <2>1. Follows(f) /\ f \in Jobs
    BY <1>2, <1>3, JobsApart DEF Steady
  <2>2. CASE f = j
    BY <1>1, <2>1, <2>2 DEF Follows, Turns, Launched
  <2>3. CASE f # j
    <3>1. job'[f] = job[f] /\ (Has(f)' <=> Has(f))
      BY <2>1, <2>3 DEF Turns, Only, Has, Active
    <3>2. Has(f) => job[f].batch \in DOMAIN batches
      BY <2>1 DEF Named
    <3>3. job[f].do = "execute" /\ job[f].at = "answered" => Has(f)
      BY DEF Has, Active
    <3> QED BY <1>1, <2>1, <3>1, <3>2, <3>3 DEF Follows, Grows, Keeps
  <2> QED BY <2>2, <2>3
<1>4. form'.done => /\ form'.purse.known /\ form'.last \in DOMAIN batches' /\ batches'[form'.last].launches > 0
                    /\ ~form'.edited => batches'[form'.last].lines = LinesShown'
  BY <1>1 DEF Steady, Grows, Keeps, Launched
<1> QED BY <1>2, <1>3, <1>4 DEF Steady, Launched

\* Every step keeps it.
LEMMA SteadyStep == ASSUME ConsoleTypeOK, Named, Steady, Shapes PROVE Steady'
<1>1. ASSUME NEW j \in Jobs, Creates(j) PROVE Steady'
  <2>1. Active(j) /\ job[j].do = "create" /\ job'[j].do = "create" /\ Turns(j, "answered")
    BY <1>1 DEF Creates, Turns, Active
  <2>2. Grows
    BY <1>1 DEF Creates, Grows, Keeps, Launched
  <2>3. /\ batches'[job'[j].batch].lines = job[j].lines
        /\ batches'[job'[j].batch].comp = job[j].comp
    BY <1>1 DEF Creates
  <2> QED BY <2>1, <2>2, <2>3, ServedSteady
<1>2. ASSUME NEW j \in Jobs, Refuses(j) PROVE Steady'
  <2>1. Active(j) /\ Turns(j, "refused") /\ job'[j].batch = job[j].batch /\ job'[j].at = "refused"
    BY <1>2 DEF Refuses, Turns, Active
  <2>2. Grows
    BY <1>2 DEF Refuses, Grows, Keeps, Launched
  <2>3. Has(j)' => Has(j)
    BY <2>1 DEF Has, Turns, Active
  <2>4. CASE j \in Flows
    <3>1. Has(j)' => /\ batches'[job'[j].batch].lines = job[j].lines
                     /\ batches'[job'[j].batch].comp = job[j].comp
      BY <1>2, <2>1, <2>3, <2>4 DEF Steady, Follows, Refuses
    <3> QED BY <2>1, <2>2, <3>1, ServedSteady
  <2>5. CASE j \notin Flows
    <3>1. \A f \in Flows : job'[f] = job[f]
      BY <1>2, <2>5, JobsApart DEF Refuses, Turns, Only
    <3> QED BY <1>2, <3>1 DEF Refuses, Turns, Steady, Active, Follows, Has, LinesShown, Launched
  <2> QED BY <2>4, <2>5
<1>3. ASSUME NEW j \in Jobs, Reads(j) \/ Saves(j) PROVE Steady'
  <2> DEFINE b == job[j].batch
  <2>1. /\ Active(j) /\ Has(j) /\ job'[j].batch = b /\ Turns(j, job'[j].at)
        /\ job'[j].do = job[j].do
    BY <1>3 DEF Reads, Saves, Turns, Active, Has, Named, Expected
  <2>2. b \in DOMAIN batches /\ batches[b].launches \in Nat
    BY <2>1, RowTypes DEF Named, BatchRow
  <2>3. /\ DOMAIN batches' = DOMAIN batches /\ \A c \in DOMAIN batches \ {b} : batches'[c] = batches[c]
        /\ Keeps(b) /\ batches'[b].launches >= batches[b].launches
    BY <1>3, <2>2 DEF Reads, Saves
  <2>4. Grows
    <3> SUFFICES ASSUME NEW c \in DOMAIN batches PROVE Keeps(c) /\ (Launched(c) => Launched(c)')
      BY <2>3 DEF Grows
    <3>1. CASE c = b
      <4>1. batches[c].launches \in Nat /\ batches'[c].launches >= batches[c].launches /\ Keeps(c)
        BY <2>2, <2>3, <3>1
      <4>2. batches[c].launches > 0 => batches'[c].launches > 0
        <5>1. batches'[c].launches \in Nat
          <6>1. batches'[b].launches \in Nat
            BY <1>3, <2>2 DEF Reads, Saves
          <6> QED BY <3>1, <6>1
        <5> QED BY <4>1, <5>1
      <4> QED BY <4>1, <4>2 DEF Launched
    <3>2. CASE c # b
      BY <2>3, <3>2 DEF Keeps, Launched
    <3> QED BY <3>1, <3>2
  <2>5. job[j].do = "execute" /\ job'[j].at = "answered" => batches'[b].launches > 0
    BY <1>3, <2>2 DEF Reads, Saves, Turns
  <2>6. job'[j].do = "execute" /\ job'[j].at = "answered" => batches'[job'[j].batch].launches > 0
    BY <2>1, <2>5
  <2>7. CASE j \in Flows
    <3>1. batches[b].lines = job[j].lines /\ batches[b].comp = job[j].comp
      BY <2>1, <2>7 DEF Steady, Follows
    <3>2. batches'[job'[j].batch].lines = job[j].lines /\ batches'[job'[j].batch].comp = job[j].comp
      BY <2>1, <2>3, <3>1 DEF Keeps
    <3> QED BY <2>1, <2>4, <2>6, <3>2, ServedSteady
  <2>8. CASE j \notin Flows
    <3>1. /\ \A f \in Flows : f \in Jobs /\ job'[f] = job[f]
          /\ form' = form /\ LinesShown' = LinesShown
      BY <2>1, <2>8, JobsApart DEF Turns, Only, LinesShown
    <3>2. \A f \in Flows : (Active(f)' <=> Active(f)) /\ (Has(f)' <=> Has(f))
      BY <3>1 DEF Active, Has
    <3>3. \A f \in Flows : Has(f) => job[f].batch \in DOMAIN batches
      BY <3>1 DEF Named
    <3>4. \A f \in Flows : job[f].do = "execute" /\ job[f].at = "answered" => Has(f)
      BY DEF Has, Active
    <3>5. \A f \in Flows : Active(f) => Follows(f)'
      BY <2>4, <3>1, <3>2, <3>3, <3>4 DEF Steady, Follows, Grows, Keeps
    <3>6. form'.done => /\ form'.purse.known /\ form'.last \in DOMAIN batches' /\ batches'[form'.last].launches > 0
                        /\ ~form'.edited => batches'[form'.last].lines = LinesShown'
      BY <2>4, <3>1 DEF Steady, Grows, Keeps, Launched
    <3> QED BY <3>2, <3>5, <3>6 DEF Steady, Launched
  <2> QED BY <2>7, <2>8
<1>4. ASSUME NEW b \in DOMAIN batches, Ends(b) PROVE Steady'
  <2>1. /\ form' = form /\ job' = job /\ LinesShown' = LinesShown /\ DOMAIN batches' = DOMAIN batches
        /\ \A c \in DOMAIN batches : Keeps(c) /\ (Launched(c)' <=> Launched(c))
    BY <1>4 DEF Ends, LinesShown, Keeps, Launched
  <2>2. \A f : (Active(f)' <=> Active(f)) /\ (Has(f)' <=> Has(f))
    BY <2>1 DEF Active, Has
  <2>3. \A f \in Flows : Has(f) => job[f].batch \in DOMAIN batches
    BY JobsApart DEF Named
  <2>4. \A f \in Flows : job[f].do = "execute" /\ job[f].at = "answered" => Has(f)
    BY DEF Has, Active
  <2>5. \A f \in Flows : Active(f) => Follows(f)'
    BY <2>1, <2>2, <2>3, <2>4 DEF Steady, Follows, Keeps
  <2> QED BY <2>1, <2>2, <2>5 DEF Steady, Keeps
<1>5. CASE UNCHANGED <<batches, form, job, view, unheard>>
  BY <1>5 DEF Steady, Active, Follows, Has, LinesShown, Launched
<1> QED BY <1>1, <1>2, <1>3, <1>4, <1>5, ComposeSteady, PressSteady, ContinueSteady, ConcludeSteady,
           GiveUpSteady, LookSteady DEF Shapes

\* The page's knowledge, for ever.
LEMMA AlwaysSteady == Spec => [](ConsoleTypeOK /\ Named /\ Steady)
<1>1. ConsoleTypeOK /\ Named /\ Steady /\ [Next]_vars => (ConsoleTypeOK /\ Named /\ Steady)'
  BY StepShapes, SteadyStep
<1> QED BY InitTypes, InitSteady, <1>1, PTL DEF Spec

\* What the page says was sent was sent: the batch it names was launched with the
\* lines it shows, unless these were edited meanwhile (new/page.tsx, execute).
THEOREM DoneHolds == Spec => []DoneIsTrue
<1>1. Steady => DoneIsTrue
  BY DEF Steady, DoneIsTrue, LinesShown
<1> QED BY <1>1, AlwaysSteady, PTL

\* Only a creation that is refused is.
LEMMA OnlyRefused ==
    ASSUME Shapes, NEW f \in Flows,
           job[f].at = "sent", job[f].do = "create", job'[f].at = "refused"
    PROVE  Refuses(f)
<1> USE JobsApart
<1>1. ASSUME NEW g \in Flows, Presses(g) \/ Continues(g) \/ Concludes(g) \/ GivesUp(g) PROVE FALSE
  <2>1. CASE g = f
    BY <1>1, <2>1 DEF Presses, Continues, Concludes, GivesUp, NoJob
  <2>2. CASE g # f
    BY <1>1, <2>2 DEF Presses, Continues, Concludes, GivesUp, Only
  <2> QED BY <2>1, <2>2
<1>2. ASSUME NEW v \in Views, Looks(v) PROVE FALSE
  BY <1>2 DEF Looks, Only
<1>3. ASSUME NEW j \in Jobs, Creates(j) \/ Reads(j) \/ Saves(j) PROVE FALSE
  <2>1. CASE j = f
    BY <1>3, <2>1 DEF Creates, Reads, Saves, Turns
  <2>2. CASE j # f
    BY <1>3, <2>2 DEF Creates, Reads, Saves, Turns, Only
  <2> QED BY <2>1, <2>2
<1>4. ASSUME NEW j \in Jobs, Refuses(j) PROVE Refuses(f)
  <2>1. CASE j # f
    BY <1>4, <2>1 DEF Refuses, Turns, Only
  <2> QED BY <1>4, <2>1
<1>5. ~(Composes \/ UNCHANGED <<batches, form, job, view, unheard>> \/ \E b \in DOMAIN batches : Ends(b))
  BY DEF Composes, Ends
<1> QED BY <1>1, <1>2, <1>3, <1>4, <1>5 DEF Shapes

\* The page's "Solde suffisant" holds unless the money went elsewhere, the tenant's
\* rate being its own (new/page.tsx, sufficient; batch.go, Create).
THEOREM SufficiencyHolds == Spec => SufficientUnlessSpent
<1>1. ASSUME ConsoleTypeOK, Named, Steady, [Next]_vars, NEW f \in Flows, Rate = PageRate,
             job[f].at = "sent", job[f].do = "create", job'[f].at = "refused",
             job[f].fit, job[f].lines > 0, Provision(Unit * job[f].lines, Rate) <= Limit
      PROVE  available < form.purse.amount
  <2> DEFINE p == Provision(Unit * job[f].lines, Rate)
  <2>1. Excessive(f)
    BY <1>1, StepShapes, OnlyRefused DEF Refuses
  <2>2. p <= form.purse.amount
    BY <1>1 DEF Steady, Active, Follows
  <2>3. available \in Nat /\ form.purse.amount \in Nat /\ job[f].lines \in Nat
    BY <1>1, JobsApart DEF ConsoleTypeOK, FormRow, JobRow
  <2>4. p \in Nat /\ Limit \in Nat
    <3>1. Unit * job[f].lines \in Nat /\ Rate \in Nat /\ Limit \in Nat
      BY <2>3, AmountsNatural
    <3> QED BY <3>1, ProvisionType
  <2> QED BY <1>1, <2>1, <2>2, <2>3, <2>4 DEF Excessive
<1>2. ConsoleTypeOK /\ Named /\ Steady /\ [Next]_vars =>
        [\A f \in Flows :
           /\ job[f].at = "sent" /\ job[f].do = "create" /\ job'[f].at = "refused"
           /\ job[f].fit /\ job[f].lines > 0 /\ Rate = PageRate
           /\ Provision(Unit * job[f].lines, Rate) <= Limit
           => available < form.purse.amount]_vars
  BY <1>1
<1> QED BY <1>2, AlwaysSteady, PTL DEF Spec, SufficientUnlessSpent

-----------------------------------------------------------------------------
(* A composition is paid once. *)

Ours(c) == {b \in Made(c) : Launched(b) /\ ~batches[b].viewed}

\* A launch of this composition was heard of, or its answer is on the way.
Heard(c) ==
    \/ c < form.comp
    \/ c = form.comp /\ (form.done \/ \E f \in Flows : job[f].at = "answered" /\ job[f].do = "execute")

PaidSoFar ==
    /\ \A b \in DOMAIN batches : batches[b].comp <= form.comp
    /\ \A c \in Compositions : Cardinality(Ours(c)) <= unheard[c] + IF Heard(c) THEN 1 ELSE 0

\* Initially no batch.
LEMMA InitPaid == Init => PaidSoFar
<1> SUFFICES ASSUME Init PROVE PaidSoFar
  OBVIOUS
<1>1. DOMAIN batches = {} /\ \A c \in Compositions : unheard[c] = 0
  BY DEF Init
<1>2. \A c \in Compositions : Ours(c) = {}
  BY <1>1 DEF Ours, Made
<1>3. \A c \in Compositions : Cardinality(Ours(c)) = 0
  BY <1>2, FS_EmptySet
<1>4. \A c \in Compositions : Cardinality(Ours(c)) <= unheard[c] + IF Heard(c) THEN 1 ELSE 0
  BY <1>1, <1>3
<1> QED BY <1>1, <1>4 DEF PaidSoFar

\* The batches are numbered, so there are finitely many.
LEMMA FewOurs ==
    ASSUME ConsoleTypeOK, NEW c PROVE IsFiniteSet(Ours(c)) /\ Cardinality(Ours(c)) \in Nat
<1>1. DOMAIN batches = 1..Len(batches) /\ Len(batches) \in Nat
  BY LenProperties DEF ConsoleTypeOK
<1>2. IsFiniteSet(DOMAIN batches)
  BY <1>1, FS_Interval
<1>3. Ours(c) \subseteq DOMAIN batches
  BY DEF Ours, Made
<1> QED BY <1>2, <1>3, FS_Subset, FS_CardinalityType

\* Nothing of a composition is launched, and what was heard of, or was to be, was.
LEMMA PaidKept ==
    ASSUME ConsoleTypeOK, ConsoleTypeOK', PaidSoFar,
           \A b \in DOMAIN batches' : batches'[b].comp <= form'.comp,
           \A c \in Compositions : Ours(c)' \subseteq Ours(c),
           \A c \in Compositions : /\ unheard'[c] >= unheard[c]
                                   /\ Heard(c) => Heard(c)' \/ unheard'[c] >= unheard[c] + 1
    PROVE  PaidSoFar'
<1> SUFFICES ASSUME NEW c \in Compositions
             PROVE  Cardinality(Ours(c)') <= unheard'[c] + IF Heard(c)' THEN 1 ELSE 0
  BY DEF PaidSoFar, Compositions
<1>1. IsFiniteSet(Ours(c)) /\ Cardinality(Ours(c)) \in Nat
  BY FewOurs
<1>2. Cardinality(Ours(c)') <= Cardinality(Ours(c)) /\ Cardinality(Ours(c)') \in Nat
  BY <1>1, FS_Subset, FS_CardinalityType
<1>3. unheard[c] \in Nat /\ unheard'[c] \in Nat
  BY DEF ConsoleTypeOK
<1>4. Cardinality(Ours(c)) <= unheard[c] + IF Heard(c) THEN 1 ELSE 0
  BY DEF PaidSoFar
<1> QED BY <1>1, <1>2, <1>3, <1>4

\* The page is edited, or begins another batch once it said done.
LEMMA ComposePaid ==
    ASSUME ConsoleTypeOK, ConsoleTypeOK', Steady, PaidSoFar, Composes PROVE PaidSoFar'
<1>1. batches' = batches /\ job' = job /\ unheard' = unheard
  BY DEF Composes
<1>2. form.comp \in Nat /\ form'.comp \in Nat /\ form'.comp \in {form.comp, form.comp + 1}
  BY DEF Composes, ConsoleTypeOK, FormRow, Compositions
<1>3. \A b \in DOMAIN batches : batches[b].comp \in Nat
  BY RowTypes DEF BatchRow, Compositions
<1>4. \A b \in DOMAIN batches' : batches'[b].comp <= form'.comp
  BY <1>1, <1>2, <1>3 DEF PaidSoFar
<1>5. \A c : Ours(c)' = Ours(c)
  BY <1>1 DEF Ours, Made, Launched
<1>6. \A c \in Compositions : Heard(c) => Heard(c)'
  <2>1. CASE form'.comp = form.comp /\ form'.done = form.done
    BY <1>1, <2>1 DEF Heard
  <2>2. CASE form'.comp = form.comp + 1
    BY <1>2, <2>2 DEF Heard, Compositions
  <2> QED BY <2>1, <2>2 DEF Composes
<1>7. \A c \in Compositions : unheard'[c] >= unheard[c]
  BY <1>1 DEF ConsoleTypeOK
<1> QED BY <1>4, <1>5, <1>6, <1>7, PaidKept

\* A launch goes on, ends, or is given up.
LEMMA FlowPaid ==
    ASSUME ConsoleTypeOK, ConsoleTypeOK', Steady, PaidSoFar, NEW f \in Flows,
           Presses(f) \/ Continues(f) \/ Concludes(f) \/ GivesUp(f)
    PROVE  PaidSoFar'
<1>1. batches' = batches /\ Only(f) /\ f \in Jobs
  BY JobsApart DEF Presses, Continues, Concludes, GivesUp
<1>2. form'.comp = form.comp /\ (form.done => form'.done)
  BY DEF Presses, Continues, Concludes, GivesUp, ConsoleTypeOK, FormRow
<1>3. \A b \in DOMAIN batches' : batches'[b].comp <= form'.comp
  BY <1>1, <1>2 DEF PaidSoFar
<1>4. \A c : Ours(c)' = Ours(c)
  BY <1>1 DEF Ours, Made, Launched
<1>5. CASE ~(GivesUp(f) /\ job[f].at = "answered" /\ job[f].do = "execute")
  <2>1. unheard' = unheard
    BY <1>5 DEF Presses, Continues, Concludes, GivesUp
  <2>2. job[f].at = "answered" /\ job[f].do = "execute" => form'.done
    BY <1>5 DEF Presses, Continues, Concludes, ConsoleTypeOK, FormRow
  <2>3. \A c : Heard(c) => Heard(c)'
    BY <1>1, <1>2, <2>2, JobsApart DEF Heard, Only
  <2>4. \A c \in Compositions : unheard'[c] >= unheard[c]
    BY <2>1 DEF ConsoleTypeOK
  <2> QED BY <1>3, <1>4, <2>3, <2>4, PaidKept
<1>6. CASE GivesUp(f) /\ job[f].at = "answered" /\ job[f].do = "execute"
  <2>1. unheard' = [unheard EXCEPT ![job[f].comp] = @ + 1]
    BY <1>6 DEF GivesUp
  <2>2. job[f].comp = form.comp /\ form.comp \in Compositions
    BY <1>6 DEF Steady, Active, Follows, ConsoleTypeOK, FormRow
  <2>3. \A c \in Compositions : unheard'[c] = IF c = form.comp THEN unheard[c] + 1 ELSE unheard[c]
    BY <2>1, <2>2 DEF ConsoleTypeOK
  <2>4. \A c \in Compositions : c # form.comp => (Heard(c) => Heard(c)')
    BY <1>2 DEF Heard
  <2>5. \A c \in Compositions : /\ unheard'[c] >= unheard[c]
                                /\ Heard(c) => Heard(c)' \/ unheard'[c] >= unheard[c] + 1
    <3> SUFFICES ASSUME NEW c \in Compositions
                 PROVE  /\ unheard'[c] >= unheard[c]
                        /\ Heard(c) => Heard(c)' \/ unheard'[c] >= unheard[c] + 1
      OBVIOUS
    <3>1. unheard[c] \in Nat
      BY DEF ConsoleTypeOK
    <3>2. CASE c = form.comp
      BY <2>3, <3>1, <3>2
    <3>3. CASE c # form.comp
      <4>1. unheard'[c] = unheard[c] /\ (Heard(c) => Heard(c)')
        BY <2>3, <2>4, <3>3
      <4> QED BY <3>1, <4>1
    <3> QED BY <3>2, <3>3
  <2> QED BY <1>3, <1>4, <2>5, PaidKept
<1> QED BY <1>5, <1>6

\* Who was heard of is not affected by a request that is not an execution of the page.
LEMMA StillHeard ==
    ASSUME NEW j \in Jobs, Only(j), form' = form,
           j \in Flows => job[j].at # "answered" \/ job[j].do # "execute"
    PROVE  \A c : Heard(c) => Heard(c)'
<1>1. \A f \in Flows : job[f].at = "answered" /\ job[f].do = "execute" => job'[f] = job[f]
  BY JobsApart DEF Only
<1> QED BY <1>1 DEF Heard

\* Nothing is launched: a request is created, refused, read or asked.
LEMMA ServedPaid ==
    ASSUME ConsoleTypeOK, ConsoleTypeOK', Named, Steady, PaidSoFar, NEW j \in Jobs,
           Creates(j) \/ Refuses(j) \/ Reads(j) \/ (j \in Views /\ Looks(j))
    PROVE  PaidSoFar'
<1>1. Only(j) /\ form' = form /\ unheard' = unheard
  BY DEF Creates, Refuses, Reads, Looks, Turns
<1>2. j \in Flows => job[j].at # "answered" \/ job[j].do # "execute"
  BY JobsApart DEF Creates, Refuses, Reads
<1>3. \A c : Heard(c) => Heard(c)'
  BY <1>1, <1>2, StillHeard
<1>4. \A c \in Compositions : unheard'[c] >= unheard[c]
  BY <1>1 DEF ConsoleTypeOK
<1>5. (\A b \in DOMAIN batches' : batches'[b].comp <= form'.comp) /\ \A c : Ours(c)' \subseteq Ours(c)
  <2>1. CASE Creates(j)
    <3> DEFINE n == Len(batches) + 1
    <3>1. j \in Flows /\ Active(j)
      BY <2>1 DEF Creates, Named, Active
    <3>2. job[j].comp = form.comp /\ form.comp \in Nat
      BY <3>1 DEF Steady, Follows, ConsoleTypeOK, FormRow, Compositions
    <3>3. /\ DOMAIN batches' = DOMAIN batches \cup {n} /\ \A b \in DOMAIN batches : batches'[b] = batches[b]
          /\ batches'[n].launches = 0 /\ batches'[n].comp = form.comp
      BY <2>1, <3>2 DEF Creates
    <3> HIDE DEF n
    <3>4. \A b \in DOMAIN batches' : batches'[b].comp <= form'.comp
      BY <1>1, <3>2, <3>3 DEF PaidSoFar
    <3>5. \A c : Ours(c)' \subseteq Ours(c)
      BY <3>3 DEF Ours, Made, Launched
    <3> QED BY <3>4, <3>5
  <2>2. CASE Refuses(j) \/ (j \in Views /\ Looks(j))
    <3>1. batches' = batches
      BY <2>2 DEF Refuses, Looks
    <3> QED BY <1>1, <3>1 DEF PaidSoFar, Ours, Made, Launched
  <2>3. CASE Reads(j)
    <3>1. /\ DOMAIN batches' = DOMAIN batches
          /\ \A c \in DOMAIN batches : /\ batches'[c].comp = batches[c].comp
                                       /\ batches'[c].launches = batches[c].launches
                                       /\ batches'[c].viewed = batches[c].viewed
      BY <2>3 DEF Reads, Keeps
    <3> QED BY <1>1, <3>1 DEF PaidSoFar, Ours, Made, Launched
  <2> QED BY <2>1, <2>2, <2>3
<1> QED BY <1>3, <1>4, <1>5, PaidKept

\* A save launches one batch at most, of the page's own composition if the page did it.
LEMMA SavePaid ==
    ASSUME ConsoleTypeOK, ConsoleTypeOK', Named, Steady, PaidSoFar, NEW j \in Jobs, Saves(j)
    PROVE  PaidSoFar'
<1> DEFINE b == job[j].batch
           executes == job[j].do # "validate"
<1>1. /\ Only(j) /\ form' = form /\ Active(j) /\ Has(j) /\ b \in DOMAIN batches /\ b \in Nat
      /\ batches[b] \in BatchRow /\ job[j].at = "read"
  BY RowTypes DEF Saves, Turns, Active, Has, Named, Expected
<1>2. \A c : Heard(c) => Heard(c)'
  BY <1>1, StillHeard
<1>3. /\ DOMAIN batches' = DOMAIN batches /\ \A c \in DOMAIN batches \ {b} : batches'[c] = batches[c]
      /\ batches'[b].comp = batches[b].comp
      /\ batches'[b].launches = batches[b].launches + IF executes THEN 1 ELSE 0
      /\ batches'[b].viewed = (batches[b].viewed \/ (executes /\ j \in Views))
  BY DEF Saves, Keeps
<1>4. \A d \in DOMAIN batches' : batches'[d].comp <= form'.comp
  BY <1>1, <1>3 DEF PaidSoFar
<1>5. batches[b].comp \in Compositions /\ batches[b].launches \in Nat
  BY <1>1 DEF BatchRow
<1>6. \A c \in Compositions : unheard'[c] >= unheard[c]
  <2>1. unheard' = unheard \/ unheard' = [unheard EXCEPT ![batches[b].comp] = @ + 1]
    BY DEF Saves
  <2>2. unheard \in [Compositions -> Nat]
    BY DEF ConsoleTypeOK
  <2> HIDE DEF b
  <2>3. CASE unheard' = unheard
    BY <2>2, <2>3
  <2>4. CASE unheard' = [unheard EXCEPT ![batches[b].comp] = @ + 1]
    <3> SUFFICES ASSUME NEW c \in Compositions PROVE unheard'[c] >= unheard[c]
      OBVIOUS
    <3>1. unheard[c] \in Nat /\ unheard'[c] \in {unheard[c], unheard[c] + 1}
      BY <2>2, <2>4
    <3> QED BY <3>1
  <2> QED BY <2>1, <2>3, <2>4 DEF b
<1>7. CASE ~executes \/ j \in Views
  <2>1. \A c : Ours(c)' \subseteq Ours(c)
    <3> HIDE DEF b, executes
    <3> SUFFICES ASSUME NEW c, NEW d \in Ours(c)' PROVE d \in Ours(c)
      OBVIOUS
    <3>1. d \in DOMAIN batches /\ batches'[d].comp = c /\ batches'[d].launches > 0 /\ ~batches'[d].viewed
      BY <1>3 DEF Ours, Made, Launched
    <3>2. CASE d # b
      BY <1>3, <3>1, <3>2 DEF Ours, Made, Launched
    <3>3. CASE d = b
      <4>1. batches[d].comp = c /\ ~batches[d].viewed
        BY <1>3, <3>1, <3>3
      <4>2. ~executes
        BY <1>3, <1>7, <3>1, <3>3
      <4>3. batches[d].launches > 0
        BY <1>3, <1>5, <3>1, <3>3, <4>2
      <4> QED BY <3>1, <4>1, <4>3 DEF Ours, Made, Launched
    <3> QED BY <3>2, <3>3
  <2> QED BY <1>2, <1>4, <1>6, <2>1, PaidKept
<1>8. CASE executes /\ j \in Flows
  <2> DEFINE c0 == batches[b].comp
  <2>1. /\ ~form.done /\ form.comp = c0 /\ job[j].do = "execute"
        /\ \A f \in Flows : Active(f) => f = j
    <3>1. Follows(j) /\ \A f \in Flows : Active(f) => f = j
      BY <1>1, <1>8 DEF Steady
    <3>2. ~form.done /\ form.comp = c0
      BY <1>1, <3>1 DEF Follows
    <3>3. job[j].do \in {"create", "validate", "execute"} /\ job[j].do \in {"validate", "execute", "retry"}
      BY <1>1, <1>8, ExpectedStages DEF Named
    <3> QED BY <1>8, <3>1, <3>2, <3>3
  <2>2. ~Heard(c0)
    <3>1. \A f \in Flows : ~(job[f].at = "answered" /\ job[f].do = "execute")
      BY <1>1, <2>1 DEF Active
    <3>2. form.comp \in Nat
      BY DEF ConsoleTypeOK, FormRow, Compositions
    <3> QED BY <2>1, <3>1, <3>2 DEF Heard
  <2> HIDE DEF b
  <2>3. \A c : Ours(c)' \subseteq Ours(c) \cup {b} /\ (c # c0 => Ours(c)' \subseteq Ours(c))
    BY <1>3 DEF Ours, Made, Launched
  <2> HIDE DEF c0
  <2>4. \/ /\ unheard' = unheard
           /\ \A c : c = c0 => Heard(c)'
        \/ unheard' = [unheard EXCEPT ![c0] = @ + 1]
    <3>1. CASE job'[j].at = "answered" /\ unheard' = unheard
      <4>1. job'[j].do = "execute" /\ form'.comp = c0
        BY <1>1, <2>1 DEF Saves, Turns, c0
      <4>2. \A c : c = c0 => Heard(c)'
        BY <1>8, <3>1, <4>1 DEF Heard
      <4> QED BY <3>1, <4>2
    <3>2. CASE unheard' = [unheard EXCEPT ![c0] = @ + 1]
      BY <3>2
    <3> QED BY <3>1, <3>2 DEF Saves, b, c0
  <2>5. ASSUME NEW c \in Compositions
        PROVE  Cardinality(Ours(c)') <= unheard'[c] + IF Heard(c)' THEN 1 ELSE 0
    <3>1. IsFiniteSet(Ours(c)) /\ Cardinality(Ours(c)) \in Nat
      BY FewOurs
    <3>2. unheard[c] \in Nat /\ unheard'[c] \in Nat /\ unheard'[c] >= unheard[c]
      BY <1>6 DEF ConsoleTypeOK
    <3>3. Cardinality(Ours(c)) <= unheard[c] + IF Heard(c) THEN 1 ELSE 0
      BY DEF PaidSoFar
    <3>4. CASE c = c0
      <4>1. Cardinality(Ours(c)) <= unheard[c]
        BY <2>2, <3>1, <3>2, <3>3, <3>4
      <4>2. IsFiniteSet(Ours(c) \cup {b}) /\ Cardinality(Ours(c) \cup {b}) <= Cardinality(Ours(c)) + 1
        <5>1. /\ IsFiniteSet(Ours(c) \cup {b})
              /\ Cardinality(Ours(c) \cup {b}) = IF b \in Ours(c) THEN Cardinality(Ours(c))
                                                 ELSE Cardinality(Ours(c)) + 1
          BY <3>1, FS_AddElement, Zenon
        <5> QED BY <3>1, <5>1
      <4>3. Cardinality(Ours(c)') <= Cardinality(Ours(c) \cup {b})
            /\ Cardinality(Ours(c)') \in Nat /\ Cardinality(Ours(c) \cup {b}) \in Nat
        BY <2>3, <4>2, FS_Subset, FS_CardinalityType
      <4>4. CASE unheard' = unheard /\ Heard(c)'
        BY <3>1, <3>2, <4>1, <4>2, <4>3, <4>4
      <4>5. CASE unheard' = [unheard EXCEPT ![c0] = @ + 1]
        <5>1. unheard'[c] = unheard[c] + 1
          BY <3>4, <4>5 DEF ConsoleTypeOK
        <5> QED BY <3>1, <3>2, <4>1, <4>2, <4>3, <5>1
      <4> QED BY <2>4, <3>4, <4>4, <4>5
    <3>5. CASE c # c0
      <4>1. Cardinality(Ours(c)') <= Cardinality(Ours(c)) /\ Cardinality(Ours(c)') \in Nat
        BY <2>3, <3>1, <3>5, FS_Subset, FS_CardinalityType
      <4> QED BY <1>2, <3>1, <3>2, <3>3, <4>1
    <3> QED BY <3>4, <3>5
  <2> QED BY <1>4, <2>5 DEF PaidSoFar, Compositions
<1> QED BY <1>7, <1>8 DEF Jobs

\* Every step keeps it.
LEMMA PaidStep ==
    ASSUME ConsoleTypeOK, ConsoleTypeOK', Named, Steady, PaidSoFar, Shapes PROVE PaidSoFar'
<1>1. CASE \E b \in DOMAIN batches : Ends(b)
  <2>1. /\ UNCHANGED <<form, job, unheard>> /\ DOMAIN batches' = DOMAIN batches
        /\ \A c \in DOMAIN batches : /\ batches'[c].comp = batches[c].comp
                                     /\ batches'[c].launches = batches[c].launches
                                     /\ batches'[c].viewed = batches[c].viewed
    BY <1>1 DEF Ends, Keeps
  <2>2. \A c : Ours(c)' = Ours(c) /\ (Heard(c)' <=> Heard(c))
    BY <2>1 DEF Ours, Made, Launched, Heard
  <2> QED BY <2>1, <2>2 DEF PaidSoFar
<1>2. CASE UNCHANGED <<batches, form, job, view, unheard>>
  BY <1>2 DEF PaidSoFar, Ours, Made, Launched, Heard
<1>3. \A v \in Views : v \in Jobs
  BY JobsApart
<1> QED BY <1>1, <1>2, <1>3, ComposePaid, FlowPaid, ServedPaid, SavePaid DEF Shapes

\* Whatever is pressed again after a message, a composition is launched by its page
\* once, and once more only for each launch whose answer was lost or was an error
\* (new/page.tsx, execute).
THEOREM OnePayment == Spec => []PaidOncePerPress
<1> DEFINE Inv == ConsoleTypeOK /\ Named /\ Steady /\ PaidSoFar
<1>1. Init => Inv
  BY InitTypes, InitSteady, InitPaid
<1>2. Inv /\ [Next]_vars => Inv'
  BY StepShapes, SteadyStep, PaidStep
<1>3. Inv => PaidOncePerPress
  <2> SUFFICES ASSUME Inv, NEW c \in Compositions PROVE Cardinality(Ours(c)) <= 1 + unheard[c]
    BY DEF PaidOncePerPress, Ours
  <2>1. Cardinality(Ours(c)) \in Nat /\ unheard[c] \in Nat
    BY FewOurs DEF ConsoleTypeOK
  <2> QED BY <2>1 DEF PaidSoFar
<1> QED BY <1>1, <1>2, <1>3, PTL DEF Spec
=============================================================================
