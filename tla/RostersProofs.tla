----------------------------- MODULE RostersProofs -----------------------------
(***************************************************************************)
(* Proofs about Rosters, for any pages, rows and requests: every variable  *)
(* keeps its type, the platform keeps an active super administrator unless *)
(* two removals raced, a page at rest shows its table, and an edit leaves  *)
(* the activation of a row alone.  Every step is first put in one of a few *)
(* shapes (Shapes); the invariants about the pages are kept shape by shape. *)
(***************************************************************************)
EXTENDS Rosters, TLAPS

Copy == There \cup {"none"}

\* What a request may write: a row that was there stays there unless deleted.
Goal(fl) ==
    /\ fl.do \in {"toggle", "add", "import"} => fl.to \in There
    /\ fl.do = "edit" => fl.to \in Copy
    /\ fl.do = "edit" /\ fl.at = "answered" => fl.to \in There

FlightRow ==
    [at : {"idle", "sent", "counted", "answered", "refused"},
     do : {"load", "toggle", "delete", "add", "import", "edit"}, page : Pages, row : Rows,
     to : There \cup {"none", "gone"}, old : BOOLEAN, search : BOOLEAN,
     got : [Rows -> Copy], blur : SUBSET Rows]

FormRow == [open : BOOLEAN, row : Rows, copy : Copy, old : BOOLEAN]
ImportRecord == [open : BOOLEAN, left : SUBSET Rows, made : SUBSET Rows, late : SUBSET Rows]
PageRow == [list : [Rows -> Copy], search : BOOLEAN, loading : BOOLEAN, deleting : SUBSET Rows,
            form : FormRow, import : ImportRecord]

\* Type correctness.
RostersTypeOK ==
    /\ row \in [Rows -> There \cup {"unborn", "gone"}]
    /\ page \in [Pages -> PageRow]
    /\ flight \in [Flights -> FlightRow] /\ \A f \in Flights : Goal(flight[f])
    /\ raced \in BOOLEAN /\ blurred \in [Pages -> SUBSET Rows]

-----------------------------------------------------------------------------
(* The values the actions are built from.                                  *)

USE RowsOfPeople, PagesOfPeople

\* The default row and page of an idle request are a row and a page.
LEMMA Defaults == AnyRow \in Rows /\ AnyPage \in Pages
BY DEF AnyRow, AnyPage

\* A table read is a list of copies.
LEMMA TableType == ASSUME NEW p, NEW search PROVE Table(p, search) \in [Rows -> Copy]
BY DEF Table, Copy, There

\* An idle request and an empty page are well typed.
LEMMA IdleType == NoFlight \in FlightRow /\ NoForm \in FormRow /\ NoImport \in ImportRecord /\ Goal(NoFlight)
BY Defaults DEF NoFlight, NoForm, NoImport, FlightRow, FormRow, ImportRecord, Empty, Copy, There, Goal

\* So is a load that is sent.
LEMMA LoadRequestType ==
    ASSUME NEW p \in Pages, NEW search \in BOOLEAN, NEW others \in SUBSET Rows
    PROVE  LoadRequest(p, search, others) \in FlightRow /\ Goal(LoadRequest(p, search, others))
BY IdleType DEF LoadRequest, FlightRow, Goal, NoFlight

\* What a page touches is rows.
LEMMA TouchedType == ASSUME RostersTypeOK, NEW p \in Pages PROVE Touched(p) \in SUBSET Rows
BY DEF Touched, Of, RostersTypeOK, FlightRow

\* Initially every variable has its type.
LEMMA InitType == Init => RostersTypeOK
<1> SUFFICES ASSUME Init PROVE RostersTypeOK
  OBVIOUS
<1>1. row \in [Rows -> There \cup {"unborn", "gone"}]
  BY DEF Init, There
<1>2. page \in [Pages -> PageRow]
  <2> SUFFICES ASSUME NEW p \in Pages PROVE page[p] \in PageRow
    BY DEF Init
  <2> DEFINE l == [r \in Rows |-> IF r \in Listed(p) \cap Present0 THEN "active" ELSE "none"]
  <2>1. l \in [Rows -> Copy]
    BY DEF Copy, There
  <2>2. page[p] = [list |-> l, search |-> FALSE, loading |-> FALSE, deleting |-> {},
                   form |-> NoForm, import |-> NoImport]
    BY DEF Init
  <2> HIDE DEF l
  <2> QED BY <2>1, <2>2, IdleType DEF PageRow
<1> QED BY <1>1, <1>2, IdleType DEF Init, RostersTypeOK

\* A request about a row, with a goal it may have.
LEMMA AskKeepsType ==
    ASSUME RostersTypeOK, NEW f \in Flights, NEW p \in Pages, NEW r \in Rows,
           NEW do \in {"toggle", "delete", "add", "import", "edit"}, NEW to \in There \cup {"none", "gone"},
           NEW old \in BOOLEAN, Ask(f, p, do, r, to, old),
           do \in {"toggle", "add", "import"} => to \in There, do = "edit" => to \in Copy,
           page' \in [Pages -> PageRow]
    PROVE  RostersTypeOK'
<1> DEFINE sent == [NoFlight EXCEPT !.at = "sent", !.do = do, !.page = p, !.row = r,
                                    !.to = to, !.old = old, !.blur = {}]
<1>1. sent \in FlightRow /\ Goal(sent)
  BY IdleType DEF NoFlight, FlightRow, Goal
<1>2. \A g \in Flights : flight'[g] \in FlightRow /\ Goal(flight'[g])
  <2> TAKE g \in Flights
  <2>1. CASE g = f
    BY <2>1, <1>1 DEF Ask
  <2>2. CASE g # f /\ g \in Loading(p)
    <3>1. flight'[g] = [flight[g] EXCEPT !.blur = @ \cup {r}]
      BY <2>2 DEF Ask
    <3> QED BY <3>1 DEF RostersTypeOK, FlightRow, Goal
  <2>3. CASE g # f /\ g \notin Loading(p)
    BY <2>3 DEF Ask, RostersTypeOK
  <2> QED BY <2>1, <2>2, <2>3
<1>3. flight' \in [Flights -> FlightRow]
  BY <1>2 DEF Ask
<1>4. blurred' \in [Pages -> SUBSET Rows]
  BY DEF Ask, RostersTypeOK
<1> QED BY <1>2, <1>3, <1>4 DEF Ask, RostersTypeOK

-----------------------------------------------------------------------------
(* Types are kept by what the people do.                                   *)

\* A page keeps its type when one of its fields does.
LEMMA FormField ==
    ASSUME NEW pg \in [Pages -> PageRow], NEW p \in Pages, NEW x \in FormRow
    PROVE  [pg EXCEPT ![p].form = x] \in [Pages -> PageRow]
BY DEF PageRow

\* The same of the import.
LEMMA ImportField ==
    ASSUME NEW pg \in [Pages -> PageRow], NEW p \in Pages, NEW x \in ImportRecord
    PROVE  [pg EXCEPT ![p].import = x] \in [Pages -> PageRow]
BY DEF PageRow

\* Of the marks of deletion.
LEMMA DeletingField ==
    ASSUME NEW pg \in [Pages -> PageRow], NEW p \in Pages, NEW x \in SUBSET Rows
    PROVE  [pg EXCEPT ![p].deleting = x] \in [Pages -> PageRow]
BY DEF PageRow

\* Of the mark of a load.
LEMMA LoadingField ==
    ASSUME NEW pg \in [Pages -> PageRow], NEW p \in Pages, NEW x \in BOOLEAN
    PROVE  [pg EXCEPT ![p].loading = x] \in [Pages -> PageRow]
BY DEF PageRow

\* Of the list.
LEMMA ListField ==
    ASSUME NEW pg \in [Pages -> PageRow], NEW p \in Pages, NEW x \in [Rows -> Copy]
    PROVE  [pg EXCEPT ![p].list = x] \in [Pages -> PageRow]
BY DEF PageRow

\* Opening a page or searching it.
LEMMA LoadKeepsType ==
    ASSUME RostersTypeOK, NEW f \in Flights, NEW p \in Pages, NEW search \in BOOLEAN, Load(f, p, search)
    PROVE  RostersTypeOK'
<1>1. LoadRequest(p, search, Touched(p)) \in FlightRow /\ Goal(LoadRequest(p, search, Touched(p)))
  BY LoadRequestType, TouchedType
<1>2. \A g \in Flights : flight'[g] \in FlightRow /\ Goal(flight'[g])
  <2> TAKE g \in Flights
  <2>1. CASE g = f
    BY <2>1, <1>1 DEF Load
  <2>2. CASE g # f /\ g \in Loading(p)
    <3>1. flight'[g] = [flight[g] EXCEPT !.blur = Rows]
      BY <2>2 DEF Load
    <3> QED BY <3>1 DEF RostersTypeOK, FlightRow, Goal
  <2>3. CASE g # f /\ g \notin Loading(p)
    BY <2>3 DEF Load, RostersTypeOK
  <2> QED BY <2>1, <2>2, <2>3
<1>3. page' \in [Pages -> PageRow]
  <2>1. page \in [Pages -> PageRow]
    BY DEF RostersTypeOK
  <2>2. [page EXCEPT ![p].loading = TRUE, ![p].search = search] \in [Pages -> PageRow]
    BY <2>1 DEF PageRow
  <2> QED BY <2>2 DEF Load
<1>4. flight' \in [Flights -> FlightRow]
  BY <1>2 DEF Load
<1> QED BY <1>2, <1>3, <1>4 DEF Load, RostersTypeOK

\* The opposite of what a row shows is a goal a toggle may have.
LEMMA ToggleKeepsType ==
    ASSUME RostersTypeOK, NEW f \in Flights, NEW p \in Pages, NEW r \in Rows, Toggle(f, p, r)
    PROVE  RostersTypeOK'
<1>1. Flip(page[p].list[r]) \in There
  BY DEF Flip, There
<1> QED BY <1>1, AskKeepsType DEF Toggle, RostersTypeOK

\* A row being deleted is marked at the tenant's pages.
LEMMA DeleteKeepsType ==
    ASSUME RostersTypeOK, NEW f \in Flights, NEW p \in Pages, NEW r \in Rows, Delete(f, p, r)
    PROVE  RostersTypeOK'
<1> DEFINE d == IF Style[p] = "answer" THEN page[p].deleting \cup {r} ELSE page[p].deleting
<1>1. page \in [Pages -> PageRow] /\ d \in SUBSET Rows
  BY DEF RostersTypeOK, PageRow
<1>2. page' = [page EXCEPT ![p].deleting = d]
  BY DEF Delete
<1>3. page' \in [Pages -> PageRow]
  <2> HIDE DEF d
  <2> QED BY <1>1, <1>2, DeletingField
<1> QED BY <1>3, AskKeepsType DEF Delete

\* A new row is active.
LEMMA AddKeepsType ==
    ASSUME RostersTypeOK, NEW f \in Flights, NEW p \in Pages, NEW r \in Rows, Add(f, p, r)
    PROVE  RostersTypeOK'
<1>1. "active" \in There
  BY DEF There
<1> QED BY <1>1, AskKeepsType DEF Add, RostersTypeOK

\* A file's rows are rows.
LEMMA ImportKeepsType ==
    ASSUME RostersTypeOK, NEW p \in Pages, NEW rs \in SUBSET Rows, Import(p, rs)
    PROVE  RostersTypeOK'
<1>1. page \in [Pages -> PageRow]
  BY DEF RostersTypeOK
<1> DEFINE i == [NoImport EXCEPT !.open = TRUE, !.left = rs]
<1>2. i \in ImportRecord
  BY DEF ImportRecord, NoImport
<1>3. page' = [page EXCEPT ![p].import = i]
  BY DEF Import
<1>4. page' \in [Pages -> PageRow]
  <2> HIDE DEF i
  <2> QED BY <1>1, <1>2, <1>3, ImportField
<1> QED BY <1>4 DEF Import, RostersTypeOK, Goal

\* A row sent leaves the file.
LEMMA ImportRowKeepsType ==
    ASSUME RostersTypeOK, NEW f \in Flights, NEW p \in Pages, NEW r \in Rows, ImportRow(f, p, r)
    PROVE  RostersTypeOK'
<1> DEFINE i == [page[p].import EXCEPT !.left = @ \ {r}]
<1>1. "active" \in There
  BY DEF There
<1>2. page \in [Pages -> PageRow] /\ page[p] \in PageRow
  BY DEF RostersTypeOK
<1>3. page[p].import \in ImportRecord
  BY <1>2 DEF PageRow
<1>4. i \in ImportRecord
  BY <1>3 DEF ImportRecord
<1>5. page' = [page EXCEPT ![p].import = i]
  BY DEF ImportRow
<1>6. page' \in [Pages -> PageRow]
  <2> HIDE DEF i
  <2> QED BY <1>2, <1>4, <1>5, ImportField
<1> QED BY <1>1, <1>6, AskKeepsType DEF ImportRow

\* The rows created are listed as active.
LEMMA CloseImportKeepsType ==
    ASSUME RostersTypeOK, NEW p \in Pages, NEW told \in BOOLEAN, CloseImport(p, told)
    PROVE  RostersTypeOK'
<1> DEFINE l == [r \in Rows |-> IF told /\ r \in page[p].import.made THEN "active" ELSE page[p].list[r]]
<1>1. page \in [Pages -> PageRow] /\ l \in [Rows -> Copy]
  BY DEF RostersTypeOK, PageRow, Copy, There
<1>2. page' = [page EXCEPT ![p].import = NoImport, ![p].list = l]
  BY DEF CloseImport
<1>3. page' \in [Pages -> PageRow]
  <2> HIDE DEF l
  <2>1. [page EXCEPT ![p].import = NoImport, ![p].list = l] \in [Pages -> PageRow]
    <3>1. [page EXCEPT ![p].import = NoImport] \in [Pages -> PageRow]
      BY <1>1, IdleType, ImportField
    <3>2. [[page EXCEPT ![p].import = NoImport] EXCEPT ![p].list = l] \in [Pages -> PageRow]
      BY <3>1, <1>1, ListField
    <3> QED BY <3>2
  <2> QED BY <2>1, <1>2
<1>4. page[p].import.made \in SUBSET Rows
  BY <1>1 DEF PageRow, ImportRecord
<1>5. blurred' \in [Pages -> SUBSET Rows]
  BY <1>4 DEF CloseImport, RostersTypeOK
<1> QED BY <1>3, <1>5 DEF CloseImport, RostersTypeOK, Goal

\* The form starts from a copy of the row.
LEMMA OpenFormKeepsType ==
    ASSUME RostersTypeOK, NEW p \in Pages, NEW r \in Rows, OpenForm(p, r)
    PROVE  RostersTypeOK'
<1> DEFINE fm == [open |-> TRUE, row |-> r, copy |-> page[p].list[r], old |-> r \in blurred[p] \/ Of(p) # {}]
<1>1. page \in [Pages -> PageRow] /\ fm \in FormRow
  BY DEF RostersTypeOK, PageRow, FormRow
<1>2. page' = [page EXCEPT ![p].form = fm]
  BY DEF OpenForm
<1>3. page' \in [Pages -> PageRow]
  <2> HIDE DEF fm
  <2> QED BY <1>1, <1>2, FormField
<1> QED BY <1>3 DEF OpenForm, RostersTypeOK, Goal

\* An edit may carry an activation or none.
LEMMA SubmitKeepsType ==
    ASSUME RostersTypeOK, NEW f \in Flights, NEW p \in Pages, NEW ticked \in There, Submit(f, p, ticked)
    PROVE  RostersTypeOK'
<1> DEFINE to == IF Style[p] = "reload" THEN ticked ELSE "none"
<1>1. to \in Copy
  BY DEF Copy
<1>2. page \in [Pages -> PageRow]
  BY DEF RostersTypeOK
<1>3. page[p].form.row \in Rows /\ (page[p].form.old \/ ticked # page[p].form.copy) \in BOOLEAN
  BY <1>2 DEF PageRow, FormRow
<1>4. page' \in [Pages -> PageRow]
  <2>1. [page EXCEPT ![p].form = NoForm] \in [Pages -> PageRow]
    BY <1>2, IdleType, FormField
  <2> QED BY <2>1 DEF Submit
<1>5. Ask(f, p, "edit", page[p].form.row, to, page[p].form.old \/ ticked # page[p].form.copy)
  BY DEF Submit
<1> HIDE DEF to
<1> QED BY <1>1, <1>3, <1>4, <1>5, AskKeepsType DEF Copy

-----------------------------------------------------------------------------
(* Types are kept by the server and by the answers.                        *)

\* A request that only moves on keeps its type.
LEMMA MovedType ==
    ASSUME NEW fl \in FlightRow, Goal(fl), NEW at \in {"counted", "refused"}
    PROVE  [fl EXCEPT !.at = at] \in FlightRow /\ Goal([fl EXCEPT !.at = at])
BY DEF FlightRow, Goal

\* A refusal.
LEMMA RefuseKeepsType ==
    ASSUME RostersTypeOK, NEW f \in Flights, Refuse(f)
    PROVE  RostersTypeOK'
<1>1. \A g \in Flights : flight'[g] \in FlightRow /\ Goal(flight'[g])
  BY MovedType DEF Refuse, RostersTypeOK
<1>2. flight' \in [Flights -> FlightRow]
  BY <1>1 DEF Refuse, RostersTypeOK
<1> QED BY <1>1, <1>2 DEF Refuse, RostersTypeOK

\* The count, and its refusal.
LEMMA CountKeepsType ==
    ASSUME RostersTypeOK, NEW f \in Flights, Count(f)
    PROVE  RostersTypeOK'
<1>1. CASE Refuse(f)
  BY <1>1, RefuseKeepsType
<1>2. CASE /\ flight' = [flight EXCEPT ![f].at = "counted"]
           /\ raced' = (raced \/ Counted # {})
           /\ UNCHANGED <<row, page, blurred>>
  <2>1. \A g \in Flights : flight'[g] \in FlightRow /\ Goal(flight'[g])
    BY <1>2, MovedType DEF RostersTypeOK
  <2>2. flight' \in [Flights -> FlightRow]
    BY <1>2, <2>1 DEF RostersTypeOK
  <2> QED BY <1>2, <2>1, <2>2 DEF RostersTypeOK
<1> QED BY <1>1, <1>2 DEF Count

\* A write leaves a row there, or gone.
LEMMA WriteKeepsType ==
    ASSUME RostersTypeOK, NEW f \in Flights, Write(f), UNCHANGED raced, flight[f].do # "load",
           row[flight[f].row] \in There \/ flight[f].do \in {"add", "import"}
    PROVE  RostersTypeOK'
<1> DEFINE r == flight[f].row
           p == flight[f].page
           now == IF flight[f].to = "none" THEN row[r] ELSE flight[f].to
<1>1. flight[f] \in FlightRow /\ Goal(flight[f]) /\ r \in Rows /\ p \in Pages
  BY DEF RostersTypeOK, FlightRow
<1>2. /\ now \in There \cup {"gone"}
      /\ flight[f].do \in {"toggle", "add", "import", "edit"} => now \in There
  BY <1>1 DEF FlightRow, Goal, Copy, There
<1>3. row' \in [Rows -> There \cup {"unborn", "gone"}]
  <2>1. row' = [row EXCEPT ![r] = now]
    BY DEF Write
  <2> HIDE DEF now, r
  <2> QED BY <2>1, <1>2 DEF RostersTypeOK
<1>4. \A g \in Flights : flight'[g] \in FlightRow /\ Goal(flight'[g])
  <2> TAKE g \in Flights
  <2>1. flight[g] \in FlightRow /\ Goal(flight[g])
    BY DEF RostersTypeOK
  <2>2. CASE g = f
    <3>1. flight'[g] = [flight[f] EXCEPT !.at = "answered", !.to = now]
      BY <2>2 DEF Write
    <3> HIDE DEF now
    <3> QED BY <3>1, <1>1, <1>2 DEF FlightRow, Goal, Copy
  <2>3. CASE /\ flight'[g] = [flight[g] EXCEPT !.blur = @ \cup {r}]
    BY <2>1, <2>3, <1>1 DEF FlightRow, Goal
  <2>4. CASE flight'[g] = [flight[g] EXCEPT !.old = TRUE]
    BY <2>1, <2>4 DEF FlightRow, Goal
  <2>5. CASE flight'[g] = flight[g]
    BY <2>1, <2>5
  <2> QED BY <2>2, <2>3, <2>4, <2>5 DEF Write
<1>5. flight' \in [Flights -> FlightRow]
  BY <1>4 DEF Write
<1>6. page' \in [Pages -> PageRow]
  <2> SUFFICES ASSUME NEW q \in Pages PROVE page'[q] \in PageRow
    BY DEF Write
  <2> DEFINE b == page[q].form.old \/ (page[q].form.open /\ page[q].form.row = r)
  <2> DEFINE l == IF q # p /\ page[q].import.open THEN page[q].import.late \cup {r}
                                                   ELSE page[q].import.late
  <2>1. page[q] \in PageRow
    BY DEF RostersTypeOK
  <2>2. page[q].form \in FormRow /\ page[q].import \in ImportRecord
    BY <2>1 DEF PageRow
  <2>3. [page[q].form EXCEPT !.old = b] \in FormRow
    BY <2>2 DEF FormRow
  <2>4. [page[q].import EXCEPT !.late = l] \in ImportRecord
    <3>1. l \in SUBSET Rows
      BY <1>1, <2>2 DEF ImportRecord
    <3> HIDE DEF l
    <3> QED BY <2>2, <3>1 DEF ImportRecord
  <2>5. page'[q] = [page[q] EXCEPT !.form = [page[q].form EXCEPT !.old = b],
                                   !.import = [page[q].import EXCEPT !.late = l]]
    BY DEF Write
  <2> HIDE DEF b, l
  <2> QED BY <2>1, <2>3, <2>4, <2>5 DEF PageRow
<1>7. blurred' \in [Pages -> SUBSET Rows]
  BY <1>1 DEF Write, RostersTypeOK
<1> QED BY <1>3, <1>4, <1>5, <1>6, <1>7 DEF RostersTypeOK

\* The writes and their refusals.
LEMMA ApplyKeepsType ==
    ASSUME RostersTypeOK, NEW f \in Flights, Apply(f)
    PROVE  RostersTypeOK'
BY WriteKeepsType, RefuseKeepsType DEF Apply

\* The rows read are a list.
LEMMA ListKeepsType ==
    ASSUME RostersTypeOK, NEW f \in Flights, List(f)
    PROVE  RostersTypeOK'
<1>1. CASE Refuse(f)
  BY <1>1, RefuseKeepsType
<1>2. CASE /\ flight' = [flight EXCEPT ![f].at = "answered",
                                       ![f].got = Table(flight[f].page, flight[f].search)]
           /\ UNCHANGED <<row, page, raced, blurred>>
  <2> DEFINE t == Table(flight[f].page, flight[f].search)
  <2>1. t \in [Rows -> Copy]
    BY TableType
  <2>2. \A g \in Flights : flight'[g] \in FlightRow /\ Goal(flight'[g])
    <3> TAKE g \in Flights
    <3>1. flight[g] \in FlightRow /\ Goal(flight[g])
      BY DEF RostersTypeOK
    <3>2. CASE g = f
      <4>1. flight'[g] = [flight[f] EXCEPT !.at = "answered", !.got = t]
        BY <1>2, <3>2 DEF RostersTypeOK
      <4> HIDE DEF t
      <4> QED BY <4>1, <3>1, <3>2, <2>1 DEF FlightRow, Goal, List
    <3>3. CASE g # f
      BY <1>2, <3>1, <3>3 DEF RostersTypeOK
    <3> QED BY <3>2, <3>3
  <2>3. flight' \in [Flights -> FlightRow]
    BY <1>2, <2>2 DEF RostersTypeOK
  <2> QED BY <1>2, <2>2, <2>3 DEF RostersTypeOK
<1> QED BY <1>1, <1>2 DEF List

\* Over leaves no request.
LEMMA OverType ==
    ASSUME RostersTypeOK, NEW f \in Flights, Over(f)
    PROVE  flight' \in [Flights -> FlightRow] /\ \A g \in Flights : Goal(flight'[g])
<1>1. \A g \in Flights : flight'[g] \in FlightRow /\ Goal(flight'[g])
  BY IdleType DEF Over, RostersTypeOK
<1> QED BY <1>1 DEF Over, RostersTypeOK

\* A table arrives.
LEMMA LoadedKeepsType ==
    ASSUME RostersTypeOK, NEW f \in Flights, Loaded(f)
    PROVE  RostersTypeOK'
<1> DEFINE p == flight[f].page
<1>1. /\ p \in Pages /\ flight[f].got \in [Rows -> Copy] /\ flight[f].blur \in SUBSET Rows
      /\ page \in [Pages -> PageRow]
  BY DEF RostersTypeOK, FlightRow
<1>2. page' \in [Pages -> PageRow]
  <2>1. [page EXCEPT ![p].list = flight[f].got] \in [Pages -> PageRow]
    BY <1>1, ListField
  <2>2. [[page EXCEPT ![p].list = flight[f].got] EXCEPT ![p].loading = FALSE] \in [Pages -> PageRow]
    BY <2>1, <1>1, LoadingField
  <2> QED BY <2>2 DEF Loaded
<1>3. blurred' \in [Pages -> SUBSET Rows]
  BY <1>1 DEF Loaded, RostersTypeOK
<1> QED BY <1>2, <1>3, OverType DEF Loaded, RostersTypeOK, Goal

\* What a page makes of an answer is a copy.
LEMMA FollowType ==
    ASSUME RostersTypeOK, NEW f \in Flights, flight[f].at = "answered", flight[f].do # "load"
    PROVE  Follow(flight[f].page, flight[f].do, flight[f].row, flight[f].to) \in Copy
<1>1. flight[f] \in FlightRow /\ Goal(flight[f])
  BY DEF RostersTypeOK
<1>2. flight[f].do = "delete" \/ flight[f].to \in There
  BY <1>1 DEF FlightRow, Goal
<1>3. \A s : Flip(s) \in There
  BY DEF Flip, There
<1> QED BY <1>2, <1>3 DEF Follow, Copy

\* The requests others have in flight are about rows.
LEMMA OthersType ==
    ASSUME RostersTypeOK, NEW S \in SUBSET Flights
    PROVE  UNION {IF flight[g].do = "load" THEN Rows ELSE {flight[g].row} : g \in S} \in SUBSET Rows
BY DEF RostersTypeOK, FlightRow

\* An answer about a row.
LEMMA DoneKeepsType ==
    ASSUME RostersTypeOK, NEW f \in Flights, Done(f)
    PROVE  RostersTypeOK'
<1> DEFINE p == flight[f].page
           r == flight[f].row
           others == UNION {IF flight[g].do = "load" THEN Rows ELSE {flight[g].row} : g \in Of(p) \ {f}}
<1>1. p \in Pages /\ r \in Rows /\ page \in [Pages -> PageRow] /\ page[p] \in PageRow
  BY DEF RostersTypeOK, FlightRow
<1>2. CASE Style[p] = "reload"
  <2>1. others \in SUBSET Rows
    BY OthersType DEF Of
  <2> HIDE DEF others
  <2>2. LoadRequest(p, FALSE, others) \in FlightRow /\ Goal(LoadRequest(p, FALSE, others))
    BY <2>1, <1>1, LoadRequestType
  <2>3. /\ flight' = [g \in Flights |->
                        IF g = f THEN LoadRequest(p, FALSE, others)
                        ELSE IF g \in Loading(p) THEN [flight[g] EXCEPT !.blur = Rows]
                        ELSE flight[g]]
        /\ UNCHANGED <<page, row, raced, blurred>>
    BY <1>2 DEF Done, others
  <2>4. \A g \in Flights : flight'[g] \in FlightRow /\ Goal(flight'[g])
    <3> TAKE g \in Flights
    <3>1. flight[g] \in FlightRow /\ Goal(flight[g])
      BY DEF RostersTypeOK
    <3>2. [flight[g] EXCEPT !.blur = Rows] \in FlightRow /\ Goal([flight[g] EXCEPT !.blur = Rows])
      BY <3>1 DEF FlightRow, Goal
    <3> QED BY <2>2, <2>3, <3>1, <3>2
  <2>5. flight' \in [Flights -> FlightRow]
    BY <2>3, <2>4
  <2> QED BY <2>3, <2>4, <2>5 DEF RostersTypeOK
<1>3. CASE Style[p] # "reload" /\ flight[f].do = "import"
  <2> DEFINE i == [page[p].import EXCEPT !.made = @ \cup {r}]
  <2>1. page[p].import \in ImportRecord
    BY <1>1 DEF PageRow
  <2>2. i \in ImportRecord
    BY <2>1, <1>1 DEF ImportRecord
  <2>3. page' = [page EXCEPT ![p].import = i]
    BY <1>3 DEF Done
  <2>4. page' \in [Pages -> PageRow]
    <3> HIDE DEF i
    <3> QED BY <1>1, <2>2, <2>3, ImportField
  <2>5. Over(f) /\ UNCHANGED <<row, raced, blurred>>
    BY <1>3 DEF Done
  <2> QED BY <2>4, <2>5, OverType DEF RostersTypeOK, Goal
<1>4. CASE Style[p] # "reload" /\ flight[f].do # "import"
  <2> DEFINE to == Follow(p, flight[f].do, r, flight[f].to)
             l == [page[p].list EXCEPT ![r] = to]
             d == page[p].deleting \ {r}
  <2>1. page[p].list \in [Rows -> Copy] /\ d \in SUBSET Rows
    BY <1>1 DEF PageRow
  <2>2. to \in Copy
    BY FollowType DEF Done
  <2>3. l \in [Rows -> Copy]
    <3> HIDE DEF to
    <3> QED BY <2>1, <2>2, <1>1
  <2>4. page' = [page EXCEPT ![p].list = l, ![p].deleting = d]
    BY <1>4, <1>1 DEF Done, PageRow
  <2>5. page' \in [Pages -> PageRow]
    <3> HIDE DEF l, d, to
    <3>1. [page EXCEPT ![p].list = l] \in [Pages -> PageRow]
      BY <1>1, <2>3, ListField
    <3>2. [[page EXCEPT ![p].list = l] EXCEPT ![p].deleting = d] \in [Pages -> PageRow]
      BY <3>1, <1>1, <2>1, DeletingField
    <3> QED BY <3>2, <2>4
  <2>6. Over(f) /\ UNCHANGED <<row, raced, blurred>>
    BY <1>4 DEF Done
  <2> QED BY <2>5, <2>6, OverType DEF RostersTypeOK, Goal
<1> QED BY <1>2, <1>3, <1>4

\* A request that failed.
LEMMA FailedKeepsType ==
    ASSUME RostersTypeOK, NEW f \in Flights, Failed(f)
    PROVE  RostersTypeOK'
<1> DEFINE p == flight[f].page
           o == page[p].loading /\ flight[f].do # "load"
           d == page[p].deleting \ {flight[f].row}
<1>1. p \in Pages /\ flight[f].row \in Rows /\ page \in [Pages -> PageRow] /\ page[p] \in PageRow
  BY DEF RostersTypeOK, FlightRow
<1>2. o \in BOOLEAN /\ d \in SUBSET Rows
  BY <1>1 DEF PageRow
<1>3. page' = [page EXCEPT ![p].loading = o, ![p].deleting = d]
  BY DEF Failed
<1>4. page' \in [Pages -> PageRow]
  <2> HIDE DEF o, d
  <2>1. [page EXCEPT ![p].loading = o] \in [Pages -> PageRow]
    BY <1>1, <1>2 DEF PageRow
  <2>2. [[page EXCEPT ![p].loading = o] EXCEPT ![p].deleting = d] \in [Pages -> PageRow]
    BY <2>1, <1>1, <1>2, DeletingField
  <2> QED BY <2>2, <1>3
<1>5. blurred' \in [Pages -> SUBSET Rows]
  BY <1>1 DEF Failed, RostersTypeOK
<1> QED BY <1>4, <1>5, OverType DEF Failed, RostersTypeOK, Goal

\* Every step keeps the types.
LEMMA NextKeepsType == ASSUME RostersTypeOK, [Next]_vars PROVE RostersTypeOK'
<1>1. CASE Next
  <2>1. PICK f \in Flights :
           \/ \E p \in Pages :
                 \/ \E search \in BOOLEAN : Load(f, p, search)
                 \/ \E r \in Rows : Toggle(f, p, r) \/ Delete(f, p, r) \/ Add(f, p, r) \/ OpenForm(p, r)
                 \/ \E ticked \in There : Submit(f, p, ticked)
                 \/ \E rs \in SUBSET Rows : Import(p, rs)
                 \/ \E r \in Rows : ImportRow(f, p, r)
                 \/ \E told \in BOOLEAN : CloseImport(p, told)
           \/ Serve(f) \/ Hear(f) \/ Lose(f)
    BY <1>1 DEF Next
  <2>2. CASE Serve(f)
    BY <2>2, CountKeepsType, ApplyKeepsType, ListKeepsType DEF Serve
  <2>3. CASE Hear(f)
    BY <2>3, LoadedKeepsType, DoneKeepsType, FailedKeepsType DEF Hear, Refused
  <2>4. CASE Lose(f)
    BY <2>4, FailedKeepsType DEF Lose
  <2>5. ASSUME NEW p \in Pages, NEW search \in BOOLEAN, Load(f, p, search) PROVE RostersTypeOK'
    BY <2>5, LoadKeepsType
  <2>6. ASSUME NEW p \in Pages, NEW r \in Rows,
               Toggle(f, p, r) \/ Delete(f, p, r) \/ Add(f, p, r) \/ OpenForm(p, r) \/ ImportRow(f, p, r)
        PROVE  RostersTypeOK'
    BY <2>6, ToggleKeepsType, DeleteKeepsType, AddKeepsType, OpenFormKeepsType, ImportRowKeepsType
  <2>7. ASSUME NEW p \in Pages, NEW ticked \in There, Submit(f, p, ticked) PROVE RostersTypeOK'
    BY <2>7, SubmitKeepsType
  <2>8. ASSUME NEW p \in Pages, NEW rs \in SUBSET Rows, Import(p, rs) PROVE RostersTypeOK'
    BY <2>8, ImportKeepsType
  <2>9. ASSUME NEW p \in Pages, NEW told \in BOOLEAN, CloseImport(p, told) PROVE RostersTypeOK'
    BY <2>9, CloseImportKeepsType
  <2> QED BY <2>1, <2>2, <2>3, <2>4, <2>5, <2>6, <2>7, <2>8, <2>9
<1>2. CASE UNCHANGED vars
  BY <1>2 DEF vars, RostersTypeOK, Goal
<1> QED BY <1>1, <1>2

\* Whatever people press and the network loses, every page, request and table is
\* well formed; a write never leaves a row in a state the tables do not have.
THEOREM RostersTypes == Spec => []RostersTypeOK
BY InitType, NextKeepsType, PTL DEF Spec

-----------------------------------------------------------------------------
(* An active super administrator remains.                                  *)

\* While no two counts raced: the one removal counted and not yet written leaves
\* another active administrator.
Safe ==
    ~raced => /\ ActiveAdmins # {}
              /\ \A f, g \in Counted : f = g
              /\ \A f \in Counted : Removal(f) /\ ActiveAdmins \ {flight[f].row} # {}

\* A step that touches neither the tables nor what was counted.
Calm ==
    /\ row' = row /\ raced' = raced
    /\ \A g \in Flights : flight'[g].at = "counted" =>
          /\ flight[g].at = "counted"
          /\ flight'[g].row = flight[g].row /\ flight'[g].to = flight[g].to

\* Such a step keeps the administrators safe.
LEMMA CalmKeepsSafe == ASSUME Safe, Calm PROVE Safe'
<1>1. ActiveAdmins' = ActiveAdmins
  BY DEF ActiveAdmins, Calm
<1>2. \A f \in Counted' : f \in Counted /\ flight'[f].row = flight[f].row /\ flight'[f].to = flight[f].to
  BY DEF Counted, Calm
<1> QED BY <1>1, <1>2 DEF Safe, Calm, Removal

\* The pages' own steps are calm.
LEMMA AskCalm ==
    ASSUME RostersTypeOK, NEW f \in Flights, NEW p, NEW do, NEW r, NEW to, NEW old, Ask(f, p, do, r, to, old)
    PROVE  Calm
<1> SUFFICES ASSUME NEW g \in Flights, flight'[g].at = "counted"
             PROVE  flight[g].at = "counted" /\ flight'[g].row = flight[g].row /\ flight'[g].to = flight[g].to
  BY DEF Ask, Calm
<1>1. flight[g] \in FlightRow
  BY DEF RostersTypeOK
<1>2. CASE g = f
  BY <1>2 DEF Ask, NoFlight
<1>3. CASE flight'[g] = [flight[g] EXCEPT !.blur = @ \cup {r}]
  BY <1>1, <1>3 DEF FlightRow
<1>4. CASE flight'[g] = flight[g]
  BY <1>4
<1> QED BY <1>2, <1>3, <1>4 DEF Ask

\* A load sent, at first or after an answer, beside other loads.
LEMMA LoadCalm ==
    ASSUME RostersTypeOK, NEW f \in Flights, row' = row, raced' = raced, flight'[f].at = "sent",
           \A g \in Flights \ {f} : flight'[g] \in {flight[g], [flight[g] EXCEPT !.blur = Rows]}
    PROVE  Calm
<1> SUFFICES ASSUME NEW g \in Flights, flight'[g].at = "counted"
             PROVE  flight[g].at = "counted" /\ flight'[g].row = flight[g].row /\ flight'[g].to = flight[g].to
  BY DEF Calm
<1>1. flight[g] \in FlightRow
  BY DEF RostersTypeOK
<1>2. CASE g = f
  BY <1>2
<1>3. CASE flight'[g] = [flight[g] EXCEPT !.blur = Rows]
  BY <1>1, <1>3 DEF FlightRow
<1>4. CASE flight'[g] = flight[g]
  BY <1>4
<1> QED BY <1>2, <1>3, <1>4

\* A request that is over or answered, refused or not, is no longer counted.
LEMMA OneCalm ==
    ASSUME RostersTypeOK, NEW f \in Flights, row' = row, raced' = raced,
           \/ Over(f)
           \/ \E got : flight' = [flight EXCEPT ![f].at = "answered", ![f].got = got]
           \/ flight' = [flight EXCEPT ![f].at = "refused"]
    PROVE  Calm
<1> SUFFICES ASSUME NEW g \in Flights, flight'[g].at = "counted"
             PROVE  flight[g].at = "counted" /\ flight'[g].row = flight[g].row /\ flight'[g].to = flight[g].to
  BY DEF Calm
<1>1. flight[g] \in FlightRow /\ flight \in [Flights -> FlightRow]
  BY DEF RostersTypeOK
<1>2. CASE g # f
  BY <1>1, <1>2 DEF Over
<1>3. CASE g = f
  BY <1>1, <1>3 DEF Over, NoFlight, FlightRow
<1> QED BY <1>2, <1>3

\* A removal is counted when another administrator is active.
LEMMA CountKeepsSafe == ASSUME RostersTypeOK, Safe, NEW f \in Flights, Count(f) PROVE Safe'
<1>1. CASE Refuse(f)
  <2>1. Calm
    BY <1>1, OneCalm DEF Refuse
  <2> QED BY <2>1, CalmKeepsSafe
<1>2. CASE /\ ActiveAdmins \ {flight[f].row} # {}
           /\ flight' = [flight EXCEPT ![f].at = "counted"]
           /\ raced' = (raced \/ Counted # {})
           /\ row' = row
  <2> SUFFICES ASSUME ~raced'
               PROVE  /\ (ActiveAdmins # {})'
                      /\ \A g, h \in Counted' : g = h
                      /\ \A g \in Counted' : Removal(g)' /\ ActiveAdmins' \ {flight'[g].row} # {}
    BY DEF Safe
  <2>1. ActiveAdmins' = ActiveAdmins
    BY <1>2 DEF ActiveAdmins
  <2>2. Counted = {} /\ ~raced
    BY <1>2
  <2>3. flight[f] \in FlightRow /\ flight \in [Flights -> FlightRow]
    BY DEF RostersTypeOK
  <2>4. flight'[f] = [flight[f] EXCEPT !.at = "counted"] /\ \A g \in Flights : g # f => flight'[g] = flight[g]
    BY <1>2, <2>3
  <2>5. Counted' = {f}
    BY <2>2, <2>3, <2>4 DEF Counted, FlightRow
  <2>6. flight'[f].row = flight[f].row /\ flight'[f].to = flight[f].to
    BY <2>3, <2>4 DEF FlightRow
  <2>7. Removal(f)'
    BY <2>6 DEF Removal, Count
  <2> QED BY <1>2, <2>1, <2>5, <2>6, <2>7
<1> QED BY <1>1, <1>2 DEF Count

\* A write is the removal counted, or leaves the active administrators active.
LEMMA ApplyKeepsSafe == ASSUME RostersTypeOK, Safe, NEW f \in Flights, Apply(f) PROVE Safe'
<1>1. CASE Refuse(f)
  <2>1. Calm
    BY <1>1, OneCalm DEF Refuse, Apply
  <2> QED BY <2>1, CalmKeepsSafe
<1>2. CASE Write(f) /\ UNCHANGED raced
  <2> SUFFICES ASSUME ~raced
               PROVE  /\ (ActiveAdmins # {})'
                      /\ \A g, h \in Counted' : g = h
                      /\ \A g \in Counted' : Removal(g)' /\ ActiveAdmins' \ {flight'[g].row} # {}
    BY <1>2 DEF Safe
  <2> DEFINE r == flight[f].row
             now == IF flight[f].to = "none" THEN row[r] ELSE flight[f].to
  <2>1. flight[f] \in FlightRow /\ r \in Rows /\ row \in [Rows -> There \cup {"unborn", "gone"}]
    BY DEF RostersTypeOK, FlightRow
  <2>2. row'[r] = now /\ \A q \in Rows : q # r => row'[q] = row[q]
    BY <1>2, <2>1 DEF Write
  <2>3. ActiveAdmins \ {r} \subseteq ActiveAdmins'
    BY <2>2, RowsOfPeople DEF ActiveAdmins
  <2>4. \A g \in Flights : flight'[g].at = "counted" =>
            g # f /\ flight[g].at = "counted" /\ flight'[g].row = flight[g].row /\ flight'[g].to = flight[g].to
    <3> SUFFICES ASSUME NEW g \in Flights, flight'[g].at = "counted"
                 PROVE  /\ g # f /\ flight[g].at = "counted"
                        /\ flight'[g].row = flight[g].row /\ flight'[g].to = flight[g].to
      OBVIOUS
    <3>1. flight[g] \in FlightRow
      BY DEF RostersTypeOK
    <3>2. CASE g = f
      <4>1. flight'[g] = [flight[f] EXCEPT !.at = "answered", !.to = now]
        BY <1>2, <3>2 DEF Write
      <4> HIDE DEF now
      <4> QED BY <4>1, <2>1 DEF FlightRow
    <3>3. CASE flight'[g] = [flight[g] EXCEPT !.blur = @ \cup {r}] /\ g # f
      BY <3>1, <3>3 DEF FlightRow
    <3>4. CASE flight'[g] = [flight[g] EXCEPT !.old = TRUE] /\ g # f
      BY <3>1, <3>4 DEF FlightRow
    <3>5. CASE flight'[g] = flight[g] /\ g # f
      BY <3>5
    <3> QED BY <1>2, <3>2, <3>3, <3>4, <3>5 DEF Write
  <2>5. Counted' \subseteq Counted \ {f}
    BY <2>4 DEF Counted
  <2>6. CASE Removal(f)
    <3>1. f \in Counted
      BY <2>6 DEF Apply, Counted
    <3>2. Counted' = {}
      BY <3>1, <2>5 DEF Safe
    <3>3. ActiveAdmins \ {r} # {}
      BY <3>1 DEF Safe
    <3> QED BY <3>2, <3>3, <2>3
  <2>7. CASE ~Removal(f)
    <3>1. r \in Admins /\ row[r] = "active" => row'[r] = "active"
      <4>1. r \in Admins /\ row[r] = "active" => flight[f].to \in {"active", "none"}
        BY <2>1, <2>7 DEF Removal, FlightRow, There
      <4> QED BY <4>1, <2>2
    <3>2. ActiveAdmins \subseteq ActiveAdmins'
      BY <3>1, <2>2, RowsOfPeople DEF ActiveAdmins
    <3>3. \A g \in Counted' : g \in Counted /\ flight'[g].row = flight[g].row /\ flight'[g].to = flight[g].to
      BY <2>4 DEF Counted
    <3>4. \A g \in Counted' : Removal(g)'
      BY <3>3 DEF Safe, Removal
    <3> QED BY <3>2, <3>3, <3>4 DEF Safe
  <2> QED BY <2>6, <2>7
<1> QED BY <1>1, <1>2 DEF Apply

\* Every step keeps the administrators safe.
LEMMA NextKeepsSafe == ASSUME RostersTypeOK, Safe, [Next]_vars PROVE Safe'
<1>1. CASE \E f \in Flights : Count(f)
  BY <1>1, CountKeepsSafe
<1>2. CASE \E f \in Flights : Apply(f)
  BY <1>2, ApplyKeepsSafe
<1>3. CASE \E f \in Flights : List(f) \/ Loaded(f) \/ Refused(f) \/ Lose(f)
  <2>1. PICK f \in Flights : List(f) \/ Loaded(f) \/ Refused(f) \/ Lose(f)
    BY <1>3
  <2>2. CASE List(f)
    <3>1. Calm
      BY <2>2, OneCalm DEF List, Refuse
    <3> QED BY <3>1, CalmKeepsSafe
  <2>3. CASE Loaded(f) \/ Refused(f) \/ Lose(f)
    <3>1. Over(f) /\ row' = row /\ raced' = raced
      BY <2>3 DEF Loaded, Refused, Lose, Failed
    <3>2. Calm
      BY <3>1, OneCalm
    <3> QED BY <3>2, CalmKeepsSafe
  <2> QED BY <2>1, <2>2, <2>3
<1>4. CASE \E f \in Flights : Done(f)
  <2>1. PICK f \in Flights : Done(f)
    BY <1>4
  <2>2. row' = row /\ raced' = raced
    BY <2>1 DEF Done
  <2>3. CASE Over(f)
    <3>1. Calm
      BY <2>2, <2>3, OneCalm
    <3> QED BY <3>1, CalmKeepsSafe
  <2>4. CASE ~Over(f)
    <3>1. /\ flight'[f].at = "sent"
          /\ \A g \in Flights \ {f} : flight'[g] \in {flight[g], [flight[g] EXCEPT !.blur = Rows]}
      BY <2>1, <2>4 DEF Done, LoadRequest, NoFlight
    <3>2. Calm
      BY <2>2, <3>1, LoadCalm
    <3> QED BY <3>2, CalmKeepsSafe
  <2> QED BY <2>3, <2>4
<1>5. CASE \E f \in Flights, p \in Pages, search \in BOOLEAN : Load(f, p, search)
  <2>1. PICK f \in Flights, p \in Pages, search \in BOOLEAN : Load(f, p, search)
    BY <1>5
  <2>2. /\ flight'[f].at = "sent" /\ row' = row /\ raced' = raced
        /\ \A g \in Flights \ {f} : flight'[g] \in {flight[g], [flight[g] EXCEPT !.blur = Rows]}
    BY <2>1 DEF Load, LoadRequest, NoFlight
  <2>3. Calm
    BY <2>2, LoadCalm
  <2> QED BY <2>3, CalmKeepsSafe
<1>6. CASE \E f \in Flights, p \in Pages :
              \/ \E r \in Rows : Toggle(f, p, r) \/ Delete(f, p, r) \/ Add(f, p, r) \/ ImportRow(f, p, r)
              \/ \E ticked \in There : Submit(f, p, ticked)
  <2>1. PICK f \in Flights, p \in Pages :
              \/ \E r \in Rows : Toggle(f, p, r) \/ Delete(f, p, r) \/ Add(f, p, r) \/ ImportRow(f, p, r)
              \/ \E ticked \in There : Submit(f, p, ticked)
    BY <1>6
  <2>2. ASSUME NEW r \in Rows, Toggle(f, p, r) PROVE Calm
    BY <2>2, AskCalm DEF Toggle
  <2>3. ASSUME NEW r \in Rows, Delete(f, p, r) PROVE Calm
    BY <2>3, AskCalm DEF Delete
  <2>4. ASSUME NEW r \in Rows, Add(f, p, r) PROVE Calm
    BY <2>4, AskCalm DEF Add
  <2>5. ASSUME NEW r \in Rows, ImportRow(f, p, r) PROVE Calm
    BY <2>5, AskCalm DEF ImportRow
  <2>6. ASSUME NEW ticked \in There, Submit(f, p, ticked) PROVE Calm
    BY <2>6, AskCalm DEF Submit
  <2> QED BY <2>1, <2>2, <2>3, <2>4, <2>5, <2>6, CalmKeepsSafe
<1>7. CASE \/ \E p \in Pages, r \in Rows : OpenForm(p, r)
           \/ \E p \in Pages, rs \in SUBSET Rows : Import(p, rs)
           \/ \E p \in Pages, told \in BOOLEAN : CloseImport(p, told)
           \/ UNCHANGED vars
  <2>1. UNCHANGED <<row, flight, raced>>
    BY <1>7 DEF OpenForm, Import, CloseImport, vars
  <2>2. Calm
    BY <2>1 DEF Calm
  <2> QED BY <2>2, CalmKeepsSafe
<1> QED BY <1>1, <1>2, <1>3, <1>4, <1>5, <1>6, <1>7 DEF Next, Serve, Hear

\* The platform keeps an active super administrator unless two removals were both
\* counted before either was written: hasAnotherActiveSuperAdmin counts in a
\* statement of its own, so that race is the only way to lose them all.
THEOREM AdministratorRemains == Spec => []AdminRemains
<1>1. Init => Safe
  <2> SUFFICES ASSUME Init PROVE Safe
    OBVIOUS
  <2>1. Counted = {}
    BY DEF Init, Counted, NoFlight
  <2>2. ActiveAdmins # {}
    BY RowsOfPeople DEF Init, ActiveAdmins
  <2> QED BY <2>1, <2>2 DEF Safe
<1>2. RostersTypeOK /\ Safe /\ [Next]_vars => Safe'
  BY NextKeepsSafe
<1>3. Safe => AdminRemains
  BY DEF Safe, AdminRemains
<1> QED BY <1>1, <1>2, <1>3, RostersTypes, PTL DEF Spec

-----------------------------------------------------------------------------
(* What the steps do to the requests in flight.                            *)

\* The request moves nowhere, though it may learn that its copy is old.
Kin(g) ==
    /\ flight'[g].at = flight[g].at /\ flight'[g].do = flight[g].do
    /\ flight'[g].page = flight[g].page /\ flight'[g].row = flight[g].row
    /\ flight'[g].to = flight[g].to /\ flight'[g].search = flight[g].search
    /\ flight'[g].got = flight[g].got

\* The fields of a record that keeps all but its blur, or its age.
LEMMA KinBlur ==
    ASSUME RostersTypeOK, NEW g \in Flights, NEW b,
           flight'[g] = [flight[g] EXCEPT !.blur = b]
    PROVE  Kin(g) /\ flight'[g].old = flight[g].old /\ flight'[g].blur = b
<1>1. flight[g] \in FlightRow
  BY DEF RostersTypeOK
<1> QED BY <1>1 DEF Kin, FlightRow

\* The same with its age.
LEMMA KinOld ==
    ASSUME RostersTypeOK, NEW g \in Flights, flight'[g] = [flight[g] EXCEPT !.old = TRUE]
    PROVE  Kin(g) /\ flight'[g].old /\ flight'[g].blur = flight[g].blur
<1>1. flight[g] \in FlightRow
  BY DEF RostersTypeOK
<1> QED BY <1>1 DEF Kin, FlightRow

\* A request left alone.
LEMMA KinSame ==
    ASSUME NEW g \in Flights, flight'[g] = flight[g]
    PROVE  Kin(g) /\ flight'[g].old = flight[g].old /\ flight'[g].blur = flight[g].blur
BY DEF Kin

\* A request is sent about row r; the loads of the page may miss it.
Sends(f, p, do, r, to, old) ==
    /\ flight'[f].at = "sent" /\ flight'[f].do = do /\ flight'[f].page = p
    /\ flight'[f].row = r /\ flight'[f].to = to /\ flight'[f].old = old
    /\ flight'[f].got = Empty
    /\ \A g \in Flights \ {f} :
          /\ Kin(g) /\ flight'[g].old = flight[g].old
          /\ flight'[g].blur = IF g \in Loading(p) THEN flight[g].blur \cup {r} ELSE flight[g].blur

\* Ask sends a request.
LEMMA AskSends ==
    ASSUME RostersTypeOK, NEW f \in Flights, NEW p \in Pages, NEW do, NEW r \in Rows, NEW to, NEW old,
           Ask(f, p, do, r, to, old)
    PROVE  Sends(f, p, do, r, to, old)
<1>1. flight'[f] = [NoFlight EXCEPT !.at = "sent", !.do = do, !.page = p, !.row = r,
                                    !.to = to, !.old = old, !.blur = {}]
  BY DEF Ask
<1>2. ASSUME NEW g \in Flights \ {f}
      PROVE  /\ Kin(g) /\ flight'[g].old = flight[g].old
             /\ flight'[g].blur = IF g \in Loading(p) THEN flight[g].blur \cup {r} ELSE flight[g].blur
  <2>1. CASE g \in Loading(p)
    <3>1. flight'[g] = [flight[g] EXCEPT !.blur = flight[g].blur \cup {r}]
      BY <2>1 DEF Ask
    <3> QED BY <2>1, <3>1, KinBlur
  <2>2. CASE g \notin Loading(p)
    <3>1. flight'[g] = flight[g]
      BY <2>2 DEF Ask
    <3> QED BY <2>2, <3>1, KinSame
  <2> QED BY <2>1, <2>2
<1> QED BY <1>1, <1>2 DEF Sends, NoFlight

\* A load is sent; the others of the page are out of date.
Reads(f, p, search, others) ==
    /\ flight'[f].at = "sent" /\ flight'[f].do = "load" /\ flight'[f].page = p
    /\ flight'[f].search = search /\ flight'[f].blur = others /\ flight'[f].to = "none"
    /\ flight'[f].got = Empty
    /\ \A g \in Flights \ {f} :
          /\ Kin(g) /\ flight'[g].old = flight[g].old
          /\ flight'[g].blur = IF g \in Loading(p) THEN Rows ELSE flight[g].blur

\* A load is sent in that shape, by the page or after an answer.
LEMMA LoadReads ==
    ASSUME RostersTypeOK, NEW f \in Flights, NEW p \in Pages, NEW search, NEW others,
           flight' = [g \in Flights |->
                        IF g = f THEN LoadRequest(p, search, others)
                        ELSE IF g \in Loading(p) THEN [flight[g] EXCEPT !.blur = Rows]
                        ELSE flight[g]]
    PROVE  Reads(f, p, search, others)
<1>1. flight'[f] = [NoFlight EXCEPT !.at = "sent", !.page = p, !.search = search, !.blur = others]
  BY DEF LoadRequest
<1>2. ASSUME NEW g \in Flights \ {f}
      PROVE  /\ Kin(g) /\ flight'[g].old = flight[g].old
             /\ flight'[g].blur = IF g \in Loading(p) THEN Rows ELSE flight[g].blur
  <2>1. CASE g \in Loading(p)
    <3>1. flight'[g] = [flight[g] EXCEPT !.blur = Rows]
      BY <2>1
    <3>2. Kin(g) /\ flight'[g].old = flight[g].old /\ flight'[g].blur = Rows
      BY <3>1, KinBlur
    <3> QED BY <2>1, <3>2
  <2>2. CASE g \notin Loading(p)
    <3>1. flight'[g] = flight[g]
      BY <2>2
    <3> QED BY <2>2, <3>1, KinSame
  <2> QED BY <2>1, <2>2
<1> QED BY <1>1, <1>2 DEF Reads, NoFlight

\* A row is written: the other pages' loads, and the requests about the row, learn
\* of it.
Writes(f, now) ==
    /\ flight'[f].at = "answered" /\ flight'[f].to = now /\ flight'[f].do = flight[f].do
    /\ flight'[f].page = flight[f].page /\ flight'[f].row = flight[f].row
    /\ flight'[f].got = flight[f].got
    /\ \A g \in Flights \ {f} :
          /\ Kin(g)
          /\ flight[g].old => flight'[g].old
          /\ flight'[g].blur = IF flight[g].page # flight[f].page /\ g \in Loading(flight[g].page)
                               THEN flight[g].blur \cup {flight[f].row} ELSE flight[g].blur
          /\ flight[g].do # "load" /\ flight[g].row = flight[f].row => flight'[g].old

\* Write writes what the request asks, or what was there.
LEMMA WriteWrites ==
    ASSUME RostersTypeOK, NEW f \in Flights, Write(f)
    PROVE  Writes(f, IF flight[f].to = "none" THEN row[flight[f].row] ELSE flight[f].to)
<1> DEFINE r == flight[f].row
           p == flight[f].page
           now == IF flight[f].to = "none" THEN row[r] ELSE flight[f].to
<1>1. flight'[f] = [flight[f] EXCEPT !.at = "answered", !.to = now]
  BY DEF Write
<1>2. flight[f] \in FlightRow
  BY DEF RostersTypeOK
<1>3. ASSUME NEW g \in Flights \ {f}
      PROVE  /\ Kin(g)
             /\ flight[g].old => flight'[g].old
             /\ flight'[g].blur = IF flight[g].page # flight[f].page /\ g \in Loading(flight[g].page)
                                  THEN flight[g].blur \cup {r} ELSE flight[g].blur
             /\ flight[g].do # "load" /\ flight[g].row = r => flight'[g].old
  <2>1. CASE flight[g].page # p /\ g \in Loading(flight[g].page)
    <3>1. flight'[g] = [flight[g] EXCEPT !.blur = flight[g].blur \cup {r}]
      BY <2>1 DEF Write
    <3> QED BY <2>1, <3>1, KinBlur DEF Loading
  <2>2. CASE ~ (flight[g].page # p /\ g \in Loading(flight[g].page)) /\ flight[g].row = r
    <3>1. flight'[g] = [flight[g] EXCEPT !.old = TRUE]
      BY <2>2 DEF Write
    <3> QED BY <2>2, <3>1, KinOld
  <2>3. CASE ~ (flight[g].page # p /\ g \in Loading(flight[g].page)) /\ flight[g].row # r
    <3>1. flight'[g] = flight[g]
      BY <2>3 DEF Write
    <3> QED BY <2>3, <3>1, KinSame
  <2> QED BY <2>1, <2>2, <2>3
<1> HIDE DEF now
<1>4. flight'[f].at = "answered" /\ flight'[f].to = now /\ flight'[f].do = flight[f].do
      /\ flight'[f].page = flight[f].page /\ flight'[f].row = flight[f].row
      /\ flight'[f].got = flight[f].got
  BY <1>1, <1>2 DEF FlightRow
<1> QED BY <1>3, <1>4 DEF Writes, now

\* A request only moves on: counted, refused, or answered with a list.
Moves(f, at) ==
    /\ flight'[f].at = at /\ flight'[f].do = flight[f].do /\ flight'[f].page = flight[f].page
    /\ flight'[f].row = flight[f].row /\ flight'[f].to = flight[f].to
    /\ flight'[f].old = flight[f].old /\ flight'[f].search = flight[f].search
    /\ flight'[f].blur = flight[f].blur
    /\ \A g \in Flights \ {f} : flight'[g] = flight[g]

\* A change of state alone moves a request on.
LEMMA RefuseMoves ==
    ASSUME RostersTypeOK, NEW f \in Flights, NEW at, flight' = [flight EXCEPT ![f].at = at]
    PROVE  Moves(f, at) /\ flight'[f].got = flight[f].got
<1>1. flight[f] \in FlightRow
  BY DEF RostersTypeOK
<1> QED BY <1>1 DEF Moves, FlightRow, RostersTypeOK

\* So does a list read.
LEMMA ListMoves ==
    ASSUME RostersTypeOK, NEW f \in Flights, NEW got,
           flight' = [flight EXCEPT ![f].at = "answered", ![f].got = got]
    PROVE  Moves(f, "answered") /\ flight'[f].got = got
<1>1. flight[f] \in FlightRow
  BY DEF RostersTypeOK
<1> QED BY <1>1 DEF Moves, FlightRow, RostersTypeOK

\* A request is over.
Ends(f) == flight'[f] = NoFlight /\ \A g \in Flights \ {f} : flight'[g] = flight[g]

\* Over ends a request.
LEMMA OverEnds == ASSUME RostersTypeOK, NEW f \in Flights, Over(f) PROVE Ends(f)
BY DEF RostersTypeOK, Over, Ends

-----------------------------------------------------------------------------
(* Rows not born yet: nobody shows them, one request at most creates each. *)

Creating == {"add", "import"}

Unseen ==
    \A r \in Rows : row[r] = "unborn" =>
        /\ \A p \in Pages : /\ page[p].list[r] = "none" /\ r \notin page[p].import.made
                            /\ page[p].form.open => page[p].form.row # r
        /\ \A f \in Flights : flight[f].got[r] = "none"

Unasked ==
    \A f \in Flights : flight[f].at # "idle" /\ flight[f].do # "load" /\ row[flight[f].row] = "unborn" =>
        flight[f].do \in Creating /\ flight[f].at \in {"sent", "refused"}

Reserved ==
    \A p \in Pages : \A r \in page[p].import.left :
        /\ row[r] = "unborn" /\ \A f \in Flights : flight[f].do \in Creating => flight[f].row # r
        /\ \A q \in Pages : r \in page[q].import.left => q = p

OneCreator ==
    /\ \A f, g \in Flights : flight[f].do \in Creating /\ flight[g].do \in Creating
                             /\ flight[f].row = flight[g].row => f = g
    /\ \A f \in Flights : flight[f].do \in Creating /\ flight[f].at = "sent" => row[flight[f].row] = "unborn"

\* What a request carries; only a tenant's page searches.
Shaped ==
    /\ \A p \in Pages : Style[p] # "answer" => ~ page[p].search
    /\ \A f \in Flights : /\ flight[f].at = "idle" => flight[f].do = "load"
                          /\ flight[f].do = "load" => flight[f].to = "none"
                          /\ flight[f].do = "delete" => flight[f].to = "gone"
                          /\ flight[f].do \in Creating => flight[f].to = "active"

Newborn == Unseen /\ Unasked /\ Reserved /\ OneCreator /\ Shaped

\* No page shows more, or has more left to send, than before.
PagesKeep ==
    \A q \in Pages :
        /\ page'[q].list = page[q].list /\ page'[q].import.made = page[q].import.made
        /\ page'[q].import.left \subseteq page[q].import.left /\ page'[q].search = page[q].search
        /\ page'[q].form.open => page[q].form.open /\ page'[q].form.row = page[q].form.row

\* A request about a row that is born, or that creates one nobody else creates.
LEMMA AskKeepsNewborn ==
    ASSUME RostersTypeOK, Newborn, NEW f \in Flights, NEW p \in Pages, NEW r \in Rows,
           NEW do \in {"toggle", "delete", "edit", "add", "import"}, NEW to, NEW old,
           Sends(f, p, do, r, to, old), row' = row, PagesKeep,
           do = "delete" => to = "gone", do \in Creating => to = "active",
           IF do \in Creating
           THEN /\ row[r] = "unborn" /\ \A g \in Flights : flight[g].do \in Creating => flight[g].row # r
                /\ \A q \in Pages : r \notin page'[q].import.left
           ELSE row[r] # "unborn"
    PROVE  Newborn'
<1>1. \A g \in Flights \ {f} : /\ flight'[g].at = flight[g].at /\ flight'[g].do = flight[g].do
                              /\ flight'[g].row = flight[g].row /\ flight'[g].to = flight[g].to
                              /\ flight'[g].got = flight[g].got
  BY DEF Sends, Kin
<1>2. /\ flight'[f].at = "sent" /\ flight'[f].do = do /\ flight'[f].row = r /\ flight'[f].to = to
      /\ flight'[f].got = Empty
  BY DEF Sends
<1>3. \A q \in Pages :
        /\ page'[q].list = page[q].list /\ page'[q].import.made = page[q].import.made
        /\ page'[q].import.left \subseteq page[q].import.left /\ page'[q].search = page[q].search
        /\ page'[q].form.open => page[q].form.open /\ page'[q].form.row = page[q].form.row
  BY DEF PagesKeep
<1>4. Unseen'
  <2>1. \A s \in Rows : Empty[s] = "none"
    BY DEF Empty
  <2> QED BY <1>1, <1>2, <1>3, <2>1 DEF Newborn, Unseen
<1>5. Unasked'
  <2> SUFFICES ASSUME NEW g \in Flights, flight'[g].at # "idle", flight'[g].do # "load",
                      row[flight'[g].row] = "unborn"
               PROVE  flight'[g].do \in Creating /\ flight'[g].at \in {"sent", "refused"}
    BY DEF Unasked
  <2>1. CASE g = f
    BY <1>2, <2>1
  <2>2. CASE g # f
    BY <1>1, <2>2 DEF Newborn, Unasked
  <2> QED BY <2>1, <2>2
<1>6. Reserved'
  <2> SUFFICES ASSUME NEW q \in Pages, NEW s \in page'[q].import.left
               PROVE  /\ row[s] = "unborn"
                      /\ \A g \in Flights : flight'[g].do \in Creating => flight'[g].row # s
                      /\ \A p2 \in Pages : s \in page'[p2].import.left => p2 = q
    BY DEF Reserved
  <2>1. s \in page[q].import.left /\ (do \in Creating => s # r)
    BY <1>3
  <2> QED BY <1>1, <1>2, <1>3, <2>1 DEF Newborn, Reserved
<1>7. OneCreator'
  <2>1. ASSUME NEW g \in Flights, NEW h \in Flights, flight'[g].do \in Creating, flight'[h].do \in Creating,
               flight'[g].row = flight'[h].row
        PROVE  g = h
    <3>1. CASE g = f \/ h = f
      BY <1>1, <1>2, <2>1, <3>1
    <3>2. CASE g # f /\ h # f
      BY <1>1, <2>1, <3>2 DEF Newborn, OneCreator
    <3> QED BY <3>1, <3>2
  <2>2. ASSUME NEW g \in Flights, flight'[g].do \in Creating, flight'[g].at = "sent"
        PROVE  row'[flight'[g].row] = "unborn"
    <3>1. CASE g = f
      BY <1>2, <2>2, <3>1
    <3>2. CASE g # f
      BY <1>1, <2>2, <3>2 DEF Newborn, OneCreator
    <3> QED BY <3>1, <3>2
  <2> QED BY <2>1, <2>2 DEF OneCreator
<1>8. Shaped'
  <2>1. ASSUME NEW g \in Flights
        PROVE  /\ flight'[g].at = "idle" => flight'[g].do = "load"
               /\ flight'[g].do = "load" => flight'[g].to = "none"
               /\ flight'[g].do = "delete" => flight'[g].to = "gone"
               /\ flight'[g].do \in Creating => flight'[g].to = "active"
    BY <1>1, <1>2 DEF Newborn, Shaped
  <2> QED BY <1>3, <2>1 DEF Newborn, Shaped
<1> QED BY <1>4, <1>5, <1>6, <1>7, <1>8 DEF Newborn

\* A load.
LEMMA ReadKeepsNewborn ==
    ASSUME RostersTypeOK, Newborn, NEW f \in Flights, NEW p \in Pages, NEW search, NEW others,
           Reads(f, p, search, others), row' = row,
           \A q \in Pages :
              /\ page'[q].list = page[q].list /\ page'[q].import = page[q].import
              /\ page'[q].form = page[q].form /\ (Style[q] # "answer" => ~ page'[q].search)
    PROVE  Newborn'
<1>1. Unseen'
  BY DEF Newborn, Unseen, Reads, Kin, Empty
<1>2. Unasked'
  BY DEF Newborn, Unasked, Reads, Kin
<1>3. Reserved'
  BY DEF Newborn, Reserved, Reads, Kin, Creating
<1>4. OneCreator'
  BY DEF Newborn, OneCreator, Reads, Kin, Creating
<1>5. Shaped'
  BY DEF Newborn, Shaped, Reads, Kin, Creating
<1> QED BY <1>1, <1>2, <1>3, <1>4, <1>5 DEF Newborn

\* A request that moves on without a write.
LEMMA MoveKeepsNewborn ==
    ASSUME RostersTypeOK, Newborn, NEW f \in Flights, NEW at, Moves(f, at), flight[f].at # "idle",
           UNCHANGED <<row, page>>, \A r \in Rows : row[r] = "unborn" => flight'[f].got[r] = "none",
           \/ at = "refused"
           \/ flight[f].do = "load" /\ at = "answered"
           \/ at = "counted" /\ flight[f].to # "active" /\ flight[f].do # "load"
    PROVE  Newborn'
<1>1. Unseen'
  BY DEF Newborn, Unseen, Moves
<1>2. Unasked'
  BY DEF Newborn, Unasked, Moves, Shaped
<1>3. Reserved'
  BY DEF Newborn, Reserved, Moves
<1>4. OneCreator'
  BY DEF Newborn, OneCreator, Moves, Creating
<1>5. Shaped'
  BY DEF Newborn, Shaped, Moves
<1> QED BY <1>1, <1>2, <1>3, <1>4, <1>5 DEF Newborn

\* A row written was born, or is born now, by its one creator.
LEMMA WriteKeepsNewborn ==
    ASSUME RostersTypeOK, Newborn, NEW f \in Flights, NEW now \in There \cup {"gone"}, Writes(f, now),
           flight[f].do # "load", flight[f].at \in {"sent", "counted"},
           row' = [row EXCEPT ![flight[f].row] = now],
           flight[f].do = "delete" => now = "gone", flight[f].do \in Creating => now = "active",
           \A q \in Pages :
              /\ page'[q].list = page[q].list /\ page'[q].import.made = page[q].import.made
              /\ page'[q].import.left = page[q].import.left /\ page'[q].search = page[q].search
              /\ page'[q].form.open = page[q].form.open /\ page'[q].form.row = page[q].form.row,
           row[flight[f].row] \in There \/ (flight[f].do \in Creating /\ row[flight[f].row] = "unborn")
    PROVE  Newborn'
<1> DEFINE r == flight[f].row
<1>1. /\ r \in Rows /\ row'[r] # "unborn" /\ \A s \in Rows \ {r} : row'[s] = row[s]
      /\ row \in [Rows -> There \cup {"unborn", "gone"}]
  BY DEF RostersTypeOK, FlightRow, There
<1>2. \A g \in Flights : /\ flight'[g].do = flight[g].do /\ flight'[g].row = flight[g].row
                         /\ flight'[g].got = flight[g].got
                         /\ g # f => flight'[g].at = flight[g].at /\ flight'[g].to = flight[g].to
  BY DEF Writes, Kin
<1>3. flight'[f].at = "answered" /\ flight'[f].to = now
  BY DEF Writes
<1>4. Unseen'
  BY <1>1, <1>2 DEF Newborn, Unseen
<1>5. Unasked'
  <2> SUFFICES ASSUME NEW g \in Flights, flight'[g].at # "idle", flight'[g].do # "load",
                      row'[flight'[g].row] = "unborn"
               PROVE  flight'[g].do \in Creating /\ flight'[g].at \in {"sent", "refused"}
    BY DEF Unasked
  <2>1. g # f /\ Kin(g)
    BY <1>1, <1>2 DEF Writes
  <2>2. flight[g].row \in Rows
    BY DEF RostersTypeOK, FlightRow
  <2>3. row[flight[g].row] = "unborn"
    BY <1>1, <2>1, <2>2 DEF Kin
  <2> QED BY <2>1, <2>3 DEF Newborn, Unasked, Kin
<1>6. Reserved'
  <2> SUFFICES ASSUME NEW p \in Pages, NEW s \in page'[p].import.left
               PROVE  /\ row'[s] = "unborn"
                      /\ \A g \in Flights : flight'[g].do \in Creating => flight'[g].row # s
                      /\ \A q \in Pages : s \in page'[q].import.left => q = p
    BY DEF Reserved
  <2>1. /\ row[s] = "unborn" /\ \A g \in Flights : flight[g].do \in Creating => flight[g].row # s
        /\ \A q \in Pages : s \in page[q].import.left => q = p
    BY DEF Newborn, Reserved
  <2>2. s # r
    BY <2>1 DEF There
  <2>3. s \in Rows
    BY DEF RostersTypeOK, PageRow, ImportRecord
  <2>4. row'[s] = "unborn"
    BY <1>1, <2>1, <2>2, <2>3
  <2> QED BY <1>2, <2>1, <2>4
<1>7. OneCreator'
  <2>1. ASSUME NEW g \in Flights, NEW h \in Flights, flight'[g].do \in Creating, flight'[h].do \in Creating,
               flight'[g].row = flight'[h].row
        PROVE  g = h
    BY <1>2, <2>1 DEF Newborn, OneCreator
  <2>2. ASSUME NEW g \in Flights, flight'[g].do \in Creating, flight'[g].at = "sent"
        PROVE  row'[flight'[g].row] = "unborn"
    <3>1. g # f /\ row[flight[g].row] = "unborn"
      BY <1>2, <1>3, <2>2 DEF Newborn, OneCreator
    <3>2. flight[g].row \in Rows
      BY DEF RostersTypeOK, FlightRow
    <3>3. flight[g].row # r
      BY <1>2, <2>2, <3>1 DEF Newborn, OneCreator, There
    <3> QED BY <1>1, <1>2, <3>1, <3>2, <3>3
  <2> QED BY <2>1, <2>2 DEF OneCreator
<1>8. Shaped'
  <2>1. ASSUME NEW g \in Flights
        PROVE  /\ flight'[g].at = "idle" => flight'[g].do = "load"
               /\ flight'[g].do = "load" => flight'[g].to = "none"
               /\ flight'[g].do = "delete" => flight'[g].to = "gone"
               /\ flight'[g].do \in Creating => flight'[g].to = "active"
    BY <1>2, <1>3 DEF Newborn, Shaped
  <2> QED BY <2>1 DEF Newborn, Shaped
<1> QED BY <1>4, <1>5, <1>6, <1>7, <1>8 DEF Newborn

\* A request is over: what the page then shows was born.
LEMMA EndKeepsNewborn ==
    ASSUME RostersTypeOK, Newborn, NEW f \in Flights, Ends(f), row' = row,
           \A q \in Pages :
              /\ page'[q].import.left = page[q].import.left /\ page'[q].search = page[q].search
              /\ page'[q].form = page[q].form
              /\ \A r \in Rows : row[r] = "unborn" =>
                    /\ page'[q].list[r] = "none"
                    /\ r \in page'[q].import.made => r \in page[q].import.made
    PROVE  Newborn'
<1>1. Unseen'
  BY DEF Newborn, Unseen, Ends, NoFlight, Empty
<1>2. Unasked'
  BY DEF Newborn, Unasked, Ends, NoFlight
<1>3. Reserved'
  BY DEF Newborn, Reserved, Ends, NoFlight, Creating
<1>4. OneCreator'
  BY DEF Newborn, OneCreator, Ends, NoFlight, Creating
<1>5. Shaped'
  BY DEF Newborn, Shaped, Ends, NoFlight, Creating
<1> QED BY <1>1, <1>2, <1>3, <1>4, <1>5 DEF Newborn

-----------------------------------------------------------------------------
(* The shapes of the steps, as the pages and the tables see them.          *)

\* Nothing happens to what page q shows, but to the rows it has left to send and to
\* its form.
SameView(q) ==
    /\ page'[q].list = page[q].list /\ page'[q].search = page[q].search
    /\ page'[q].import.open = page[q].import.open /\ page'[q].import.made = page[q].import.made
    /\ page'[q].import.late = page[q].import.late

SameWindows(q) == page'[q].import.left = page[q].import.left /\ page'[q].form = page[q].form

\* A request is sent about a row, from the button, the window or the form that asks.
Asking(f, p, do, r, to, old) ==
    /\ Sends(f, p, do, r, to, old) /\ flight[f].at = "idle" /\ row' = row
    /\ \A q \in Pages : /\ SameView(q) /\ (q # p => SameWindows(q))
                        /\ blurred'[q] = IF q = p /\ r \in Touched(p) THEN blurred[q] \cup {r} ELSE blurred[q]
    /\ \/ /\ do = "toggle" /\ Idle(p) /\ r \in Shown(p) /\ to = Flip(page[p].list[r]) /\ SameWindows(p)
       \/ /\ do = "delete" /\ Idle(p) /\ r \in Shown(p) /\ to = "gone" /\ SameWindows(p)
       \/ /\ do = "add" /\ NoModal(p) /\ r \in New(p) /\ to = "active" /\ SameWindows(p)
       \/ /\ do = "import" /\ r \in page[p].import.left /\ to = "active"
          /\ \A g \in Of(p) : flight[g].do # "import"
          /\ page'[p].import.left = page[p].import.left \ {r} /\ page'[p].form = page[p].form
       \/ /\ do = "edit" /\ page[p].form.open /\ r = page[p].form.row
          /\ \E ticked \in There : /\ to = IF Style[p] = "reload" THEN ticked ELSE "none"
                                   /\ old = (page[p].form.old \/ ticked # page[p].form.copy)
          /\ page'[p].form = NoForm /\ page'[p].import.left = page[p].import.left

\* A load is sent, from the page or after an answer.
Reading(f, p, search, others) ==
    /\ Reads(f, p, search, others) /\ row' = row /\ blurred' = blurred
    /\ flight[f].at = "idle" \/ (f \in Of(p) /\ Style[p] = "reload")
    /\ search => Style[p] = "answer"
    /\ \A g \in Of(p) \ {f} : IF flight[g].do = "load" THEN others = Rows ELSE flight[g].row \in others
    /\ \A q \in Pages : /\ page'[q].list = page[q].list /\ page'[q].import = page[q].import
                        /\ page'[q].form = page[q].form
                        /\ page'[q].search = IF q = p /\ flight[f].at = "idle" THEN search ELSE page[q].search

\* A request moves on at the server, without a write.
Moving(f, at) ==
    /\ Moves(f, at) /\ flight[f].at \in {"sent", "counted"} /\ UNCHANGED <<row, page, blurred>>
    /\ \/ at = "refused" /\ flight'[f].got = flight[f].got
       \/ at = "counted" /\ Removal(f) /\ flight'[f].got = flight[f].got
       \/ at = "answered" /\ flight[f].do = "load" /\ flight'[f].got = Table(flight[f].page, flight[f].search)

\* A write, with what becomes of the windows open on the row.
Writing(f, now) ==
    LET r == flight[f].row
        p == flight[f].page IN
    /\ Writes(f, now) /\ flight[f].do # "load"
    /\ flight[f].at = (IF Removal(f) THEN "counted" ELSE "sent")
    /\ row[r] \in There \/ (flight[f].do \in {"add", "import"} /\ row[r] = "unborn")
    /\ now = (IF flight[f].to = "none" THEN row[r] ELSE flight[f].to)
    /\ row' = [row EXCEPT ![r] = now]
    /\ \A q \in Pages :
          /\ blurred'[q] = IF q = p THEN blurred[q] ELSE blurred[q] \cup {r}
          /\ page'[q].list = page[q].list /\ page'[q].search = page[q].search
          /\ page'[q].import.open = page[q].import.open /\ page'[q].import.made = page[q].import.made
          /\ page'[q].import.left = page[q].import.left
          /\ page'[q].import.late = IF q # p /\ page[q].import.open THEN page[q].import.late \cup {r}
                                                                      ELSE page[q].import.late
          /\ page'[q].form.open = page[q].form.open /\ page'[q].form.row = page[q].form.row
          /\ page'[q].form.copy = page[q].form.copy
          /\ page'[q].form.old = (page[q].form.old \/ (page[q].form.open /\ page[q].form.row = r))

\* A request is over, heard or failed.
Ending(f) ==
    LET r == flight[f].row
        p == flight[f].page IN
    /\ Ends(f) /\ row' = row /\ flight[f].at # "idle"
    /\ \A q \in Pages \ {p} : page'[q] = page[q] /\ blurred'[q] = blurred[q]
    /\ page'[p].form = page[p].form /\ page'[p].search = page[p].search
    /\ page'[p].import.open = page[p].import.open /\ page'[p].import.left = page[p].import.left
    /\ page'[p].import.late = page[p].import.late
    /\ \/ /\ flight[f].at = "answered" /\ flight[f].do = "load" /\ page'[p].list = flight[f].got
          /\ page'[p].import.made = page[p].import.made /\ blurred'[p] = flight[f].blur
       \/ /\ flight[f].at = "answered" /\ flight[f].do = "import" /\ page'[p].list = page[p].list
          /\ page'[p].import.made = page[p].import.made \cup {r} /\ blurred'[p] = blurred[p]
       \/ /\ flight[f].at = "answered" /\ flight[f].do \notin {"load", "import"}
          /\ page'[p].list = [page[p].list EXCEPT ![r] = Follow(p, flight[f].do, r, flight[f].to)]
          /\ page'[p].import.made = page[p].import.made /\ blurred'[p] = blurred[p]
       \/ /\ page'[p].list = page[p].list /\ page'[p].import.made = page[p].import.made
          /\ blurred'[p] = blurred[p] \cup IF flight[f].do = "load" THEN Rows ELSE {r}

\* A step of a page alone.
Opening(p, r) ==
    /\ UNCHANGED <<row, flight, blurred>> /\ r \in Shown(p) /\ Idle(p)
    /\ \A q \in Pages : /\ SameView(q) /\ page'[q].import.left = page[q].import.left
                        /\ q # p => page'[q].form = page[q].form
    /\ page'[p].form = [open |-> TRUE, row |-> r, copy |-> page[p].list[r],
                        old |-> r \in blurred[p] \/ Of(p) # {}]

Listing(p, rs) ==
    /\ UNCHANGED <<row, flight, blurred>> /\ NoModal(p) /\ rs \subseteq New(p)
    /\ \A q \in Pages : /\ page'[q].list = page[q].list /\ page'[q].search = page[q].search
                        /\ page'[q].form = page[q].form
                        /\ q # p => page'[q].import = page[q].import
    /\ page'[p].import = [NoImport EXCEPT !.open = TRUE, !.left = rs]

Closing(p, told) ==
    LET made == page[p].import.made IN
    /\ UNCHANGED <<row, flight>> /\ page[p].import.open /\ page[p].import.left = {}
    /\ \A g \in Of(p) : flight[g].do # "import"
    /\ \A q \in Pages : /\ page'[q].search = page[q].search /\ page'[q].form = page[q].form
                        /\ q # p => page'[q] = page[q] /\ blurred'[q] = blurred[q]
    /\ page'[p].import = NoImport
    /\ page'[p].list = [r \in Rows |-> IF told /\ r \in made THEN "active" ELSE page[p].list[r]]
    /\ blurred'[p] = blurred[p] \cup IF told THEN made \cap (Shown(p) \cup page[p].import.late) ELSE made

Doing == {"toggle", "delete", "add", "import", "edit"}

\* The shapes there are.
Asks ==
    \E f \in Flights, p \in Pages, do \in Doing, r \in Rows, to \in There \cup {"none", "gone"},
       old \in BOOLEAN : Asking(f, p, do, r, to, old)
Reloads ==
    \E f \in Flights, p \in Pages, search \in BOOLEAN, others \in SUBSET Rows : Reading(f, p, search, others)
MovesOn == \E f \in Flights, at \in {"counted", "answered", "refused"} : Moving(f, at)
Alters == \E f \in Flights, now \in There \cup {"gone"} : Writing(f, now)
Finishes == \E f \in Flights : Ending(f)
Opens == \E p \in Pages, r \in Rows : Opening(p, r)
Files == \E p \in Pages, rs \in SUBSET Rows : Listing(p, rs)
Closes == \E p \in Pages, told \in BOOLEAN : Closing(p, told)

Shapes ==
    Asks \/ Reloads \/ MovesOn \/ Alters \/ Finishes \/ Opens \/ Files \/ Closes \/ UNCHANGED vars

\* Requests are sent in that shape.
LEMMA AskShape ==
    ASSUME RostersTypeOK, NEW f \in Flights, NEW p \in Pages, NEW r \in Rows,
           Toggle(f, p, r) \/ Delete(f, p, r) \/ Add(f, p, r) \/ ImportRow(f, p, r)
    PROVE  \E do \in Doing, to \in There \cup {"none", "gone"} : Asking(f, p, do, r, to, FALSE)
<1>1. page \in [Pages -> PageRow] /\ page[p] \in PageRow /\ blurred \in [Pages -> SUBSET Rows]
  BY DEF RostersTypeOK
<1>2. page[p].import \in ImportRecord
  BY <1>1 DEF PageRow
<1>3. ASSUME NEW do, NEW to, Ask(f, p, do, r, to, FALSE)
      PROVE  /\ Sends(f, p, do, r, to, FALSE) /\ row' = row
             /\ \A q \in Pages : blurred'[q] = IF q = p /\ r \in Touched(p) THEN blurred[q] \cup {r}
                                                                               ELSE blurred[q]
  <2>1. Sends(f, p, do, r, to, FALSE)
    BY <1>3, AskSends
  <2>2. row' = row /\ blurred' = [blurred EXCEPT ![p] = @ \cup (IF r \in Touched(p) THEN {r} ELSE {})]
    BY <1>3 DEF Ask
  <2> QED BY <1>1, <2>1, <2>2
<1>4. CASE Toggle(f, p, r)
  <2>1. Flip(page[p].list[r]) \in There
    BY DEF Flip, There
  <2>2. Asking(f, p, "toggle", r, Flip(page[p].list[r]), FALSE)
    BY <1>3, <1>4 DEF Toggle, Press, Asking, SameView, SameWindows
  <2> QED BY <2>1, <2>2 DEF Doing
<1>5. CASE Delete(f, p, r)
  <2> DEFINE d == IF Style[p] = "answer" THEN page[p].deleting \cup {r} ELSE page[p].deleting
  <2>1. page' = [page EXCEPT ![p].deleting = d]
    BY <1>5 DEF Delete
  <2> HIDE DEF d
  <2>2. \A q \in Pages : SameView(q) /\ SameWindows(q)
    BY <1>1, <2>1 DEF PageRow, SameView, SameWindows
  <2>3. Asking(f, p, "delete", r, "gone", FALSE)
    BY <1>3, <1>5, <2>2 DEF Delete, Press, Asking
  <2> QED BY <2>3 DEF Doing
<1>6. CASE Add(f, p, r)
  <2>1. Asking(f, p, "add", r, "active", FALSE)
    BY <1>3, <1>6 DEF Add, Press, Asking, SameView, SameWindows
  <2> QED BY <2>1 DEF Doing, There
<1>7. CASE ImportRow(f, p, r)
  <2>1. page' = [page EXCEPT ![p].import = [page[p].import EXCEPT !.left = @ \ {r}]]
    BY <1>7 DEF ImportRow
  <2>2. \A q \in Pages : SameView(q) /\ (q # p => SameWindows(q))
    BY <1>1, <1>2, <2>1 DEF PageRow, ImportRecord, SameView, SameWindows
  <2>3. page'[p].import.left = page[p].import.left \ {r} /\ page'[p].form = page[p].form
    BY <1>1, <1>2, <2>1 DEF PageRow, ImportRecord
  <2>4. Asking(f, p, "import", r, "active", FALSE)
    BY <1>3, <1>7, <2>2, <2>3 DEF ImportRow, Asking
  <2> QED BY <2>4 DEF Doing, There
<1> QED BY <1>4, <1>5, <1>6, <1>7

\* So is the form.
LEMMA SubmitShape ==
    ASSUME RostersTypeOK, NEW f \in Flights, NEW p \in Pages, NEW ticked \in There, Submit(f, p, ticked)
    PROVE  \E r \in Rows, to \in There \cup {"none", "gone"}, old \in BOOLEAN :
              Asking(f, p, "edit", r, to, old)
<1> DEFINE r == page[p].form.row
           to == IF Style[p] = "reload" THEN ticked ELSE "none"
           old == page[p].form.old \/ ticked # page[p].form.copy
<1>1. page \in [Pages -> PageRow] /\ page[p] \in PageRow /\ blurred \in [Pages -> SUBSET Rows]
  BY DEF RostersTypeOK
<1>2. page[p].form \in FormRow
  BY <1>1 DEF PageRow
<1>3. r \in Rows /\ to \in There \cup {"none", "gone"} /\ old \in BOOLEAN
  BY <1>2 DEF FormRow
<1>4. Ask(f, p, "edit", r, to, old)
  BY DEF Submit
<1>5. Sends(f, p, "edit", r, to, old)
  BY <1>3, <1>4, AskSends
<1>6. row' = row /\ blurred' = [blurred EXCEPT ![p] = @ \cup (IF r \in Touched(p) THEN {r} ELSE {})]
  BY <1>4 DEF Ask
<1>7. \A q \in Pages : blurred'[q] = IF q = p /\ r \in Touched(p) THEN blurred[q] \cup {r} ELSE blurred[q]
  BY <1>1, <1>6
<1>8. page' = [page EXCEPT ![p].form = NoForm]
  BY DEF Submit
<1>9. /\ \A q \in Pages : SameView(q) /\ (q # p => SameWindows(q))
      /\ page'[p].form = NoForm /\ page'[p].import.left = page[p].import.left
  BY <1>1, <1>8 DEF PageRow, SameView, SameWindows
<1>10. Asking(f, p, "edit", r, to, old)
  BY <1>5, <1>6, <1>7, <1>9 DEF Submit, Press, Asking
<1> HIDE DEF r, to, old
<1> QED BY <1>3, <1>10

\* A load of the page's own.
LEMMA LoadShape ==
    ASSUME RostersTypeOK, NEW f \in Flights, NEW p \in Pages, NEW search \in BOOLEAN, Load(f, p, search)
    PROVE  \E others \in SUBSET Rows : Reading(f, p, search, others)
<1>1. page \in [Pages -> PageRow] /\ page[p] \in PageRow
  BY DEF RostersTypeOK
<1>2. Touched(p) \in SUBSET Rows
  BY TouchedType
<1>3. Reads(f, p, search, Touched(p))
  BY LoadReads DEF Load
<1>4. flight[f].at = "idle"
  BY DEF Load, Press
<1>5. \A g \in Of(p) \ {f} : IF flight[g].do = "load" THEN Touched(p) = Rows ELSE flight[g].row \in Touched(p)
  BY DEF Touched, Loading, Of, RostersTypeOK, FlightRow
<1>6. \A q \in Pages : /\ page'[q].list = page[q].list /\ page'[q].import = page[q].import
                       /\ page'[q].form = page[q].form
                       /\ page'[q].search = IF q = p THEN search ELSE page[q].search
  BY <1>1 DEF Load, PageRow
<1>7. Reading(f, p, search, Touched(p))
  BY <1>3, <1>4, <1>5, <1>6 DEF Load, Reading
<1> QED BY <1>2, <1>7

\* An answer, followed or loaded.
LEMMA DoneShape ==
    ASSUME RostersTypeOK, NEW f \in Flights, Done(f)
    PROVE  Ending(f) \/ \E p \in Pages, others \in SUBSET Rows : Reading(f, p, FALSE, others)
<1> DEFINE p == flight[f].page
           r == flight[f].row
           others == UNION {IF flight[g].do = "load" THEN Rows ELSE {flight[g].row} : g \in Of(p) \ {f}}
<1>1. p \in Pages /\ r \in Rows /\ page \in [Pages -> PageRow] /\ page[p] \in PageRow
  BY DEF RostersTypeOK, FlightRow
<1>2. page[p].import \in ImportRecord /\ page[p].list \in [Rows -> Copy]
  BY <1>1 DEF PageRow
<1>3. flight[f].at = "answered" /\ flight[f].do # "load" /\ row' = row /\ blurred' = blurred
  BY DEF Done
<1>4. CASE Style[p] = "reload"
  <2>1. others \in SUBSET Rows
    BY OthersType DEF Of
  <2>2. \A g \in Of(p) \ {f} : IF flight[g].do = "load" THEN others = Rows ELSE flight[g].row \in others
    <3> SUFFICES ASSUME NEW g \in Of(p) \ {f}
                 PROVE  IF flight[g].do = "load" THEN others = Rows ELSE flight[g].row \in others
      OBVIOUS
    <3>1. CASE flight[g].do = "load"
      <4>1. Rows \subseteq others
        BY <3>1
      <4> HIDE DEF others
      <4> QED BY <2>1, <3>1, <4>1
    <3>2. CASE flight[g].do # "load"
      BY <3>2
    <3> QED BY <3>1, <3>2
  <2>3. /\ flight' = [g \in Flights |->
                        IF g = f THEN LoadRequest(p, FALSE, others)
                        ELSE IF g \in Loading(p) THEN [flight[g] EXCEPT !.blur = Rows]
                        ELSE flight[g]]
        /\ page' = page
    BY <1>4 DEF Done, others
  <2> HIDE DEF others
  <2>4. Reads(f, p, FALSE, others)
    BY <1>1, <2>3, LoadReads
  <2>5. f \in Of(p)
    BY <1>3 DEF Of
  <2>6. \A q \in Pages : page'[q].search = IF q = p /\ flight[f].at = "idle" THEN FALSE ELSE page[q].search
    BY <1>3, <2>3
  <2>7. Reading(f, p, FALSE, others)
    BY <1>3, <1>4, <2>2, <2>3, <2>4, <2>5, <2>6 DEF Reading
  <2> QED BY <1>1, <2>1, <2>7
<1>5. CASE Style[p] # "reload" /\ flight[f].do = "import"
  <2>1. page' = [page EXCEPT ![p].import = [page[p].import EXCEPT !.made = @ \cup {r}]] /\ Over(f)
    BY <1>5 DEF Done
  <2>2. /\ page'[p].form = page[p].form /\ page'[p].search = page[p].search
        /\ page'[p].list = page[p].list
        /\ page'[p].import.open = page[p].import.open /\ page'[p].import.left = page[p].import.left
        /\ page'[p].import.late = page[p].import.late
        /\ page'[p].import.made = page[p].import.made \cup {r}
        /\ \A q \in Pages \ {p} : page'[q] = page[q]
    BY <1>1, <1>2, <2>1 DEF PageRow, ImportRecord
  <2>3. Ends(f)
    BY <2>1, OverEnds
  <2> QED BY <1>3, <1>5, <2>2, <2>3 DEF Ending
<1>6. CASE Style[p] # "reload" /\ flight[f].do # "import"
  <2> DEFINE l == [page[p].list EXCEPT ![r] = Follow(p, flight[f].do, r, flight[f].to)]
             d == page[p].deleting \ {r}
  <2>1. page' = [page EXCEPT ![p].list = l, ![p].deleting = d] /\ Over(f)
    BY <1>6, <1>1 DEF Done, PageRow
  <2>2. /\ page'[p].form = page[p].form /\ page'[p].search = page[p].search
        /\ page'[p].list = l /\ page'[p].import = page[p].import
        /\ \A q \in Pages \ {p} : page'[q] = page[q]
    <3> HIDE DEF l, d
    <3> QED BY <1>1, <2>1 DEF PageRow
  <2>3. Ends(f)
    BY <2>1, OverEnds
  <2> QED BY <1>3, <1>6, <2>2, <2>3 DEF Ending
<1> QED BY <1>4, <1>5, <1>6

\* A table arrives.
LEMMA LoadedShape == ASSUME RostersTypeOK, NEW f \in Flights, Loaded(f) PROVE Ending(f)
<1> DEFINE p == flight[f].page
<1>1. p \in Pages /\ page \in [Pages -> PageRow] /\ page[p] \in PageRow /\ blurred \in [Pages -> SUBSET Rows]
  BY DEF RostersTypeOK, FlightRow
<1>2. page' = [page EXCEPT ![p].list = flight[f].got, ![p].loading = FALSE]
      /\ blurred' = [blurred EXCEPT ![p] = flight[f].blur] /\ Over(f)
  BY DEF Loaded
<1>3. /\ page'[p].form = page[p].form /\ page'[p].search = page[p].search
      /\ page'[p].list = flight[f].got /\ page'[p].import = page[p].import
      /\ \A q \in Pages \ {p} : page'[q] = page[q]
  BY <1>1, <1>2 DEF PageRow
<1>4. blurred'[p] = flight[f].blur /\ \A q \in Pages \ {p} : blurred'[q] = blurred[q]
  BY <1>1, <1>2
<1>5. Ends(f)
  BY <1>2, OverEnds
<1> QED BY <1>3, <1>4, <1>5 DEF Loaded, Ending

\* A request fails.
LEMMA FailedShape ==
    ASSUME RostersTypeOK, NEW f \in Flights, Failed(f), flight[f].at # "idle" PROVE Ending(f)
<1> DEFINE p == flight[f].page
           o == page[p].loading /\ flight[f].do # "load"
           d == page[p].deleting \ {flight[f].row}
           b == IF flight[f].do = "load" THEN Rows ELSE {flight[f].row}
<1>1. p \in Pages /\ page \in [Pages -> PageRow] /\ page[p] \in PageRow /\ blurred \in [Pages -> SUBSET Rows]
  BY DEF RostersTypeOK, FlightRow
<1>2. page' = [page EXCEPT ![p].loading = o, ![p].deleting = d]
      /\ blurred' = [blurred EXCEPT ![p] = @ \cup b] /\ Over(f)
  BY DEF Failed
<1>3. /\ page'[p].form = page[p].form /\ page'[p].search = page[p].search
      /\ page'[p].list = page[p].list /\ page'[p].import = page[p].import
      /\ \A q \in Pages \ {p} : page'[q] = page[q]
  <2> HIDE DEF o, d
  <2> QED BY <1>1, <1>2 DEF PageRow
<1>4. blurred'[p] = blurred[p] \cup b /\ \A q \in Pages \ {p} : blurred'[q] = blurred[q]
  <2> HIDE DEF b
  <2> QED BY <1>1, <1>2
<1>5. Ends(f)
  BY <1>2, OverEnds
<1>6. row' = row
  BY DEF Failed
<1> QED BY <1>3, <1>4, <1>5, <1>6 DEF Ending

\* A refusal, a count, a list.
LEMMA MoveShape ==
    ASSUME RostersTypeOK, NEW f \in Flights, Count(f) \/ List(f) \/ (Apply(f) /\ Refuse(f))
    PROVE  \E at \in {"counted", "answered", "refused"} : Moving(f, at)
<1>1. flight[f].at \in {"sent", "counted"}
  BY DEF Count, List, Apply
<1>2. CASE Refuse(f)
  <2>1. Moves(f, "refused") /\ flight'[f].got = flight[f].got
    BY <1>2, RefuseMoves DEF Refuse
  <2>2. Moving(f, "refused")
    BY <1>1, <1>2, <2>1 DEF Moving, Refuse
  <2> QED BY <2>2
<1>3. CASE Count(f) /\ ~ Refuse(f)
  <2>1. flight' = [flight EXCEPT ![f].at = "counted"] /\ Removal(f) /\ UNCHANGED <<row, page, blurred>>
    BY <1>3 DEF Count
  <2>2. Moves(f, "counted") /\ flight'[f].got = flight[f].got
    BY <2>1, RefuseMoves
  <2>3. Moving(f, "counted")
    BY <1>1, <2>1, <2>2 DEF Moving
  <2> QED BY <2>3
<1>4. CASE List(f) /\ ~ Refuse(f)
  <2> DEFINE t == Table(flight[f].page, flight[f].search)
  <2>1. flight' = [flight EXCEPT ![f].at = "answered", ![f].got = t]
        /\ flight[f].do = "load" /\ UNCHANGED <<row, page, blurred>>
    BY <1>4 DEF List
  <2> HIDE DEF t
  <2>2. Moves(f, "answered") /\ flight'[f].got = t
    BY <2>1, ListMoves
  <2>3. Moving(f, "answered")
    BY <1>1, <2>1, <2>2 DEF Moving, t
  <2> QED BY <2>3
<1> QED BY <1>2, <1>3, <1>4

\* A write that goes through.
LEMMA WriteShape ==
    ASSUME RostersTypeOK, NEW f \in Flights, Apply(f), Write(f)
    PROVE  \E now \in There \cup {"gone"} : Writing(f, now)
<1> DEFINE r == flight[f].row
           p == flight[f].page
           now == IF flight[f].to = "none" THEN row[r] ELSE flight[f].to
<1>1. flight[f] \in FlightRow /\ Goal(flight[f]) /\ r \in Rows /\ p \in Pages
  BY DEF RostersTypeOK, FlightRow
<1>2. row[r] \in There \/ (flight[f].do \in {"add", "import"} /\ row[r] = "unborn")
  <2>1. ~ Refuse(f)
    <3>1. flight'[f].at = "answered"
      BY WriteWrites DEF Writes
    <3> QED BY <3>1, RefuseMoves DEF Refuse, Moves
  <2> QED BY <2>1 DEF Apply
<1>3. now \in There \cup {"gone"}
  BY <1>1, <1>2 DEF FlightRow, Goal, Copy, There
<1>4. Writes(f, now)
  BY WriteWrites
<1>5. \A q \in Pages :
        /\ blurred'[q] = IF q = p THEN blurred[q] ELSE blurred[q] \cup {r}
        /\ page'[q].list = page[q].list /\ page'[q].search = page[q].search
        /\ page'[q].import.open = page[q].import.open /\ page'[q].import.made = page[q].import.made
        /\ page'[q].import.left = page[q].import.left
        /\ page'[q].import.late = IF q # p /\ page[q].import.open THEN page[q].import.late \cup {r}
                                                                    ELSE page[q].import.late
        /\ page'[q].form.open = page[q].form.open /\ page'[q].form.row = page[q].form.row
        /\ page'[q].form.copy = page[q].form.copy
        /\ page'[q].form.old = (page[q].form.old \/ (page[q].form.open /\ page[q].form.row = r))
  <2> TAKE q \in Pages
  <2> DEFINE b == page[q].form.old \/ (page[q].form.open /\ page[q].form.row = r)
             l == IF q # p /\ page[q].import.open THEN page[q].import.late \cup {r}
                                                   ELSE page[q].import.late
  <2>1. page[q] \in PageRow
    BY DEF RostersTypeOK
  <2>2. page[q].form \in FormRow /\ page[q].import \in ImportRecord
    BY <2>1 DEF PageRow
  <2>3. page'[q] = [page[q] EXCEPT !.form = [page[q].form EXCEPT !.old = b],
                                   !.import = [page[q].import EXCEPT !.late = l]]
    BY DEF Write
  <2>4. blurred'[q] = IF q = p THEN blurred[q] ELSE blurred[q] \cup {r}
    BY DEF Write
  <2>5. /\ page'[q].list = page[q].list /\ page'[q].search = page[q].search
        /\ page'[q].import.open = page[q].import.open /\ page'[q].import.made = page[q].import.made
        /\ page'[q].import.left = page[q].import.left /\ page'[q].import.late = l
        /\ page'[q].form.open = page[q].form.open /\ page'[q].form.row = page[q].form.row
        /\ page'[q].form.copy = page[q].form.copy /\ page'[q].form.old = b
    <3> HIDE DEF b, l
    <3> QED BY <2>1, <2>2, <2>3 DEF PageRow, FormRow, ImportRecord
  <2> QED BY <2>4, <2>5
<1>6. row' = [row EXCEPT ![r] = now]
  BY DEF Write
<1>7. flight[f].do # "load" /\ flight[f].at = (IF Removal(f) THEN "counted" ELSE "sent")
  BY DEF Apply
<1> HIDE DEF now
<1>8. Writing(f, now)
  BY <1>2, <1>4, <1>5, <1>6, <1>7 DEF Writing, now
<1> QED BY <1>3, <1>8

\* The pages' own steps.
LEMMA PageShape ==
    ASSUME RostersTypeOK, NEW p \in Pages
    PROVE  /\ \A r \in Rows : OpenForm(p, r) => Opening(p, r)
           /\ \A rs \in SUBSET Rows : Import(p, rs) => Listing(p, rs)
           /\ \A told \in BOOLEAN : CloseImport(p, told) => Closing(p, told)
<1>1. page \in [Pages -> PageRow] /\ blurred \in [Pages -> SUBSET Rows]
  BY DEF RostersTypeOK
<1>2. ASSUME NEW r \in Rows, OpenForm(p, r) PROVE Opening(p, r)
  <2> DEFINE fm == [open |-> TRUE, row |-> r, copy |-> page[p].list[r], old |-> r \in blurred[p] \/ Of(p) # {}]
  <2>1. page' = [page EXCEPT ![p].form = fm]
    BY <1>2 DEF OpenForm
  <2>2. /\ \A q \in Pages : /\ SameView(q) /\ page'[q].import.left = page[q].import.left
                            /\ q # p => page'[q].form = page[q].form
        /\ page'[p].form = fm
    <3> HIDE DEF fm
    <3> QED BY <1>1, <2>1 DEF PageRow, SameView
  <2> QED BY <1>2, <2>2 DEF OpenForm, Opening
<1>3. ASSUME NEW rs \in SUBSET Rows, Import(p, rs) PROVE Listing(p, rs)
  <2> DEFINE i == [NoImport EXCEPT !.open = TRUE, !.left = rs]
  <2>1. page' = [page EXCEPT ![p].import = i]
    BY <1>3 DEF Import
  <2>2. /\ \A q \in Pages : /\ page'[q].list = page[q].list /\ page'[q].search = page[q].search
                            /\ page'[q].form = page[q].form
                            /\ q # p => page'[q].import = page[q].import
        /\ page'[p].import = i
    <3> HIDE DEF i
    <3> QED BY <1>1, <2>1 DEF PageRow
  <2> QED BY <1>3, <2>2 DEF Import, Listing
<1>4. ASSUME NEW told \in BOOLEAN, CloseImport(p, told) PROVE Closing(p, told)
  <2> DEFINE l == [r \in Rows |-> IF told /\ r \in page[p].import.made THEN "active" ELSE page[p].list[r]]
             b == IF told THEN page[p].import.made \cap (Shown(p) \cup page[p].import.late)
                          ELSE page[p].import.made
  <2>1. page' = [page EXCEPT ![p].import = NoImport, ![p].list = l]
        /\ blurred' = [blurred EXCEPT ![p] = @ \cup b]
    BY <1>4 DEF CloseImport
  <2>2. /\ \A q \in Pages : /\ page'[q].search = page[q].search /\ page'[q].form = page[q].form
                            /\ q # p => page'[q] = page[q] /\ blurred'[q] = blurred[q]
        /\ page'[p].import = NoImport /\ page'[p].list = l /\ blurred'[p] = blurred[p] \cup b
    <3> HIDE DEF l, b
    <3> QED BY <1>1, <2>1 DEF PageRow
  <2> QED BY <1>4, <2>2 DEF CloseImport, Closing
<1> QED BY <1>2, <1>3, <1>4

\* Every step has one of the shapes.
LEMMA StepShapes == ASSUME RostersTypeOK, [Next]_vars PROVE Shapes
<1>1. CASE Next
  <2>1. PICK f \in Flights :
           \/ \E p \in Pages :
                 \/ \E search \in BOOLEAN : Load(f, p, search)
                 \/ \E r \in Rows : Toggle(f, p, r) \/ Delete(f, p, r) \/ Add(f, p, r) \/ OpenForm(p, r)
                 \/ \E ticked \in There : Submit(f, p, ticked)
                 \/ \E rs \in SUBSET Rows : Import(p, rs)
                 \/ \E r \in Rows : ImportRow(f, p, r)
                 \/ \E told \in BOOLEAN : CloseImport(p, told)
           \/ Serve(f) \/ Hear(f) \/ Lose(f)
    BY <1>1 DEF Next
  <2>2. CASE Serve(f)
    <3>1. CASE Count(f) \/ List(f) \/ (Apply(f) /\ Refuse(f))
      <4>1. \E at \in {"counted", "answered", "refused"} : Moving(f, at)
        BY <3>1, MoveShape
      <4> QED BY <4>1 DEF Shapes, Asks, Reloads, MovesOn, Alters, Finishes, Opens, Files, Closes
    <3>2. CASE Apply(f) /\ Write(f)
      <4>1. \E now \in There \cup {"gone"} : Writing(f, now)
        BY <3>2, WriteShape
      <4> QED BY <4>1 DEF Shapes, Asks, Reloads, MovesOn, Alters, Finishes, Opens, Files, Closes
    <3> QED BY <2>2, <3>1, <3>2 DEF Serve, Apply
  <2>3. CASE Loaded(f) \/ Refused(f) \/ Lose(f)
    <3>1. Ending(f)
      BY <2>3, LoadedShape, FailedShape DEF Refused, Lose
    <3> QED BY <3>1 DEF Shapes, Asks, Reloads, MovesOn, Alters, Finishes, Opens, Files, Closes
  <2>4. CASE Done(f)
    <3>1. Ending(f) \/ \E p \in Pages, others \in SUBSET Rows : Reading(f, p, FALSE, others)
      BY <2>4, DoneShape
    <3> QED BY <3>1 DEF Shapes, Asks, Reloads, MovesOn, Alters, Finishes, Opens, Files, Closes
  <2>5. ASSUME NEW p \in Pages, NEW search \in BOOLEAN, Load(f, p, search) PROVE Shapes
    <3>1. \E others \in SUBSET Rows : Reading(f, p, search, others)
      BY <2>5, LoadShape
    <3> QED BY <3>1 DEF Shapes, Asks, Reloads, MovesOn, Alters, Finishes, Opens, Files, Closes
  <2>6. ASSUME NEW p \in Pages, NEW r \in Rows,
               Toggle(f, p, r) \/ Delete(f, p, r) \/ Add(f, p, r) \/ ImportRow(f, p, r)
        PROVE  Shapes
    <3>1. \E do \in Doing, to \in There \cup {"none", "gone"} : Asking(f, p, do, r, to, FALSE)
      BY <2>6, AskShape
    <3> QED BY <3>1 DEF Shapes, Asks, Reloads, MovesOn, Alters, Finishes, Opens, Files, Closes
  <2>7. ASSUME NEW p \in Pages, NEW ticked \in There, Submit(f, p, ticked) PROVE Shapes
    <3>1. \E r \in Rows, to \in There \cup {"none", "gone"}, old \in BOOLEAN : Asking(f, p, "edit", r, to, old)
      BY <2>7, SubmitShape
    <3>2. "edit" \in Doing
      BY DEF Doing
    <3> QED BY <3>1, <3>2 DEF Shapes, Asks, Reloads, MovesOn, Alters, Finishes, Opens, Files, Closes
  <2>8. ASSUME NEW p \in Pages, NEW r \in Rows, OpenForm(p, r) PROVE Shapes
    <3>1. Opening(p, r)
      BY <2>8, PageShape
    <3> QED BY <3>1 DEF Shapes, Asks, Reloads, MovesOn, Alters, Finishes, Opens, Files, Closes
  <2>9. ASSUME NEW p \in Pages, NEW rs \in SUBSET Rows, Import(p, rs) PROVE Shapes
    <3>1. Listing(p, rs)
      BY <2>9, PageShape
    <3> QED BY <3>1 DEF Shapes, Asks, Reloads, MovesOn, Alters, Finishes, Opens, Files, Closes
  <2>10. ASSUME NEW p \in Pages, NEW told \in BOOLEAN, CloseImport(p, told) PROVE Shapes
    <3>1. Closing(p, told)
      BY <2>10, PageShape
    <3> QED BY <3>1 DEF Shapes, Asks, Reloads, MovesOn, Alters, Finishes, Opens, Files, Closes
  <2> QED BY <2>1, <2>2, <2>3, <2>4, <2>5, <2>6, <2>7, <2>8, <2>9, <2>10 DEF Hear
<1>2. CASE UNCHANGED vars
  BY <1>2 DEF Shapes, Asks, Reloads, MovesOn, Alters, Finishes, Opens, Files, Closes
<1> QED BY <1>1, <1>2

\* Every step keeps the rows not born yet unknown.
LEMMA NextKeepsNewborn == ASSUME RostersTypeOK, Newborn, [Next]_vars PROVE Newborn'
<1>1. ASSUME NEW f \in Flights, NEW p \in Pages, NEW do \in Doing, NEW r \in Rows,
             NEW to \in There \cup {"none", "gone"}, NEW old \in BOOLEAN, Asking(f, p, do, r, to, old)
      PROVE  Newborn'
  <2>1. PagesKeep
    <3>1. NoForm.open = FALSE
      BY DEF NoForm
    <3> QED BY <1>1, <3>1 DEF Asking, PagesKeep, SameView, SameWindows
  <2>2. Sends(f, p, do, r, to, old) /\ row' = row
    BY <1>1 DEF Asking
  <2>3. do = "delete" => to = "gone"
    BY <1>1 DEF Asking
  <2>4. do \in Creating => to = "active"
    BY <1>1 DEF Asking, Creating
  <2>5. CASE do \in Creating
    <3>1. CASE do = "add"
      <4>1. r \in New(p)
        BY <1>1, <3>1 DEF Asking
      <4>2. \A q \in Pages : page'[q].import.left \subseteq page[q].import.left
        BY <2>1 DEF PagesKeep
      <4>3. /\ row[r] = "unborn" /\ \A g \in Flights : flight[g].do \in Creating => flight[g].row # r
            /\ \A q \in Pages : r \notin page'[q].import.left
        BY <4>1, <4>2 DEF New, Creating
      <4> QED BY <2>1, <2>2, <2>4, <2>5, <3>1, <4>3, AskKeepsNewborn
    <3>2. CASE do = "import"
      <4>1. r \in page[p].import.left /\ page'[p].import.left = page[p].import.left \ {r}
        BY <1>1, <3>2 DEF Asking
      <4>2. /\ row[r] = "unborn" /\ \A g \in Flights : flight[g].do \in Creating => flight[g].row # r
            /\ \A q \in Pages : r \in page[q].import.left => q = p
        BY <4>1 DEF Newborn, Reserved
      <4>3. \A q \in Pages : page'[q].import.left \subseteq page[q].import.left
        BY <2>1 DEF PagesKeep
      <4>4. \A q \in Pages : r \notin page'[q].import.left
        BY <4>1, <4>2, <4>3
      <4> QED BY <2>1, <2>2, <2>4, <2>5, <3>2, <4>2, <4>4, AskKeepsNewborn
    <3> QED BY <2>5, <3>1, <3>2 DEF Creating
  <2>6. CASE do \notin Creating
    <3>1. row[r] # "unborn"
      BY <1>1, <2>6 DEF Asking, Creating, Shown, Newborn, Unseen
    <3> QED BY <2>1, <2>2, <2>3, <2>6, <3>1, AskKeepsNewborn DEF Doing
  <2> QED BY <2>5, <2>6
<1>2. ASSUME NEW f \in Flights, NEW p \in Pages, NEW search \in BOOLEAN, NEW others \in SUBSET Rows,
             Reading(f, p, search, others)
      PROVE  Newborn'
  <2>1. \A q \in Pages : Style[q] # "answer" => ~ page'[q].search
    BY <1>2 DEF Reading, Newborn, Shaped
  <2> QED BY <1>2, <2>1, ReadKeepsNewborn DEF Reading
<1>3. ASSUME NEW f \in Flights, NEW at \in {"counted", "answered", "refused"}, Moving(f, at) PROVE Newborn'
  <2>1. \A r \in Rows : row[r] = "unborn" => flight'[f].got[r] = "none"
    BY <1>3 DEF Moving, Newborn, Unseen, Table, There
  <2>2. at = "counted" => flight[f].to # "active" /\ flight[f].do # "load"
    BY <1>3 DEF Moving, Removal, Newborn, Shaped
  <2>3. Moves(f, at) /\ flight[f].at # "idle" /\ UNCHANGED <<row, page>>
    BY <1>3 DEF Moving
  <2>4. \/ at = "refused"
        \/ flight[f].do = "load" /\ at = "answered"
        \/ at = "counted" /\ flight[f].to # "active" /\ flight[f].do # "load"
    BY <1>3, <2>2 DEF Moving
  <2> QED BY <2>1, <2>3, <2>4, MoveKeepsNewborn
<1>4. ASSUME NEW f \in Flights, NEW now \in There \cup {"gone"}, Writing(f, now) PROVE Newborn'
  <2>1. flight[f].do = "delete" => now = "gone"
    BY <1>4 DEF Writing, Newborn, Shaped
  <2>2. flight[f].do \in Creating => now = "active"
    BY <1>4 DEF Writing, Newborn, Shaped
  <2>3. flight[f].at \in {"sent", "counted"}
    BY <1>4 DEF Writing
  <2>4. /\ Writes(f, now) /\ flight[f].do # "load" /\ row' = [row EXCEPT ![flight[f].row] = now]
        /\ \A q \in Pages :
              /\ page'[q].list = page[q].list /\ page'[q].import.made = page[q].import.made
              /\ page'[q].import.left = page[q].import.left /\ page'[q].search = page[q].search
              /\ page'[q].form.open = page[q].form.open /\ page'[q].form.row = page[q].form.row
        /\ row[flight[f].row] \in There \/ (flight[f].do \in Creating /\ row[flight[f].row] = "unborn")
    BY <1>4 DEF Writing, Creating
  <2> QED BY <2>1, <2>2, <2>3, <2>4, WriteKeepsNewborn
<1>5. ASSUME NEW f \in Flights, Ending(f) PROVE Newborn'
  <2> DEFINE p == flight[f].page
             r == flight[f].row
  <2>1. p \in Pages /\ r \in Rows /\ page[p].list \in [Rows -> Copy]
    BY DEF RostersTypeOK, FlightRow, PageRow
  <2>2. flight[f].at = "answered" /\ flight[f].do # "load" => row[r] # "unborn"
    BY DEF Newborn, Unasked
  <2>3. \A s \in Rows : row[s] = "unborn" =>
           /\ page'[p].list[s] = "none"
           /\ s \in page'[p].import.made => s \in page[p].import.made
    <3> SUFFICES ASSUME NEW s \in Rows, row[s] = "unborn"
                 PROVE  /\ page'[p].list[s] = "none"
                        /\ s \in page'[p].import.made => s \in page[p].import.made
      OBVIOUS
    <3>1. page[p].list[s] = "none" /\ flight[f].got[s] = "none"
      BY <2>1 DEF Newborn, Unseen
    <3>2. flight[f].at = "answered" /\ flight[f].do # "load" => s # r
      BY <2>2
    <3> QED BY <1>5, <2>1, <3>1, <3>2 DEF Ending
  <2>4. \A q \in Pages \ {p} : page'[q] = page[q]
    BY <1>5 DEF Ending
  <2>5. \A q \in Pages :
           /\ page'[q].import.left = page[q].import.left /\ page'[q].search = page[q].search
           /\ page'[q].form = page[q].form
           /\ \A s \in Rows : row[s] = "unborn" =>
                 /\ page'[q].list[s] = "none"
                 /\ s \in page'[q].import.made => s \in page[q].import.made
    <3>1. /\ page'[p].import.left = page[p].import.left /\ page'[p].search = page[p].search
          /\ page'[p].form = page[p].form
      BY <1>5 DEF Ending
    <3> QED BY <2>3, <2>4, <3>1 DEF Newborn, Unseen
  <2> QED BY <1>5, <2>5, EndKeepsNewborn DEF Ending
<1>6. ASSUME NEW p \in Pages, NEW r \in Rows, Opening(p, r) PROVE Newborn'
  <2>1. row[r] # "unborn"
    BY <1>6 DEF Opening, Shown, Newborn, Unseen
  <2>2. \A q \in Pages : \/ page'[q].form.row = page[q].form.row /\ page'[q].form.open = page[q].form.open
                         \/ page'[q].form.row = r
    BY <1>6 DEF Opening
  <2>3. UNCHANGED <<row, flight>> /\ \A q \in Pages : SameView(q) /\ page'[q].import.left = page[q].import.left
    BY <1>6 DEF Opening
  <2>4. Unseen'
    BY <2>1, <2>2, <2>3 DEF Newborn, Unseen, SameView
  <2> QED BY <2>3, <2>4 DEF Newborn, Unasked, Reserved, OneCreator, Shaped, SameView
<1>7. ASSUME NEW p \in Pages, NEW rs \in SUBSET Rows, Listing(p, rs) PROVE Newborn'
  <2>1. UNCHANGED <<row, flight>>
    BY <1>7 DEF Listing
  <2>2. \A q \in Pages : /\ page'[q].list = page[q].list /\ page'[q].search = page[q].search
                         /\ page'[q].form = page[q].form
                         /\ q # p => page'[q].import = page[q].import
    BY <1>7 DEF Listing
  <2>3. page'[p].import.made = {} /\ page'[p].import.left = rs
    BY <1>7 DEF Listing, NoImport
  <2>4. \A s \in rs : /\ row[s] = "unborn" /\ \A g \in Flights : flight[g].do \in Creating => flight[g].row # s
                      /\ \A q \in Pages : s \notin page[q].import.left
    BY <1>7 DEF Listing, New, Creating
  <2>5. Unseen'
    <3>1. \A q \in Pages : page'[q].import.made \subseteq page[q].import.made
      BY <2>2, <2>3
    <3> QED BY <2>1, <2>2, <3>1 DEF Newborn, Unseen
  <2>6. Reserved'
    <3> SUFFICES ASSUME NEW q \in Pages, NEW s \in page'[q].import.left
                 PROVE  /\ row[s] = "unborn"
                        /\ \A g \in Flights : flight[g].do \in Creating => flight[g].row # s
                        /\ \A q2 \in Pages : s \in page'[q2].import.left => q2 = q
      BY <2>1 DEF Reserved
    <3>1. CASE q = p
      BY <2>2, <2>3, <2>4, <3>1
    <3>2. CASE q # p
      <4>1. s \in page[q].import.left
        BY <2>2, <3>2
      <4>2. s \notin rs
        BY <2>4, <4>1
      <4> QED BY <2>2, <2>3, <4>1, <4>2, <3>2 DEF Newborn, Reserved
    <3> QED BY <3>1, <3>2
  <2> QED BY <2>1, <2>2, <2>5, <2>6 DEF Newborn, Unasked, OneCreator, Shaped
<1>8. ASSUME NEW p \in Pages, NEW told \in BOOLEAN, Closing(p, told) PROVE Newborn'
  <2>1. UNCHANGED <<row, flight>>
    BY <1>8 DEF Closing
  <2>2. \A q \in Pages : page'[q].import.left \subseteq page[q].import.left
                         /\ page'[q].import.made \subseteq page[q].import.made
    BY <1>8 DEF Closing, NoImport
  <2>3. \A q \in Pages : page'[q].search = page[q].search /\ page'[q].form = page[q].form
    BY <1>8 DEF Closing
  <2>4. \A q \in Pages, s \in Rows : row[s] = "unborn" => page'[q].list[s] = "none"
    <3>1. \A s \in Rows : row[s] = "unborn" => s \notin page[p].import.made
      BY DEF Newborn, Unseen
    <3> QED BY <1>8, <3>1 DEF Closing, Newborn, Unseen
  <2>5. Unseen'
    BY <2>1, <2>2, <2>3, <2>4 DEF Newborn, Unseen
  <2>6. Reserved'
    BY <2>1, <2>2 DEF Newborn, Reserved
  <2> QED BY <2>1, <2>3, <2>5, <2>6 DEF Newborn, Unasked, OneCreator, Shaped
<1>9. CASE UNCHANGED vars
  BY <1>9 DEF vars, Newborn, Unseen, Unasked, Reserved, OneCreator, Shaped
<1>10. Shapes
  BY StepShapes
<1> HIDE DEF Newborn
<1>11. (Asks => Newborn') /\ (Reloads => Newborn') /\ (MovesOn => Newborn') /\ (Alters => Newborn')
  BY <1>1, <1>2, <1>3, <1>4 DEF Asks, Reloads, MovesOn, Alters
<1>12. (Finishes => Newborn') /\ (Opens => Newborn') /\ (Files => Newborn') /\ (Closes => Newborn')
  BY <1>5, <1>6, <1>7, <1>8 DEF Finishes, Opens, Files, Closes
<1> QED BY <1>9, <1>10, <1>11, <1>12 DEF Shapes

-----------------------------------------------------------------------------
(* Imports: a row made is listed right when the window closes.             *)

\* Request g of page p is about row r.
About(g, p, r) ==
    flight[g].at # "idle" /\ flight[g].page = p /\ flight[g].do # "load" /\ flight[g].row = r

\* A page has one window open; an import is sent from an open one.
Windows ==
    /\ \A p \in Pages : /\ ~ page[p].import.open => page[p].import.made = {} /\ page[p].import.left = {}
                        /\ page[p].form.open => ~ page[p].import.open
    /\ \A f \in Flights : flight[f].do = "import" => page[flight[f].page].import.open

\* A row created is active, or was written at another page since.
Fresh(p, r) == row[r] = "active" \/ r \in page[p].import.late

\* Nothing else is asked about it until the window closes.
Uploaded(f) ==
    flight[f].do = "import" /\ flight[f].at = "answered" =>
        /\ Fresh(flight[f].page, flight[f].row)
        /\ \A g \in Flights : About(g, flight[f].page, flight[f].row) => g = f

Uploads ==
    /\ \A p \in Pages : \A r \in page[p].import.made :
          Fresh(p, r) /\ \A g \in Flights : ~ About(g, p, r)
    /\ \A f \in Flights : Uploaded(f)

\* Every step keeps one window open at most.
LEMMA NextKeepsWindows == ASSUME RostersTypeOK, Newborn, Windows, [Next]_vars PROVE Windows'
<1>1. ASSUME NEW f \in Flights, NEW p \in Pages, NEW do \in Doing, NEW r \in Rows,
             NEW to \in There \cup {"none", "gone"}, NEW old \in BOOLEAN, Asking(f, p, do, r, to, old)
      PROVE  Windows'
  <2>1. \A q \in Pages : /\ page'[q].import.open = page[q].import.open
                         /\ page'[q].import.made = page[q].import.made
                         /\ page'[q].import.left \subseteq page[q].import.left
                         /\ page'[q].form.open => page[q].form.open
    BY <1>1 DEF Asking, SameView, SameWindows, NoForm
  <2>2. /\ flight'[f].do = do /\ flight'[f].page = p
        /\ \A g \in Flights \ {f} : flight'[g].do = flight[g].do /\ flight'[g].page = flight[g].page
    BY <1>1 DEF Asking, Sends, Kin
  <2>3. do = "import" => page[p].import.open
    BY <1>1 DEF Asking, Windows
  <2>4. \A g \in Flights : flight[g].page \in Pages
    BY DEF RostersTypeOK, FlightRow
  <2> QED BY <2>1, <2>2, <2>3, <2>4 DEF Windows
<1>2. ASSUME NEW f \in Flights, NEW p \in Pages, NEW search \in BOOLEAN, NEW others \in SUBSET Rows,
             Reading(f, p, search, others)
      PROVE  Windows'
  <2>1. \A q \in Pages : page'[q].import = page[q].import /\ page'[q].form = page[q].form
    BY <1>2 DEF Reading
  <2>2. /\ flight'[f].do = "load"
        /\ \A g \in Flights \ {f} : flight'[g].do = flight[g].do /\ flight'[g].page = flight[g].page
    BY <1>2 DEF Reading, Reads, Kin
  <2>3. \A g \in Flights : flight[g].page \in Pages
    BY DEF RostersTypeOK, FlightRow
  <2> QED BY <2>1, <2>2, <2>3 DEF Windows
<1>3. ASSUME NEW f \in Flights, NEW at \in {"counted", "answered", "refused"}, Moving(f, at) PROVE Windows'
  <2>1. page' = page /\ \A g \in Flights : flight'[g].do = flight[g].do /\ flight'[g].page = flight[g].page
    BY <1>3 DEF Moving, Moves
  <2> QED BY <2>1 DEF Windows
<1>4. ASSUME NEW f \in Flights, NEW now \in There \cup {"gone"}, Writing(f, now) PROVE Windows'
  <2>1. \A q \in Pages : /\ page'[q].import.open = page[q].import.open
                         /\ page'[q].import.made = page[q].import.made
                         /\ page'[q].import.left = page[q].import.left
                         /\ page'[q].form.open = page[q].form.open
    BY <1>4 DEF Writing
  <2>2. \A g \in Flights : flight'[g].do = flight[g].do /\ flight'[g].page = flight[g].page
    BY <1>4 DEF Writing, Writes, Kin
  <2>3. \A g \in Flights : flight[g].page \in Pages
    BY DEF RostersTypeOK, FlightRow
  <2> QED BY <2>1, <2>2, <2>3 DEF Windows
<1>5. ASSUME NEW f \in Flights, Ending(f) PROVE Windows'
  <2> DEFINE p == flight[f].page
  <2>1. \A q \in Pages \ {p} : page'[q] = page[q]
    BY <1>5 DEF Ending
  <2>2. /\ page'[p].form = page[p].form /\ page'[p].import.open = page[p].import.open
        /\ page'[p].import.left = page[p].import.left
    BY <1>5 DEF Ending
  <2>3. page'[p].import.made = page[p].import.made \/ flight[f].do = "import"
    BY <1>5 DEF Ending
  <2>4. /\ flight'[f].do = "load" /\ \A g \in Flights \ {f} : flight'[g] = flight[g]
    BY <1>5 DEF Ending, Ends, NoFlight
  <2>5. \A g \in Flights : flight[g].page \in Pages
    BY DEF RostersTypeOK, FlightRow
  <2>6. \A q \in Pages : /\ page'[q].import.open = page[q].import.open
                         /\ page'[q].import.left = page[q].import.left
                         /\ page'[q].form.open = page[q].form.open
                         /\ page'[q].import.made = page[q].import.made \/ page[q].import.open
    BY <2>1, <2>2, <2>3 DEF Windows
  <2> QED BY <2>4, <2>5, <2>6 DEF Windows
<1>6. ASSUME NEW p \in Pages, NEW r \in Rows, Opening(p, r) PROVE Windows'
  <2>1. /\ flight' = flight /\ ~ page[p].import.open
        /\ \A q \in Pages : /\ page'[q].import.open = page[q].import.open
                            /\ page'[q].import.made = page[q].import.made
                            /\ page'[q].import.left = page[q].import.left
                            /\ q # p => page'[q].form = page[q].form
    BY <1>6 DEF Opening, SameView, Idle, NoModal
  <2>2. \A g \in Flights : flight[g].page \in Pages
    BY DEF RostersTypeOK, FlightRow
  <2> QED BY <2>1, <2>2 DEF Windows
<1>7. ASSUME NEW p \in Pages, NEW rs \in SUBSET Rows, Listing(p, rs) PROVE Windows'
  <2>1. /\ flight' = flight /\ ~ page[p].form.open /\ page'[p].import.open
        /\ \A q \in Pages : /\ page'[q].form = page[q].form
                            /\ q # p => page'[q].import = page[q].import
    BY <1>7 DEF Listing, NoModal, NoImport
  <2>2. \A g \in Flights : flight[g].page \in Pages
    BY DEF RostersTypeOK, FlightRow
  <2> QED BY <2>1, <2>2 DEF Windows
<1>8. ASSUME NEW p \in Pages, NEW told \in BOOLEAN, Closing(p, told) PROVE Windows'
  <2>1. /\ flight' = flight /\ page'[p].import = NoImport
        /\ \A q \in Pages : /\ page'[q].form = page[q].form
                            /\ q # p => page'[q] = page[q]
    BY <1>8 DEF Closing
  <2>2. \A g \in Flights : flight[g].do = "import" => flight[g].page \in Pages \ {p}
    BY <1>8 DEF Closing, Of, Newborn, Shaped, RostersTypeOK, FlightRow
  <2> QED BY <2>1, <2>2 DEF Windows, NoImport
<1>9. CASE UNCHANGED vars
  BY <1>9 DEF vars, Windows
<1>10. Shapes
  BY StepShapes
<1> HIDE DEF Windows
<1>11. (Asks => Windows') /\ (Reloads => Windows') /\ (MovesOn => Windows') /\ (Alters => Windows')
  BY <1>1, <1>2, <1>3, <1>4 DEF Asks, Reloads, MovesOn, Alters
<1>12. (Finishes => Windows') /\ (Opens => Windows') /\ (Files => Windows') /\ (Closes => Windows')
  BY <1>5, <1>6, <1>7, <1>8 DEF Finishes, Opens, Files, Closes
<1> QED BY <1>9, <1>10, <1>11, <1>12 DEF Shapes

\* Every step leaves the rows created to the import that creates them.
LEMMA NextKeepsUploads == ASSUME RostersTypeOK, Newborn, Windows, Uploads, [Next]_vars PROVE Uploads'
<1> USE DEF Fresh
<1>1. ASSUME NEW f \in Flights, NEW p \in Pages, NEW do \in Doing, NEW r \in Rows,
             NEW to \in There \cup {"none", "gone"}, NEW old \in BOOLEAN, Asking(f, p, do, r, to, old)
      PROVE  Uploads'
  <2>1. row' = row /\ \A q \in Pages : /\ page'[q].import.made = page[q].import.made
                                       /\ page'[q].import.late = page[q].import.late
    BY <1>1 DEF Asking, SameView
  <2>2. flight'[f].at = "sent" /\ flight'[f].page = p /\ flight'[f].row = r
    BY <1>1 DEF Asking, Sends
  <2>3. \A g \in Flights \ {f} :
           /\ flight'[g].at = flight[g].at /\ flight'[g].do = flight[g].do
           /\ flight'[g].page = flight[g].page /\ flight'[g].row = flight[g].row
           /\ flight[g].page \in Pages /\ flight[g].row \in Rows
    BY <1>1 DEF Asking, Sends, Kin, RostersTypeOK, FlightRow
  <2>4. ~ NoModal(p) /\ do # "edit" => do = "import" /\ r \in page[p].import.left
    BY <1>1 DEF Asking, Idle
  <2>5. r \notin page[p].import.made
    <3>1. CASE do = "edit" \/ NoModal(p)
      BY <1>1, <3>1 DEF Asking, Windows, NoModal
    <3>2. CASE r \in page[p].import.left
      BY <3>2 DEF Newborn, Reserved, Unseen
    <3> QED BY <2>4, <3>1, <3>2
  <2>6. \A g \in Flights \ {f} : flight[g].do = "import" /\ flight[g].page = p => flight[g].row # r
    <3>1. CASE do = "edit" \/ NoModal(p)
      BY <1>1, <3>1 DEF Asking, Windows, NoModal
    <3>2. CASE r \in page[p].import.left
      BY <3>2 DEF Newborn, Reserved, Creating
    <3> QED BY <2>4, <3>1, <3>2
  <2>7. \A q \in Pages : \A s \in page'[q].import.made :
           Fresh(q, s)' /\ \A g \in Flights : ~ About(g, q, s)'
    <3> SUFFICES ASSUME NEW q \in Pages, NEW s \in page[q].import.made
                 PROVE  Fresh(q, s)' /\ \A g \in Flights : ~ About(g, q, s)'
      BY <2>1
    <3>1. Fresh(q, s) /\ \A g \in Flights : ~ About(g, q, s)
      BY DEF Uploads
    <3>2. ~ About(f, q, s)'
      BY <2>2, <2>5 DEF About
    <3>3. \A g \in Flights \ {f} : ~ About(g, q, s)'
      BY <2>3, <3>1 DEF About
    <3> QED BY <2>1, <3>1, <3>2, <3>3
  <2>8. ASSUME NEW h \in Flights PROVE Uploaded(h)'
    <3> SUFFICES ASSUME flight'[h].do = "import", flight'[h].at = "answered" PROVE Uploaded(h)'
      BY DEF Uploaded
    <3>1. h # f
      BY <2>2
    <3>2. /\ Fresh(flight[h].page, flight[h].row)
          /\ \A g \in Flights : About(g, flight[h].page, flight[h].row) => g = h
      BY <2>3, <3>1 DEF Uploads, Uploaded
    <3>3. flight[h].page # p \/ flight[h].row # r
      BY <2>3, <2>6, <3>1
    <3> QED BY <2>1, <2>2, <2>3, <3>1, <3>2, <3>3 DEF About, Uploaded
  <2> QED BY <2>7, <2>8 DEF Uploads
<1>2. ASSUME NEW f \in Flights, NEW p \in Pages, NEW search \in BOOLEAN, NEW others \in SUBSET Rows,
             Reading(f, p, search, others)
      PROVE  Uploads'
  <2>1. row' = row /\ \A q \in Pages : page'[q].import = page[q].import
    BY <1>2 DEF Reading
  <2>2. flight'[f].do = "load"
    BY <1>2 DEF Reading, Reads
  <2>3. \A g \in Flights \ {f} :
           /\ flight'[g].at = flight[g].at /\ flight'[g].do = flight[g].do
           /\ flight'[g].page = flight[g].page /\ flight'[g].row = flight[g].row /\ flight[g].page \in Pages
    BY <1>2 DEF Reading, Reads, Kin, RostersTypeOK, FlightRow
  <2> QED BY <2>1, <2>2, <2>3 DEF Uploads, Uploaded, About
<1>3. ASSUME NEW f \in Flights, NEW at \in {"counted", "answered", "refused"}, Moving(f, at) PROVE Uploads'
  <2>1. UNCHANGED <<row, page>>
    BY <1>3 DEF Moving
  <2>2. \A g \in Flights : /\ flight'[g].do = flight[g].do /\ flight'[g].page = flight[g].page
                           /\ flight'[g].row = flight[g].row
                           /\ flight'[g].at # "idle" => flight[g].at # "idle"
                           /\ flight'[g].at = "answered" /\ flight[g].do # "load" => flight[g].at = "answered"
    BY <1>3 DEF Moving, Moves
  <2> QED BY <2>1, <2>2 DEF Uploads, Uploaded, About
<1>4. ASSUME NEW f \in Flights, NEW now \in There \cup {"gone"}, Writing(f, now) PROVE Uploads'
  <2> DEFINE r == flight[f].row
             p == flight[f].page
  <2>1. r \in Rows /\ p \in Pages /\ \A g \in Flights : flight[g].page \in Pages /\ flight[g].row \in Rows
    BY DEF RostersTypeOK, FlightRow
  <2>2. /\ \A s \in Rows \ {r} : row'[s] = row[s]
        /\ row'[r] = now
    BY <1>4, <2>1 DEF Writing, RostersTypeOK
  <2>3. \A g \in Flights : /\ flight'[g].do = flight[g].do /\ flight'[g].page = flight[g].page
                           /\ flight'[g].row = flight[g].row
                           /\ g # f => flight'[g].at = flight[g].at
    BY <1>4 DEF Writing, Writes, Kin
  <2>4. About(f, p, r) /\ flight[f].at # "answered"
    BY <1>4 DEF Writing, About
  <2>5. flight'[f].at = "answered"
    BY <1>4 DEF Writing, Writes
  <2>6. \A q \in Pages, s \in Rows, g \in Flights : About(g, q, s)' => About(g, q, s)
    BY <2>3, <2>4 DEF About
  <2>7. \A q \in Pages : /\ page'[q].import.made = page[q].import.made
                         /\ page[q].import.late \subseteq page'[q].import.late
                         /\ q # p /\ page[q].import.open => r \in page'[q].import.late
    <3>1. \A q \in Pages : /\ page'[q].import.made = page[q].import.made
                           /\ page'[q].import.late = IF q # p /\ page[q].import.open
                                                      THEN page[q].import.late \cup {r}
                                                      ELSE page[q].import.late
      BY <1>4 DEF Writing
    <3> QED BY <3>1
  <2>8. \A q \in Pages, s \in Rows : Fresh(q, s) /\ page[q].import.open /\ ~ (q = p /\ s = r) => Fresh(q, s)'
    BY <2>2, <2>7
  <2>9. \A q \in Pages : \A s \in page'[q].import.made :
           Fresh(q, s)' /\ \A g \in Flights : ~ About(g, q, s)'
    <3> SUFFICES ASSUME NEW q \in Pages, NEW s \in page[q].import.made
                 PROVE  Fresh(q, s)' /\ \A g \in Flights : ~ About(g, q, s)'
      BY <2>7
    <3>1. Fresh(q, s) /\ \A g \in Flights : ~ About(g, q, s)
      BY DEF Uploads
    <3>2. page[q].import.open /\ s \in Rows
      BY DEF Windows, RostersTypeOK, PageRow, ImportRecord
    <3>3. ~ (q = p /\ s = r)
      BY <2>4, <3>1
    <3> QED BY <2>6, <2>8, <3>1, <3>2, <3>3
  <2>10. ASSUME NEW h \in Flights PROVE Uploaded(h)'
    <3> SUFFICES ASSUME flight[h].do = "import", flight'[h].at = "answered" PROVE Uploaded(h)'
      BY <2>3 DEF Uploaded
    <3> DEFINE q == flight[h].page
               s == flight[h].row
    <3>1. flight'[h].page = q /\ flight'[h].row = s /\ q \in Pages /\ s \in Rows
      BY <2>1, <2>3
    <3>2. CASE h = f
      <4>1. now = "active"
        BY <1>4, <3>2 DEF Writing, Newborn, Shaped, Creating
      <4>2. row[r] = "unborn"
        BY <1>4, <2>4, <3>2 DEF Writing, Newborn, OneCreator, Shaped, Creating, Removal
      <4>3. \A g \in Flights : About(g, p, r) => flight[g].do \in Creating
        BY <4>2 DEF About, Newborn, Unasked
      <4>4. \A g \in Flights : About(g, p, r) => g = f
        BY <3>2, <4>3 DEF About, Newborn, OneCreator, Creating
      <4>5. row'[s] = "active"
        BY <2>2, <3>2, <4>1
      <4>6. \A g \in Flights : About(g, q, s)' => g = h
        <5>1. \A g \in Flights :
                 flight'[g].at # "idle" /\ flight'[g].page = p /\ flight'[g].do # "load" /\ flight'[g].row = r
                    => g = f
          BY <2>3, <4>4 DEF About
        <5> QED BY <3>1, <3>2, <5>1 DEF About
      <4> QED BY <3>1, <4>5, <4>6 DEF Uploaded, About
    <3>3. CASE h # f
      <4>1. Fresh(q, s) /\ \A g \in Flights : About(g, q, s) => g = h
        BY <2>3, <3>3 DEF Uploads, Uploaded
      <4>2. ~ (q = p /\ s = r)
        BY <2>4, <3>3, <4>1
      <4>3. page[q].import.open
        BY DEF Windows
      <4>4. row'[s] = "active" \/ s \in page'[q].import.late
        BY <2>2, <2>7, <3>1, <4>1, <4>2, <4>3
      <4>5. \A g \in Flights :
               flight'[g].at # "idle" /\ flight'[g].page = q /\ flight'[g].do # "load" /\ flight'[g].row = s
                  => g = h
        <5>1. q = p => s # r
          BY <4>2
        <5>2. f # h => ~ (flight[f].page = q /\ flight[f].row = s)
          BY <4>2
        <5> QED BY <2>3, <3>3, <4>1, <5>2 DEF About
      <4> QED BY <3>1, <4>4, <4>5 DEF Uploaded, About
    <3> QED BY <3>2, <3>3
  <2> QED BY <2>9, <2>10 DEF Uploads
<1>5. ASSUME NEW f \in Flights, Ending(f) PROVE Uploads'
  <2> DEFINE p == flight[f].page
             r == flight[f].row
  <2>1. \A g \in Flights : flight[g].page \in Pages /\ flight[g].row \in Rows
    BY DEF RostersTypeOK, FlightRow
  <2>2. row' = row /\ \A q \in Pages : page'[q].import.late = page[q].import.late
    BY <1>5 DEF Ending
  <2>3. flight'[f].at = "idle" /\ flight'[f].do = "load" /\ \A g \in Flights \ {f} : flight'[g] = flight[g]
    BY <1>5 DEF Ending, Ends, NoFlight
  <2>4. \A q \in Pages : \A s \in page'[q].import.made :
           s \in page[q].import.made \/ (q = p /\ s = r /\ flight[f].do = "import" /\ flight[f].at = "answered")
    BY <1>5 DEF Ending
  <2>5. \A q \in Pages : \A s \in page'[q].import.made :
           Fresh(q, s) /\ \A g \in Flights \ {f} : ~ About(g, q, s)
    BY <2>4 DEF Uploads, Uploaded
  <2>6. ASSUME NEW q \in Pages, NEW s \in page'[q].import.made
        PROVE  Fresh(q, s)' /\ \A g \in Flights : ~ About(g, q, s)'
    <3>1. Fresh(q, s) /\ \A g \in Flights \ {f} : ~ About(g, q, s)
      BY <2>5
    <3>2. \A g \in Flights : ~ About(g, q, s)'
      BY <2>3, <3>1 DEF About
    <3>3. Fresh(q, s)'
      BY <2>2, <3>1
    <3> QED BY <3>2, <3>3
  <2>7. ASSUME NEW h \in Flights PROVE Uploaded(h)'
    BY <2>1, <2>2, <2>3 DEF Uploads, Uploaded, About
  <2> QED BY <2>6, <2>7 DEF Uploads
<1>6. ASSUME NEW p \in Pages, NEW r \in Rows, Opening(p, r) PROVE Uploads'
  <2>1. UNCHANGED <<row, flight>> /\ \A q \in Pages : SameView(q)
    BY <1>6 DEF Opening
  <2>2. \A g \in Flights : flight[g].page \in Pages
    BY DEF RostersTypeOK, FlightRow
  <2> QED BY <2>1, <2>2 DEF Uploads, Uploaded, About, SameView
<1>7. ASSUME NEW p \in Pages, NEW rs \in SUBSET Rows, Listing(p, rs) PROVE Uploads'
  <2>1. UNCHANGED <<row, flight>> /\ ~ page[p].import.open /\ page'[p].import.made = {}
        /\ \A q \in Pages \ {p} : page'[q].import = page[q].import
    BY <1>7 DEF Listing, NoModal, NoImport
  <2>2. \A g \in Flights : flight[g].page \in Pages
    BY DEF RostersTypeOK, FlightRow
  <2>3. \A g \in Flights : flight[g].do = "import" => flight[g].page # p
    BY <2>1 DEF Windows
  <2> QED BY <2>1, <2>2, <2>3 DEF Uploads, Uploaded, About
<1>8. ASSUME NEW p \in Pages, NEW told \in BOOLEAN, Closing(p, told) PROVE Uploads'
  <2>1. UNCHANGED <<row, flight>> /\ page'[p].import.made = {}
        /\ \A q \in Pages \ {p} : page'[q].import = page[q].import
    BY <1>8 DEF Closing, NoImport
  <2>2. \A g \in Flights : flight[g].do = "import" => flight[g].page \in Pages \ {p}
    BY <1>8 DEF Closing, Of, Newborn, Shaped, RostersTypeOK, FlightRow
  <2> QED BY <2>1, <2>2 DEF Uploads, Uploaded, About
<1>9. CASE UNCHANGED vars
  BY <1>9 DEF vars, Uploads, Uploaded, About
<1>10. Shapes
  BY StepShapes
<1> HIDE DEF Uploads
<1>11. (Asks => Uploads') /\ (Reloads => Uploads') /\ (MovesOn => Uploads') /\ (Alters => Uploads')
  BY <1>1, <1>2, <1>3, <1>4 DEF Asks, Reloads, MovesOn, Alters
<1>12. (Finishes => Uploads') /\ (Opens => Uploads') /\ (Files => Uploads') /\ (Closes => Uploads')
  BY <1>5, <1>6, <1>7, <1>8 DEF Finishes, Opens, Files, Closes
<1> QED BY <1>9, <1>10, <1>11, <1>12 DEF Shapes

-----------------------------------------------------------------------------
(* A load brings the table, but for the rows it may have missed.           *)

Seen(r) == IF row[r] \in There THEN row[r] ELSE "none"

\* What a page whose search is search should show of row r.
Due(p, search, r) == IF r \in Matching(p, search) THEN Seen(r) ELSE "none"

\* A load tells the truth of row r: it is the page's only load, nothing else is asked
\* about the row, and it carries the row if it was read.
Current(f, r) ==
    /\ \A g \in Flights : flight[g].at # "idle" /\ flight[g].do = "load"
                          /\ flight[g].page = flight[f].page => g = f
    /\ \A g \in Flights : ~ About(g, flight[f].page, r)
    /\ flight[f].search = page[flight[f].page].search
    /\ flight[f].at = "answered" => flight[f].got[r] = Due(flight[f].page, flight[f].search, r)

LoadsAgree ==
    \A f \in Flights : flight[f].at # "idle" /\ flight[f].do = "load" =>
        \A r \in Rows \ flight[f].blur : Current(f, r)

\* A load that stays, beside requests that say nothing more of the row.
LEMMA StaysCurrent ==
    ASSUME RostersTypeOK, NEW f \in Flights, NEW r \in Rows, Current(f, r), flight'[f] = flight[f] \/ Kin(f),
           Seen(r)' = Seen(r), page'[flight[f].page].search = page[flight[f].page].search,
           \A g \in Flights :
              flight'[g].at # "idle" /\ flight'[g].page = flight[f].page
              /\ (flight'[g].do = "load" \/ flight'[g].row = r)
              => /\ flight[g].at # "idle" /\ flight[g].page = flight[f].page
                 /\ flight[g].do = flight'[g].do /\ flight[g].row = flight'[g].row
    PROVE  Current(f, r)'
<1> DEFINE p == flight[f].page
<1>1. /\ flight'[f].page = p /\ flight'[f].search = flight[f].search /\ flight'[f].at = flight[f].at
      /\ flight'[f].got = flight[f].got
  BY DEF Kin
<1>2. Due(flight[f].page, flight[f].search, r)' = Due(p, flight[f].search, r)
  BY <1>1 DEF Due, Matching, Listed
<1>3. flight'[f].at = "answered" => flight'[f].got[r] = Due(p, flight[f].search, r)
  BY <1>1 DEF Current
<1>4. \A g \in Flights : flight'[g].at # "idle" /\ flight'[g].do = "load" /\ flight'[g].page = p => g = f
  BY DEF Current
<1>5. \A g \in Flights : ~ (flight'[g].at # "idle" /\ flight'[g].page = p /\ flight'[g].do # "load"
                            /\ flight'[g].row = r)
  BY DEF Current, About
<1>6. flight'[f].search = page'[p].search
  BY <1>1 DEF Current
<1> QED BY <1>1, <1>2, <1>3, <1>4, <1>5, <1>6 DEF Current, About

\* Every step leaves the loads true, of the rows they do not blur.
LEMMA NextKeepsLoads == ASSUME RostersTypeOK, Newborn, LoadsAgree, [Next]_vars PROVE LoadsAgree'
<1>1. ASSUME NEW g \in Flights, NEW p \in Pages, NEW do \in Doing, NEW s \in Rows,
             NEW to \in There \cup {"none", "gone"}, NEW old \in BOOLEAN, Asking(g, p, do, s, to, old)
      PROVE  LoadsAgree'
  <2> SUFFICES ASSUME NEW f \in Flights, flight'[f].at # "idle", flight'[f].do = "load",
                      NEW r \in Rows \ flight'[f].blur
               PROVE  Current(f, r)'
    BY DEF LoadsAgree
  <2>1. flight'[g].at = "sent" /\ flight'[g].do = do /\ flight'[g].page = p /\ flight'[g].row = s
    BY <1>1 DEF Asking, Sends
  <2>2. \A h \in Flights \ {g} :
           Kin(h) /\ flight'[h].blur = IF h \in Loading(p) THEN flight[h].blur \cup {s} ELSE flight[h].blur
    BY <1>1 DEF Asking, Sends
  <2>3. f # g /\ do # "load"
    BY <2>1 DEF Doing
  <2>4. Kin(f) /\ flight[f].at # "idle" /\ flight[f].do = "load" /\ r \notin flight[f].blur
    BY <2>2, <2>3 DEF Kin
  <2>5. Current(f, r)
    BY <2>4 DEF LoadsAgree
  <2>6. flight[f].page = p => r # s
    BY <2>2, <2>3, <2>4 DEF Loading, Of
  <2>7. Seen(r)' = Seen(r)
    BY <1>1 DEF Asking, Seen
  <2>8. flight[f].page \in Pages
    BY DEF RostersTypeOK, FlightRow
  <2>9. page'[flight[f].page].search = page[flight[f].page].search
    BY <1>1, <2>8 DEF Asking, SameView
  <2>10. \A h \in Flights :
            flight'[h].at # "idle" /\ flight'[h].page = flight[f].page
            /\ (flight'[h].do = "load" \/ flight'[h].row = r)
            => /\ flight[h].at # "idle" /\ flight[h].page = flight[f].page
               /\ flight[h].do = flight'[h].do /\ flight[h].row = flight'[h].row
    <3>1. ~ (flight'[g].page = flight[f].page /\ (flight'[g].do = "load" \/ flight'[g].row = r))
      BY <2>1, <2>3, <2>6
    <3> QED BY <2>2, <3>1 DEF Kin
  <2> QED BY <2>4, <2>5, <2>7, <2>9, <2>10, StaysCurrent
<1>2. ASSUME NEW g \in Flights, NEW p \in Pages, NEW search \in BOOLEAN, NEW others \in SUBSET Rows,
             Reading(g, p, search, others)
      PROVE  LoadsAgree'
  <2> SUFFICES ASSUME NEW f \in Flights, flight'[f].at # "idle", flight'[f].do = "load",
                      NEW r \in Rows \ flight'[f].blur
               PROVE  Current(f, r)'
    BY DEF LoadsAgree
  <2>1. /\ flight'[g].at = "sent" /\ flight'[g].do = "load" /\ flight'[g].page = p
        /\ flight'[g].search = search /\ flight'[g].blur = others
    BY <1>2 DEF Reading, Reads
  <2>2. \A h \in Flights \ {g} :
           Kin(h) /\ flight'[h].blur = IF h \in Loading(p) THEN Rows ELSE flight[h].blur
    BY <1>2 DEF Reading, Reads
  <2>3. \A h \in Of(p) \ {g} : IF flight[h].do = "load" THEN others = Rows ELSE flight[h].row \in others
    BY <1>2 DEF Reading
  <2>4. CASE f = g
    <3>1. page'[p].search = search
      <4>1. CASE flight[g].at = "idle"
        BY <1>2, <4>1 DEF Reading
      <4>2. CASE flight[g].at # "idle"
        <5>1. Style[p] = "reload" /\ page'[p].search = page[p].search /\ ~ search
          BY <1>2, <4>2 DEF Reading
        <5>2. ~ page[p].search /\ page[p].search \in BOOLEAN
          BY <5>1 DEF Newborn, Shaped, RostersTypeOK, PageRow
        <5> QED BY <5>1, <5>2
      <4> QED BY <4>1, <4>2
    <3>2. \A h \in Flights \ {g} : ~ (flight'[h].at # "idle" /\ flight'[h].page = p /\ flight'[h].do = "load")
      BY <2>1, <2>2, <2>3, <2>4 DEF Kin, Of
    <3>3. \A h \in Flights \ {g} : ~ (flight'[h].at # "idle" /\ flight'[h].page = p /\ flight'[h].row = r)
      BY <2>1, <2>2, <2>3, <2>4 DEF Kin, Of
    <3> QED BY <2>1, <2>4, <3>1, <3>2, <3>3 DEF Current, About
  <2>5. CASE f # g
    <3>1. Kin(f) /\ flight[f].at # "idle" /\ flight[f].do = "load" /\ flight[f].page \in Pages
      BY <2>2, <2>5 DEF Kin, RostersTypeOK, FlightRow
    <3>2. flight[f].page # p /\ r \notin flight[f].blur
      BY <2>2, <2>5, <3>1 DEF Loading, Of
    <3>3. Current(f, r)
      BY <3>1, <3>2 DEF LoadsAgree
    <3>4. Seen(r)' = Seen(r) /\ page'[flight[f].page].search = page[flight[f].page].search
      BY <1>2, <3>1, <3>2 DEF Reading, Seen
    <3>5. \A h \in Flights :
             flight'[h].at # "idle" /\ flight'[h].page = flight[f].page
             /\ (flight'[h].do = "load" \/ flight'[h].row = r)
             => /\ flight[h].at # "idle" /\ flight[h].page = flight[f].page
                /\ flight[h].do = flight'[h].do /\ flight[h].row = flight'[h].row
      BY <2>1, <2>2, <3>2 DEF Kin
    <3> QED BY <3>1, <3>3, <3>4, <3>5, StaysCurrent
  <2> QED BY <2>4, <2>5
<1>3. ASSUME NEW g \in Flights, NEW at \in {"counted", "answered", "refused"}, Moving(g, at)
      PROVE  LoadsAgree'
  <2> SUFFICES ASSUME NEW f \in Flights, flight'[f].at # "idle", flight'[f].do = "load",
                      NEW r \in Rows \ flight'[f].blur
               PROVE  Current(f, r)'
    BY DEF LoadsAgree
  <2>1. /\ flight'[g].at = at /\ flight'[g].do = flight[g].do /\ flight'[g].page = flight[g].page
        /\ flight'[g].row = flight[g].row /\ flight'[g].search = flight[g].search
        /\ flight'[g].blur = flight[g].blur /\ flight[g].at # "idle"
        /\ \A h \in Flights \ {g} : flight'[h] = flight[h]
    BY <1>3 DEF Moving, Moves
  <2>2. flight[f].at # "idle" /\ flight[f].do = "load" /\ r \notin flight[f].blur
    BY <2>1
  <2>3. Current(f, r)
    BY <2>2 DEF LoadsAgree
  <2>4. row' = row /\ page' = page
    BY <1>3 DEF Moving
  <2>5. CASE f # g
    <3>1. Seen(r)' = Seen(r)
      BY <2>4 DEF Seen
    <3>2. \A h \in Flights :
             flight'[h].at # "idle" /\ flight'[h].page = flight[f].page
             /\ (flight'[h].do = "load" \/ flight'[h].row = r)
             => /\ flight[h].at # "idle" /\ flight[h].page = flight[f].page
                /\ flight[h].do = flight'[h].do /\ flight[h].row = flight'[h].row
      BY <2>1
    <3> QED BY <2>1, <2>3, <2>4, <2>5, <3>1, <3>2, StaysCurrent
  <2>6. CASE f = g
    <3>1. at = "answered" => flight'[f].got[r] = Due(flight[f].page, flight[f].search, r)
      BY <1>3, <2>6 DEF Moving, Table, Due, Seen
    <3>2. Due(flight[f].page, flight[f].search, r)' = Due(flight[f].page, flight[f].search, r)
      BY <2>1, <2>4, <2>6 DEF Due, Matching, Listed, Seen
    <3>3. flight'[f].at = "answered" => at = "answered"
      BY <2>1, <2>6
    <3>4. /\ flight'[f].page = flight[f].page /\ flight'[f].search = flight[f].search
          /\ \A h \in Flights : /\ flight'[h].page = flight[h].page /\ flight'[h].do = flight[h].do
                                /\ flight'[h].row = flight[h].row
                                /\ flight'[h].at # "idle" => flight[h].at # "idle"
      BY <2>1, <2>6
    <3>5. \A h \in Flights : flight'[h].at # "idle" /\ flight'[h].do = "load"
                             /\ flight'[h].page = flight'[f].page => h = f
      BY <2>3, <3>4 DEF Current
    <3>6. \A h \in Flights : ~ (flight'[h].at # "idle" /\ flight'[h].page = flight'[f].page
                                /\ flight'[h].do # "load" /\ flight'[h].row = r)
      BY <2>3, <3>4 DEF Current, About
    <3>7. flight'[f].search = page'[flight'[f].page].search
      BY <2>3, <2>4, <3>4 DEF Current
    <3> QED BY <3>1, <3>2, <3>3, <3>5, <3>6, <3>7 DEF Current, About
  <2> QED BY <2>5, <2>6
<1>4. ASSUME NEW g \in Flights, NEW now \in There \cup {"gone"}, Writing(g, now) PROVE LoadsAgree'
  <2> SUFFICES ASSUME NEW f \in Flights, flight'[f].at # "idle", flight'[f].do = "load",
                      NEW r \in Rows \ flight'[f].blur
               PROVE  Current(f, r)'
    BY DEF LoadsAgree
  <2>1. /\ flight'[g].do = flight[g].do /\ flight'[g].page = flight[g].page
        /\ flight'[g].row = flight[g].row /\ flight[g].at # "idle" /\ flight[g].do # "load"
    BY <1>4 DEF Writing, Writes
  <2>2. \A h \in Flights \ {g} :
           /\ Kin(h)
           /\ flight'[h].blur = IF flight[h].page # flight[g].page /\ h \in Loading(flight[h].page)
                                THEN flight[h].blur \cup {flight[g].row} ELSE flight[h].blur
    BY <1>4 DEF Writing, Writes
  <2>3. f # g
    BY <2>1
  <2>4. Kin(f) /\ flight[f].at # "idle" /\ flight[f].do = "load" /\ r \notin flight[f].blur
    BY <2>2, <2>3 DEF Kin
  <2>5. Current(f, r)
    BY <2>4 DEF LoadsAgree
  <2>6. r # flight[g].row
    <3>1. CASE flight[f].page = flight[g].page
      BY <2>1, <2>5, <3>1 DEF Current, About
    <3>2. CASE flight[f].page # flight[g].page
      BY <2>2, <2>3, <2>4, <3>2 DEF Loading, Of
    <3> QED BY <3>1, <3>2
  <2>7. Seen(r)' = Seen(r)
    <3>1. row'[r] = row[r]
      BY <1>4, <2>6 DEF Writing, RostersTypeOK
    <3> QED BY <3>1 DEF Seen
  <2>8. flight[f].page \in Pages
    BY DEF RostersTypeOK, FlightRow
  <2>9. page'[flight[f].page].search = page[flight[f].page].search
    BY <1>4, <2>8 DEF Writing
  <2>10. \A h \in Flights :
            flight'[h].at # "idle" /\ flight'[h].page = flight[f].page
            /\ (flight'[h].do = "load" \/ flight'[h].row = r)
            => /\ flight[h].at # "idle" /\ flight[h].page = flight[f].page
               /\ flight[h].do = flight'[h].do /\ flight[h].row = flight'[h].row
    BY <2>1, <2>2 DEF Kin
  <2> QED BY <2>4, <2>5, <2>7, <2>9, <2>10, StaysCurrent
<1>5. ASSUME NEW g \in Flights, Ending(g) PROVE LoadsAgree'
  <2> SUFFICES ASSUME NEW f \in Flights, flight'[f].at # "idle", flight'[f].do = "load",
                      NEW r \in Rows \ flight'[f].blur
               PROVE  Current(f, r)'
    BY DEF LoadsAgree
  <2>1. flight'[g].at = "idle" /\ \A h \in Flights \ {g} : flight'[h] = flight[h]
    BY <1>5 DEF Ending, Ends, NoFlight
  <2>2. f # g
    BY <2>1
  <2>3. Current(f, r) /\ flight[f].page \in Pages
    BY <2>1, <2>2 DEF LoadsAgree, RostersTypeOK, FlightRow
  <2>4. Seen(r)' = Seen(r)
    BY <1>5 DEF Ending, Seen
  <2>5. page'[flight[f].page].search = page[flight[f].page].search
    BY <1>5, <2>3 DEF Ending
  <2>6. \A h \in Flights :
            flight'[h].at # "idle" /\ flight'[h].page = flight[f].page
            /\ (flight'[h].do = "load" \/ flight'[h].row = r)
            => /\ flight[h].at # "idle" /\ flight[h].page = flight[f].page
               /\ flight[h].do = flight'[h].do /\ flight[h].row = flight'[h].row
    BY <2>1
  <2> QED BY <2>1, <2>2, <2>3, <2>4, <2>5, <2>6, StaysCurrent
<1>6. ASSUME UNCHANGED <<row, flight>>, \A q \in Pages : page'[q].search = page[q].search
      PROVE  LoadsAgree'
  <2> SUFFICES ASSUME NEW f \in Flights, flight'[f].at # "idle", flight'[f].do = "load",
                      NEW r \in Rows \ flight'[f].blur
               PROVE  Current(f, r)'
    BY DEF LoadsAgree
  <2>1. Current(f, r) /\ flight[f].page \in Pages
    BY <1>6 DEF LoadsAgree, RostersTypeOK, FlightRow
  <2>2. Seen(r)' = Seen(r)
    BY <1>6 DEF Seen
  <2> QED BY <1>6, <2>1, <2>2, StaysCurrent
<1>7. Shapes
  BY StepShapes
<1> HIDE DEF LoadsAgree
<1>8. (Asks => LoadsAgree') /\ (Reloads => LoadsAgree') /\ (MovesOn => LoadsAgree')
      /\ (Alters => LoadsAgree') /\ (Finishes => LoadsAgree')
  BY <1>1, <1>2, <1>3, <1>4, <1>5 DEF Asks, Reloads, MovesOn, Alters, Finishes
<1>9. Opens \/ Files \/ Closes \/ UNCHANGED vars =>
         UNCHANGED <<row, flight>> /\ \A q \in Pages : page'[q].search = page[q].search
  BY DEF Opens, Files, Closes, Opening, Listing, Closing, SameView, vars
<1> QED BY <1>6, <1>7, <1>8, <1>9 DEF Shapes

-----------------------------------------------------------------------------
(* A page that waits for no load shows its table, or will when its requests *)
(* are answered.                                                           *)

NoLoad(p) == \A g \in Flights : ~ (flight[g].at # "idle" /\ flight[g].do = "load" /\ flight[g].page = p)

\* The row is listed as it is, or a search leaves it out.
Right(p, r) ==
    \/ page[p].list[r] = Seen(r)
    \/ r \notin Matching(p, page[p].search) /\ page[p].list[r] = "none"

\* The page is right about the row, or will be once it follows the answer to f.
Followed(f, p, r) ==
    LET do == flight[f].do
        to == flight[f].to
        old == page[p].list[r] IN
    /\ flight[f].at # "answered" => Right(p, r)
    /\ do = "toggle" => old # "none" /\ to = Flip(old)
    /\ flight[f].at = "answered" =>
          /\ do = "delete" => Seen(r) = "none"
          /\ do \in {"add", "toggle", "edit"} => Seen(r) = to
          /\ do = "edit" => old # "none" \/ r \notin Matching(p, page[p].search)

Tells(p, r) ==
    /\ \A f, g \in Flights : About(f, p, r) /\ About(g, p, r) => f = g
    /\ \A f \in Flights : About(f, p, r) => Followed(f, p, r)
    /\ (\A f \in Flights : ~ About(f, p, r)) /\ r \notin page[p].import.made => Right(p, r)

ListsAgree == \A p \in Pages : NoLoad(p) => \A r \in Rows \ blurred[p] : Tells(p, r)

\* Nothing happened to the row, its copy or the requests about it.
LEMMA StaysTold ==
    ASSUME NEW p \in Pages, NEW r \in Rows, Tells(p, r), Seen(r)' = Seen(r),
           page'[p].list[r] = page[p].list[r], page'[p].search = page[p].search,
           r \in page[p].import.made => r \in page'[p].import.made,
           \A h \in Flights :
              /\ About(h, p, r)' <=> About(h, p, r)
              /\ About(h, p, r) => /\ flight'[h].do = flight[h].do /\ flight'[h].to = flight[h].to
                                   /\ flight'[h].at = "answered" <=> flight[h].at = "answered"
    PROVE  Tells(p, r)'
<1>1. Right(p, r)' <=> Right(p, r)
  BY DEF Right, Matching, Listed
<1>2. Matching(p, page[p].search)' = Matching(p, page[p].search)
  BY DEF Matching, Listed
<1>3. ASSUME NEW f \in Flights, About(f, p, r)' PROVE Followed(f, p, r)'
  <2>1. Followed(f, p, r)
    BY <1>3 DEF Tells
  <2>2. flight'[f].do = flight[f].do /\ flight'[f].to = flight[f].to
        /\ (flight'[f].at = "answered" <=> flight[f].at = "answered")
    BY <1>3
  <2> QED BY <1>1, <1>2, <2>1, <2>2 DEF Followed
<1>4. \A f, g \in Flights : About(f, p, r)' /\ About(g, p, r)' => f = g
  BY DEF Tells
<1>5. (\A f \in Flights : ~ About(f, p, r)') /\ r \notin page'[p].import.made => Right(p, r)'
  BY <1>1 DEF Tells
<1> QED BY <1>3, <1>4, <1>5 DEF Tells

\* A request sent about a row: the page was right about it, or blurs it.
LEMMA AskTells ==
    ASSUME RostersTypeOK, Newborn, Windows, ListsAgree, NEW g \in Flights, NEW p \in Pages, NEW do \in Doing,
           NEW s \in Rows, NEW to \in There \cup {"none", "gone"}, NEW old \in BOOLEAN,
           Asking(g, p, do, s, to, old)
    PROVE  ListsAgree'
<1> SUFFICES ASSUME NEW q \in Pages, NoLoad(q)', NEW r \in Rows \ blurred'[q] PROVE Tells(q, r)'
  BY DEF ListsAgree
<1>1. /\ flight'[g].at = "sent" /\ flight'[g].do = do /\ flight'[g].page = p /\ flight'[g].row = s
      /\ flight'[g].to = to /\ flight[g].at = "idle"
  BY DEF Asking, Sends
<1>2. \A h \in Flights \ {g} : Kin(h)
  BY DEF Asking, Sends
<1>3. row' = row /\ SameView(q) /\ r \notin blurred[q] /\ (q = p /\ r = s => s \notin Touched(p))
  BY DEF Asking
<1>4. NoLoad(q)
  BY <1>1, <1>2 DEF NoLoad, Kin
<1>5. Tells(q, r)
  BY <1>3, <1>4 DEF ListsAgree
<1>6. \A h \in Flights \ {g} : /\ About(h, q, r)' <=> About(h, q, r)
                               /\ flight'[h].do = flight[h].do /\ flight'[h].to = flight[h].to
                               /\ flight'[h].at = flight[h].at
  BY <1>2 DEF Kin, About
<1>7. ~ About(g, q, r)
  BY <1>1 DEF About
<1>8. Seen(r)' = Seen(r)
  BY <1>3 DEF Seen
<1>9. CASE ~ (q = p /\ r = s)
  <2>1. ~ About(g, q, r)'
    BY <1>1, <1>9 DEF About
  <2> QED BY <1>3, <1>5, <1>6, <1>7, <1>8, <2>1, StaysTold DEF SameView
<1>10. CASE q = p /\ r = s
  <2>1. Loading(p) = {} /\ \A h \in Flights : ~ About(h, p, s)
    BY <1>3, <1>10 DEF Touched, About, Of
  <2>2. s \notin page[p].import.made
    <3>1. CASE do = "edit" \/ NoModal(p)
      BY <3>1 DEF Asking, Windows, NoModal
    <3>2. CASE s \in page[p].import.left
      BY <3>2 DEF Newborn, Reserved, Unseen
    <3> QED BY <3>1, <3>2 DEF Asking, Idle
  <2>3. Right(p, s)
    BY <1>5, <1>10, <2>1, <2>2 DEF Tells
  <2>4. Right(p, s)' <=> Right(p, s)
    BY <1>3, <1>8, <1>10 DEF Right, Matching, Listed, SameView
  <2>5. do = "toggle" => page[p].list[s] # "none" /\ to = Flip(page[p].list[s])
    BY DEF Asking, Shown
  <2>6. Followed(g, p, s)'
    BY <1>1, <1>3, <1>10, <2>3, <2>4, <2>5 DEF Followed, SameView
  <2>7. \A h \in Flights : About(h, p, s)' => h = g
    BY <1>6, <1>10, <2>1
  <2>8. About(g, p, s)'
    BY <1>1 DEF About, Doing
  <2>9. \A f \in Flights : About(f, p, s)' => Followed(f, p, s)'
    BY <2>6, <2>7
  <2> QED BY <1>10, <2>7, <2>8, <2>9 DEF Tells
<1> QED BY <1>9, <1>10

\* A load is sent: the page waits for it.
LEMMA ReadTells ==
    ASSUME RostersTypeOK, ListsAgree, NEW g \in Flights, NEW p \in Pages, NEW search \in BOOLEAN,
           NEW others \in SUBSET Rows, Reading(g, p, search, others)
    PROVE  ListsAgree'
<1> SUFFICES ASSUME NEW q \in Pages, NoLoad(q)', NEW r \in Rows \ blurred'[q] PROVE Tells(q, r)'
  BY DEF ListsAgree
<1>1. /\ flight'[g].at = "sent" /\ flight'[g].do = "load" /\ flight'[g].page = p
      /\ flight[g].at = "idle" \/ flight[g].page = p
  BY DEF Reading, Reads, Of
<1>2. \A h \in Flights \ {g} : Kin(h)
  BY DEF Reading, Reads
<1>3. q # p
  BY <1>1 DEF NoLoad
<1>4. row' = row /\ blurred' = blurred /\ page'[q].list = page[q].list /\ page'[q].import = page[q].import
      /\ page'[q].search = page[q].search
  BY <1>3 DEF Reading
<1>5. NoLoad(q)
  BY <1>1, <1>2, <1>3 DEF NoLoad, Kin
<1>6. Tells(q, r)
  BY <1>4, <1>5 DEF ListsAgree
<1>7. \A h \in Flights : /\ About(h, q, r)' <=> About(h, q, r)
                         /\ About(h, q, r) => /\ flight'[h].do = flight[h].do /\ flight'[h].to = flight[h].to
                                              /\ flight'[h].at = "answered" <=> flight[h].at = "answered"
  BY <1>1, <1>2, <1>3 DEF Kin, About
<1>8. Seen(r)' = Seen(r)
  BY <1>4 DEF Seen
<1> QED BY <1>4, <1>6, <1>7, <1>8, StaysTold

\* A request moves on at the server: no answer comes yet.
LEMMA MoveTells ==
    ASSUME RostersTypeOK, ListsAgree, NEW g \in Flights, NEW at \in {"counted", "answered", "refused"},
           Moving(g, at)
    PROVE  ListsAgree'
<1> SUFFICES ASSUME NEW q \in Pages, NoLoad(q)', NEW r \in Rows \ blurred'[q] PROVE Tells(q, r)'
  BY DEF ListsAgree
<1>1. /\ flight'[g].at = at /\ flight'[g].do = flight[g].do /\ flight'[g].page = flight[g].page
      /\ flight'[g].row = flight[g].row /\ flight'[g].to = flight[g].to
      /\ flight[g].at \in {"sent", "counted"} /\ (flight[g].do # "load" => at # "answered")
      /\ \A h \in Flights \ {g} : flight'[h] = flight[h]
  BY DEF Moving, Moves
<1>2. UNCHANGED <<row, page, blurred>>
  BY DEF Moving
<1>3. NoLoad(q)
  BY <1>1 DEF NoLoad
<1>4. Tells(q, r)
  BY <1>2, <1>3 DEF ListsAgree
<1>5. \A h \in Flights : /\ About(h, q, r)' <=> About(h, q, r)
                         /\ About(h, q, r) => /\ flight'[h].do = flight[h].do /\ flight'[h].to = flight[h].to
                                              /\ flight'[h].at = "answered" <=> flight[h].at = "answered"
  BY <1>1 DEF About
<1>6. Seen(r)' = Seen(r)
  BY <1>2 DEF Seen
<1> QED BY <1>2, <1>4, <1>5, <1>6, StaysTold

\* A write: its page follows it, the others blur the row.
LEMMA WriteTells ==
    ASSUME RostersTypeOK, Newborn, ListsAgree, NEW g \in Flights, NEW now \in There \cup {"gone"},
           Writing(g, now)
    PROVE  ListsAgree'
<1> DEFINE s == flight[g].row
           p == flight[g].page
<1> SUFFICES ASSUME NEW q \in Pages, NoLoad(q)', NEW r \in Rows \ blurred'[q] PROVE Tells(q, r)'
  BY DEF ListsAgree
<1>1. /\ flight'[g].at = "answered" /\ flight'[g].do = flight[g].do /\ flight'[g].page = p
      /\ flight'[g].row = s /\ flight'[g].to = now
      /\ flight[g].do # "load" /\ flight[g].at \in {"sent", "counted"}
  BY DEF Writing, Writes
<1>2. \A h \in Flights \ {g} : Kin(h)
  BY DEF Writing, Writes
<1>3. /\ s \in Rows /\ p \in Pages /\ flight[g] \in FlightRow /\ Goal(flight[g])
      /\ row \in [Rows -> There \cup {"unborn", "gone"}]
  BY DEF RostersTypeOK, FlightRow
<1>4. row'[s] = now /\ \A t \in Rows \ {s} : row'[t] = row[t]
  BY <1>3 DEF Writing
<1>5. /\ page'[q].list = page[q].list /\ page'[q].search = page[q].search
      /\ page'[q].import.made = page[q].import.made /\ r \notin blurred[q] /\ (q # p => r # s)
  BY DEF Writing
<1>6. NoLoad(q)
  BY <1>1, <1>2 DEF NoLoad, Kin
<1>7. Tells(q, r)
  BY <1>5, <1>6 DEF ListsAgree
<1>8. \A h \in Flights : About(h, q, r)' <=> About(h, q, r)
  BY <1>1, <1>2 DEF Kin, About
<1>9. \A h \in Flights \ {g} : flight'[h].do = flight[h].do /\ flight'[h].to = flight[h].to
                               /\ flight'[h].at = flight[h].at
  BY <1>2 DEF Kin
<1>10. CASE r # s
  <2>1. Seen(r)' = Seen(r)
    BY <1>4, <1>10 DEF Seen
  <2>2. ~ About(g, q, r)
    BY <1>10 DEF About
  <2> QED BY <1>5, <1>7, <1>8, <1>9, <2>1, <2>2, StaysTold
<1>11. CASE q = p /\ r = s
  <2> DEFINE do == flight[g].do
             l == page[p].list[s]
  <2>1. About(g, p, s)
    BY <1>1 DEF About
  <2>2. Followed(g, p, s) /\ \A h \in Flights : About(h, p, s) => h = g
    BY <1>7, <1>11, <2>1 DEF Tells
  <2>3. Right(p, s) /\ (do = "toggle" => l # "none" /\ flight[g].to = Flip(l))
    BY <1>1, <2>2 DEF Followed
  <2>4. row[s] \in There \/ do \in {"add", "import"}
    BY DEF Writing
  <2>5. do = "delete" => now = "gone"
    BY DEF Writing, Newborn, Shaped
  <2>6. do \in {"add", "toggle", "edit"} => now \in There
    BY <1>3, <2>4 DEF Writing, Goal, Copy, There
  <2>7. do = "toggle" => l # "none" /\ now = Flip(l)
    BY <2>3 DEF Writing, Flip
  <2>8. Seen(r)' = IF now \in There THEN now ELSE "none"
    BY <1>4, <1>11 DEF Seen
  <2>9. do = "edit" => l # "none" \/ s \notin Matching(p, page[p].search)
    BY <2>3, <2>4 DEF Right, Seen, There
  <2>10. Matching(q, page[q].search)' = Matching(q, page[q].search)
    BY <1>5, <1>11 DEF Matching, Listed
  <2>11. Followed(g, q, r)'
    <3>1. flight'[g].do = do /\ flight'[g].to = now /\ flight'[g].at = "answered" /\ page'[q].list[r] = l
      BY <1>1, <1>5, <1>11
    <3>2. do = "delete" => Seen(r)' = "none"
      BY <2>5, <2>8 DEF There
    <3>3. do \in {"add", "toggle", "edit"} => Seen(r)' = now
      BY <2>6, <2>8
    <3>4. (do = "edit" => l # "none" \/ r \notin Matching(q, page[q].search)')
      BY <1>11, <2>9, <2>10
    <3> HIDE DEF do, l
    <3> QED BY <2>7, <3>1, <3>2, <3>3, <3>4 DEF Followed
  <2>12. \A h \in Flights : About(h, q, r)' => h = g
    BY <1>8, <1>11, <2>2
  <2>13. About(g, q, r)'
    BY <1>8, <1>11, <2>1
  <2> QED BY <1>11, <2>11, <2>12, <2>13 DEF Tells
<1> QED BY <1>5, <1>10, <1>11

\* A request is over: the page has loaded, followed, or blurred the row.
LEMMA EndTells ==
    ASSUME RostersTypeOK, ListsAgree, LoadsAgree, NEW g \in Flights, Ending(g) PROVE ListsAgree'
<1> DEFINE s == flight[g].row
           p == flight[g].page
<1> SUFFICES ASSUME NEW q \in Pages, NoLoad(q)', NEW r \in Rows \ blurred'[q] PROVE Tells(q, r)'
  BY DEF ListsAgree
<1>1. flight'[g].at = "idle" /\ \A h \in Flights \ {g} : flight'[h] = flight[h]
  BY DEF Ending, Ends, NoFlight
<1>2. row' = row /\ flight[g].at # "idle" /\ page'[q].search = page[q].search
  BY DEF Ending
<1>3. s \in Rows /\ p \in Pages /\ flight[g] \in FlightRow
  BY DEF RostersTypeOK, FlightRow
<1>4. Seen(r)' = Seen(r)
  BY <1>2 DEF Seen
<1>5. \A h \in Flights : About(h, q, r)' <=> About(h, q, r) /\ h # g
  BY <1>1 DEF About
<1>6. CASE q = p /\ flight[g].do = "load"
  <2>1. flight[g].at = "answered" /\ page'[p].list = flight[g].got /\ r \notin flight[g].blur
    BY <1>6 DEF Ending
  <2>2. Current(g, r)
    BY <1>6, <2>1 DEF LoadsAgree
  <2>3. page'[p].list[r] = Due(p, page[p].search, r)
    BY <2>1, <2>2 DEF Current
  <2>4. Right(q, r)'
    BY <1>2, <1>4, <1>6, <2>3 DEF Right, Due, Matching, Listed
  <2>5. \A h \in Flights : ~ About(h, q, r)'
    BY <1>5, <1>6, <2>2 DEF Current
  <2> QED BY <1>6, <2>4, <2>5 DEF Tells
<1>7. CASE ~ (q = p /\ flight[g].do = "load")
  <2>1. NoLoad(q)
    <3> SUFFICES ASSUME NEW h \in Flights, flight[h].at # "idle", flight[h].do = "load",
                        flight[h].page = q
                 PROVE  FALSE
      BY DEF NoLoad
    <3>1. h # g
      BY <1>7
    <3> QED BY <1>1, <3>1 DEF NoLoad
  <2>2. r \notin blurred[q]
    <3> DEFINE blurs == IF flight[g].do = "load" THEN Rows ELSE {s}
    <3>1. CASE q # p
      BY <3>1 DEF Ending
    <3>2. CASE q = p
      <4>1. blurred'[p] = blurred[p] \/ blurred'[p] = blurred[p] \cup blurs
        BY <1>7, <3>2 DEF Ending
      <4> QED BY <3>2, <4>1
    <3> QED BY <3>1, <3>2
  <2>3. Tells(q, r)
    BY <2>1, <2>2 DEF ListsAgree
  <2>4. CASE ~ (q = p /\ r = s)
    <3>1. page'[q].list[r] = page[q].list[r] /\ (r \in page[q].import.made => r \in page'[q].import.made)
      <4>1. page[p].list \in [Rows -> Copy]
        BY <1>3 DEF RostersTypeOK, PageRow
      <4>2. CASE q # p
        <5>1. page'[q].list = page[q].list /\ page'[q].import.made = page[q].import.made
          BY <4>2 DEF Ending
        <5> QED BY <5>1
      <4>3. CASE q = p /\ r # s
        <5>1. /\ \/ page'[p].list = page[p].list
                 \/ page'[p].list = [page[p].list EXCEPT ![s] = Follow(p, flight[g].do, s, flight[g].to)]
              /\ page[p].import.made \subseteq page'[p].import.made
          BY <1>7, <4>3 DEF Ending
        <5>2. page'[p].list[r] = page[p].list[r]
          BY <4>1, <4>3, <5>1
        <5> QED BY <4>3, <5>1, <5>2
      <4> QED BY <2>4, <4>2, <4>3
    <3>2. ~ About(g, q, r)
      BY <2>4 DEF About
    <3> QED BY <1>1, <1>2, <1>4, <1>5, <2>3, <3>1, <3>2, StaysTold
  <2>5. CASE q = p /\ r = s
    <3> DEFINE do == flight[g].do
               l == page[p].list[s]
    <3>1. About(g, p, s)
      BY <1>2, <1>7, <2>5 DEF About
    <3>2. Followed(g, p, s) /\ \A h \in Flights : About(h, p, s) => h = g
      BY <2>3, <2>5, <3>1 DEF Tells
    <3>3. \A h \in Flights : ~ About(h, q, r)'
      BY <1>5, <2>5, <3>2
    <3>4. flight[g].at = "answered" /\ do # "load"
      BY <1>7, <2>5 DEF Ending
    <3>5. CASE do = "import"
      <4>1. s \in page'[p].import.made
        BY <1>7, <2>5, <3>5 DEF Ending
      <4> QED BY <2>5, <3>3, <4>1 DEF Tells
    <3>6. CASE do # "import"
      <4>1. page'[p].list[s] = Follow(p, do, s, flight[g].to)
        <5>1. page[p].list \in [Rows -> Copy]
          BY <1>3 DEF RostersTypeOK, PageRow
        <5>2. page'[p].list = [page[p].list EXCEPT ![s] = Follow(p, do, s, flight[g].to)]
          BY <1>7, <2>5, <3>4, <3>6 DEF Ending
        <5> QED BY <1>3, <5>1, <5>2
      <4>2. /\ do = "delete" => Seen(s) = "none"
            /\ do \in {"add", "toggle", "edit"} => Seen(s) = flight[g].to
            /\ do = "toggle" => l # "none" /\ flight[g].to = Flip(l)
            /\ do = "edit" => l # "none" \/ s \notin Matching(p, page[p].search)
        BY <3>2, <3>4 DEF Followed
      <4>3. do \in {"toggle", "delete", "add", "edit"}
        BY <1>3, <3>4, <3>6 DEF FlightRow
      <4>4. page'[p].list[s] = Seen(s) \/ (s \notin Matching(p, page[p].search) /\ page'[p].list[s] = "none")
        <5>1. CASE do = "delete"
          BY <4>1, <4>2, <5>1 DEF Follow
        <5>2. CASE do = "add"
          BY <4>1, <4>2, <5>2 DEF Follow
        <5>3. CASE do = "toggle"
          BY <4>1, <4>2, <5>3 DEF Follow
        <5>4. CASE do = "edit"
          BY <4>1, <4>2, <5>4 DEF Follow
        <5> HIDE DEF do
        <5> QED BY <4>3, <5>1, <5>2, <5>3, <5>4
      <4>5. Right(q, r)'
        BY <1>2, <1>4, <2>5, <4>4 DEF Right, Matching, Listed
      <4> QED BY <2>5, <3>3, <4>5 DEF Tells
    <3> QED BY <3>5, <3>6
  <2> QED BY <2>4, <2>5
<1> QED BY <1>6, <1>7

\* The window of an import closes: its rows are listed as they are, or blurred.
LEMMA CloseTells ==
    ASSUME RostersTypeOK, Windows, Uploads, ListsAgree, NEW p \in Pages, NEW told \in BOOLEAN, Closing(p, told)
    PROVE  ListsAgree'
<1> SUFFICES ASSUME NEW q \in Pages, NoLoad(q)', NEW r \in Rows \ blurred'[q] PROVE Tells(q, r)'
  BY DEF ListsAgree
<1>1. UNCHANGED <<row, flight>> /\ page'[q].search = page[q].search
      /\ (q # p => page'[q] = page[q] /\ blurred'[q] = blurred[q])
  BY DEF Closing
<1>2. blurred[q] \subseteq blurred'[q]
  BY <1>1 DEF Closing
<1>3. NoLoad(q)
  BY <1>1 DEF NoLoad
<1>4. Tells(q, r)
  BY <1>2, <1>3 DEF ListsAgree
<1>5. \A h \in Flights : About(h, q, r)' <=> About(h, q, r)
  BY <1>1 DEF About
<1>6. Seen(r)' = Seen(r)
  BY <1>1 DEF Seen
<1>7. CASE q # p \/ r \notin page[p].import.made
  <2>1. page'[q].list[r] = page[q].list[r] /\ (q # p => page'[q].import = page[q].import)
    BY <1>1, <1>7 DEF Closing
  <2>2. r \in page[q].import.made => r \in page'[q].import.made
    BY <1>7, <2>1
  <2> QED BY <1>1, <1>4, <1>5, <1>6, <2>1, <2>2, StaysTold
<1>8. CASE q = p /\ r \in page[p].import.made
  <2>1. told /\ r \notin page[p].import.late
    BY <1>8 DEF Closing
  <2>2. row[r] = "active" /\ \A h \in Flights : ~ About(h, p, r)
    BY <1>8, <2>1 DEF Uploads, Fresh
  <2>3. page'[p].list[r] = "active"
    BY <1>8, <2>1 DEF Closing
  <2>4. Right(p, r)'
    BY <1>1, <2>2, <2>3 DEF Right, Seen, There
  <2> QED BY <1>5, <1>8, <2>2, <2>4 DEF Tells
<1> QED BY <1>7, <1>8

\* Every step leaves the lists right, or about to be.
LEMMA NextKeepsLists ==
    ASSUME RostersTypeOK, Newborn, Windows, Uploads, LoadsAgree, ListsAgree, [Next]_vars PROVE ListsAgree'
<1>1. ASSUME UNCHANGED <<row, flight, blurred>>,
             \A q \in Pages : page'[q].search = page[q].search /\ page'[q].list = page[q].list
                              /\ page[q].import.made \subseteq page'[q].import.made
      PROVE  ListsAgree'
  <2> SUFFICES ASSUME NEW q \in Pages, NoLoad(q)', NEW r \in Rows \ blurred'[q] PROVE Tells(q, r)'
    BY DEF ListsAgree
  <2>1. NoLoad(q)
    BY <1>1 DEF NoLoad
  <2>2. Tells(q, r)
    BY <1>1, <2>1 DEF ListsAgree
  <2>3. Seen(r)' = Seen(r) /\ \A h \in Flights : About(h, q, r)' <=> About(h, q, r)
    BY <1>1 DEF Seen, About
  <2> QED BY <1>1, <2>2, <2>3, StaysTold
<1>2. Shapes
  BY StepShapes
<1>3. Opens \/ UNCHANGED vars => ListsAgree'
  BY <1>1 DEF Opens, Opening, SameView, vars
<1>4. Files => ListsAgree'
  <2> SUFFICES ASSUME NEW p \in Pages, NEW rs \in SUBSET Rows, Listing(p, rs) PROVE ListsAgree'
    BY DEF Files
  <2>1. page[p].import.made = {}
    BY DEF Listing, NoModal, Windows
  <2>2. \A q \in Pages : page[q].import.made \subseteq page'[q].import.made
    BY <2>1 DEF Listing
  <2> QED BY <1>1, <2>2 DEF Listing
<1>5. (Asks => ListsAgree') /\ (Reloads => ListsAgree') /\ (MovesOn => ListsAgree')
  BY AskTells, ReadTells, MoveTells DEF Asks, Reloads, MovesOn
<1>6. (Alters => ListsAgree') /\ (Finishes => ListsAgree') /\ (Closes => ListsAgree')
  BY WriteTells, EndTells, CloseTells DEF Alters, Finishes, Closes
<1> QED BY <1>2, <1>3, <1>4, <1>5, <1>6 DEF Shapes

-----------------------------------------------------------------------------
(* The theorems about the pages.                                           *)

Agreement == Newborn /\ Windows /\ Uploads /\ LoadsAgree /\ ListsAgree

\* At first every page lists its table, and nothing is in flight.
LEMMA InitAgrees == Init => Agreement
<1> SUFFICES ASSUME Init PROVE Agreement
  OBVIOUS
<1>1. \A f \in Flights : flight[f] = NoFlight
  BY DEF Init
<1>2. /\ NoFlight.at = "idle" /\ NoFlight.do = "load" /\ NoFlight.to = "none" /\ NoFlight.got = Empty
      /\ \A r \in Rows : Empty[r] = "none"
  BY DEF NoFlight, Empty
<1>3. \A r \in Rows : row[r] = IF r \in Present0 THEN "active" ELSE "unborn"
  BY DEF Init
<1>4. \A p \in Pages :
         /\ page[p].list = [r \in Rows |-> IF r \in Listed(p) \cap Present0 THEN "active" ELSE "none"]
         /\ page[p].search = FALSE /\ page[p].form = NoForm /\ page[p].import = NoImport
  BY DEF Init
<1>5. /\ NoForm.open = FALSE /\ NoImport.open = FALSE
      /\ NoImport.left = {} /\ NoImport.made = {}
  BY DEF NoForm, NoImport
<1>6. \A p \in Pages, r \in Rows : page[p].list[r] = IF r \in Listed(p) \cap Present0 THEN "active" ELSE "none"
  BY <1>4
<1>7. Newborn
  <2>1. Unseen
    BY <1>1, <1>2, <1>3, <1>4, <1>5, <1>6 DEF Unseen
  <2>2. Unasked /\ Reserved /\ OneCreator /\ Shaped
    BY <1>1, <1>2, <1>4, <1>5 DEF Unasked, Reserved, OneCreator, Shaped, Creating
  <2> QED BY <2>1, <2>2 DEF Newborn
<1>8. Windows /\ Uploads
  BY <1>1, <1>2, <1>4, <1>5 DEF Windows, Uploads, Uploaded
<1>9. LoadsAgree
  BY <1>1, <1>2 DEF LoadsAgree
<1>10. ListsAgree
  <2> SUFFICES ASSUME NEW p \in Pages, NEW r \in Rows PROVE Tells(p, r)
    BY DEF ListsAgree
  <2>1. \A f \in Flights : ~ About(f, p, r)
    BY <1>1, <1>2 DEF About
  <2>2. Matching(p, page[p].search) = Listed(p)
    BY <1>4 DEF Matching
  <2>3. Right(p, r)
    BY <1>3, <1>6, <2>2 DEF Right, Seen, There
  <2> QED BY <2>1, <2>3 DEF Tells
<1> QED BY <1>7, <1>8, <1>9, <1>10 DEF Agreement

\* The pages stay in agreement with their tables.
LEMMA AlwaysAgrees == Spec => []Agreement
<1>1. RostersTypeOK /\ Agreement /\ [Next]_vars => Agreement'
  <2> SUFFICES ASSUME RostersTypeOK, Agreement, [Next]_vars PROVE Agreement'
    OBVIOUS
  <2>1. Newborn /\ Windows /\ Uploads /\ LoadsAgree /\ ListsAgree
    BY DEF Agreement
  <2>2. Newborn'
    BY <2>1, NextKeepsNewborn
  <2>3. Windows'
    BY <2>1, NextKeepsWindows
  <2>4. Uploads'
    BY <2>1, NextKeepsUploads
  <2>5. LoadsAgree'
    BY <2>1, NextKeepsLoads
  <2>6. ListsAgree'
    BY <2>1, NextKeepsLists
  <2> QED BY <2>2, <2>3, <2>4, <2>5, <2>6 DEF Agreement
<1> QED BY <1>1, InitAgrees, RostersTypes, PTL DEF Spec

\* A page at rest shows its table, for any number of rows, pages and requests: the
\* three ways the pages follow their requests agree with the server about every row
\* but those the history says another page wrote or two requests crossed over.
THEOREM PagesAgree == Spec => []QuietPageAgrees
<1>1. RostersTypeOK /\ Agreement => QuietPageAgrees
  <2> SUFFICES ASSUME RostersTypeOK, Agreement, NEW p \in Pages, Of(p) = {}, ~ page[p].import.open,
                      NEW r \in Matching(p, page[p].search) \ blurred[p]
               PROVE  page[p].list[r] = IF row[r] \in There THEN row[r] ELSE "none"
    BY DEF QuietPageAgrees
  <2>1. r \in Rows
    BY DEF Matching, Listed
  <2>2. NoLoad(p) /\ \A f \in Flights : ~ About(f, p, r)
    BY DEF NoLoad, About, Of
  <2>3. r \notin page[p].import.made
    BY DEF Agreement, Windows
  <2>4. Tells(p, r)
    BY <2>1, <2>2 DEF Agreement, ListsAgree
  <2>5. Right(p, r)
    BY <2>2, <2>3, <2>4 DEF Tells
  <2> QED BY <2>5 DEF Right, Seen
<1> QED BY <1>1, RostersTypes, AlwaysAgrees, PTL

\* A form opened on a copy that is still that of the row, and its edit.
FormsAgree ==
    /\ \A p \in Pages : page[p].form.open /\ ~ page[p].form.old => page[p].form.copy = row[page[p].form.row]
    /\ \A f \in Flights : flight[f].do = "edit" /\ flight[f].at = "sent" /\ ~ flight[f].old =>
          flight[f].to \in {"none", row[flight[f].row]}

\* Every step keeps it so, or notes that the copy is old.
LEMMA NextKeepsForms == ASSUME RostersTypeOK, Agreement, FormsAgree, [Next]_vars PROVE FormsAgree'
<1>1. ASSUME NEW g \in Flights, NEW p \in Pages, NEW do \in Doing, NEW s \in Rows,
             NEW to \in There \cup {"none", "gone"}, NEW old \in BOOLEAN, Asking(g, p, do, s, to, old)
      PROVE  FormsAgree'
  <2>1. row' = row /\ \A q \in Pages : page'[q].form = page[q].form \/ page'[q].form = NoForm
    BY <1>1 DEF Asking, SameWindows
  <2>2. /\ flight'[g].do = do /\ flight'[g].row = s /\ flight'[g].to = to /\ flight'[g].old = old
        /\ \A h \in Flights \ {g} : Kin(h) /\ flight'[h].old = flight[h].old
    BY <1>1 DEF Asking, Sends
  <2>3. do = "edit" /\ ~ old => to \in {"none", row[s]}
    <3> SUFFICES ASSUME do = "edit", ~ old PROVE to \in {"none", row[s]}
      OBVIOUS
    <3>1. page[p].form.open /\ s = page[p].form.row
      BY <1>1 DEF Asking
    <3>2. PICK ticked \in There : /\ to = IF Style[p] = "reload" THEN ticked ELSE "none"
                                  /\ old = (page[p].form.old \/ ticked # page[p].form.copy)
      BY <1>1 DEF Asking
    <3>3. page[p].form.copy = row[s]
      BY <3>1, <3>2 DEF FormsAgree
    <3> QED BY <3>2, <3>3
  <2>4. \A q \in Pages : page'[q].form.open /\ ~ page'[q].form.old => page'[q].form.copy = row[page'[q].form.row]
    BY <2>1 DEF FormsAgree, NoForm
  <2>5. \A h \in Flights : flight'[h].do = "edit" /\ flight'[h].at = "sent" /\ ~ flight'[h].old =>
           flight'[h].to \in {"none", row[flight'[h].row]}
    BY <2>2, <2>3 DEF FormsAgree, Kin
  <2> QED BY <2>1, <2>4, <2>5 DEF FormsAgree
<1>2. ASSUME NEW g \in Flights, NEW p \in Pages, NEW search \in BOOLEAN, NEW others \in SUBSET Rows,
             Reading(g, p, search, others)
      PROVE  FormsAgree'
  <2>1. row' = row /\ \A q \in Pages : page'[q].form = page[q].form
    BY <1>2 DEF Reading
  <2>2. flight'[g].do = "load" /\ \A h \in Flights \ {g} : Kin(h) /\ flight'[h].old = flight[h].old
    BY <1>2 DEF Reading, Reads
  <2> QED BY <2>1, <2>2 DEF FormsAgree, Kin
<1>3. ASSUME NEW g \in Flights, NEW at \in {"counted", "answered", "refused"}, Moving(g, at)
      PROVE  FormsAgree'
  <2>1. row' = row /\ page' = page /\ flight'[g].at # "sent" /\ \A h \in Flights \ {g} : flight'[h] = flight[h]
    BY <1>3 DEF Moving, Moves
  <2> QED BY <2>1 DEF FormsAgree
<1>4. ASSUME NEW g \in Flights, NEW now \in There \cup {"gone"}, Writing(g, now) PROVE FormsAgree'
  <2> DEFINE s == flight[g].row
  <2>1. flight'[g].at = "answered"
        /\ \A h \in Flights \ {g} : /\ Kin(h) /\ (flight[h].old => flight'[h].old)
                                    /\ flight[h].do # "load" /\ flight[h].row = s => flight'[h].old
    BY <1>4 DEF Writing, Writes
  <2>2. \A t \in Rows \ {s} : row'[t] = row[t]
    BY <1>4 DEF Writing, RostersTypeOK
  <2>3. \A q \in Pages :
           /\ page'[q].form.open = page[q].form.open /\ page'[q].form.row = page[q].form.row
           /\ page'[q].form.copy = page[q].form.copy
           /\ page'[q].form.old = (page[q].form.old \/ (page[q].form.open /\ page[q].form.row = s))
    BY <1>4 DEF Writing
  <2>4. (\A q \in Pages : page[q].form.row \in Rows) /\ \A h \in Flights : flight[h].row \in Rows
    BY DEF RostersTypeOK, PageRow, FormRow, FlightRow
  <2>5. \A q \in Pages : page'[q].form.open /\ ~ page'[q].form.old => page'[q].form.copy = row'[page'[q].form.row]
    <3> SUFFICES ASSUME NEW q \in Pages, page'[q].form.open, ~ page'[q].form.old
                 PROVE  page'[q].form.copy = row'[page'[q].form.row]
      OBVIOUS
    <3>1. page[q].form.open /\ ~ page[q].form.old /\ page[q].form.row \in Rows \ {s}
      BY <2>3, <2>4
    <3>2. page[q].form.copy = row[page[q].form.row]
      BY <3>1 DEF FormsAgree
    <3> QED BY <2>2, <2>3, <3>1, <3>2
  <2>6. \A h \in Flights : flight'[h].do = "edit" /\ flight'[h].at = "sent" /\ ~ flight'[h].old =>
           flight'[h].to \in {"none", row'[flight'[h].row]}
    <3> SUFFICES ASSUME NEW h \in Flights, flight'[h].do = "edit", flight'[h].at = "sent", ~ flight'[h].old
                 PROVE  flight'[h].to \in {"none", row'[flight'[h].row]}
      OBVIOUS
    <3>1. h # g /\ Kin(h)
      BY <2>1
    <3>2. /\ flight[h].do = "edit" /\ flight[h].at = "sent" /\ ~ flight[h].old
          /\ flight'[h].to = flight[h].to /\ flight'[h].row = flight[h].row
      BY <2>1, <3>1 DEF Kin
    <3>3. flight[h].to \in {"none", row[flight[h].row]}
      BY <3>2 DEF FormsAgree
    <3>4. flight[h].row \in Rows \ {s}
      BY <2>1, <2>4, <3>1, <3>2
    <3> QED BY <2>2, <3>2, <3>3, <3>4
  <2> QED BY <2>5, <2>6 DEF FormsAgree
<1>5. ASSUME NEW g \in Flights, Ending(g) PROVE FormsAgree'
  <2>1. row' = row /\ \A q \in Pages : page'[q].form = page[q].form
    BY <1>5 DEF Ending
  <2>2. flight'[g].at = "idle" /\ \A h \in Flights \ {g} : flight'[h] = flight[h]
    <3>1. flight'[g] = NoFlight /\ \A h \in Flights \ {g} : flight'[h] = flight[h]
      BY <1>5 DEF Ending, Ends
    <3> QED BY <3>1 DEF NoFlight
  <2>3. ASSUME NEW q \in Pages, page'[q].form.open, ~ page'[q].form.old
        PROVE  page'[q].form.copy = row'[page'[q].form.row]
    BY <2>1, <2>3 DEF FormsAgree
  <2>4. ASSUME NEW h \in Flights, flight'[h].do = "edit", flight'[h].at = "sent", ~ flight'[h].old
        PROVE  flight'[h].to \in {"none", row'[flight'[h].row]}
    <3>1. flight'[h] = flight[h]
      BY <2>2, <2>4
    <3> QED BY <2>1, <2>4, <3>1 DEF FormsAgree
  <2> QED BY <2>3, <2>4 DEF FormsAgree
<1>6. ASSUME NEW p \in Pages, NEW r \in Rows, Opening(p, r) PROVE FormsAgree'
  <2>1. UNCHANGED <<row, flight>> /\ \A q \in Pages \ {p} : page'[q].form = page[q].form
    BY <1>6 DEF Opening
  <2>2. /\ page'[p].form.row = r /\ page'[p].form.copy = page[p].list[r]
        /\ page'[p].form.old = (r \in blurred[p] \/ Of(p) # {})
    BY <1>6 DEF Opening
  <2>3. ~ page'[p].form.old => page[p].list[r] = row[r]
    <3> SUFFICES ASSUME r \notin blurred[p], Of(p) = {} PROVE page[p].list[r] = row[r]
      BY <2>2
    <3>1. NoLoad(p) /\ \A f \in Flights : ~ About(f, p, r)
      BY DEF NoLoad, About, Of
    <3>2. r \notin page[p].import.made /\ page[p].list[r] # "none"
      BY <1>6 DEF Opening, Shown, Idle, NoModal, Agreement, Windows
    <3>3. Right(p, r)
      BY <3>1, <3>2 DEF Agreement, ListsAgree, Tells
    <3> QED BY <3>2, <3>3 DEF Right, Seen
  <2> QED BY <2>1, <2>2, <2>3 DEF FormsAgree
<1>7. ASSUME UNCHANGED <<row, flight>>, \A q \in Pages : page'[q].form = page[q].form PROVE FormsAgree'
  BY <1>7 DEF FormsAgree
<1>8. Shapes
  BY StepShapes
<1> HIDE DEF FormsAgree, Agreement
<1>9. (Asks => FormsAgree') /\ (Reloads => FormsAgree') /\ (MovesOn => FormsAgree')
      /\ (Alters => FormsAgree') /\ (Finishes => FormsAgree') /\ (Opens => FormsAgree')
  BY <1>1, <1>2, <1>3, <1>4, <1>5, <1>6 DEF Asks, Reloads, MovesOn, Alters, Finishes, Opens
<1>10. Files \/ Closes \/ UNCHANGED vars =>
          UNCHANGED <<row, flight>> /\ \A q \in Pages : page'[q].form = page[q].form
  BY DEF Files, Closes, Listing, Closing, vars
<1> QED BY <1>7, <1>8, <1>9, <1>10 DEF Shapes

\* Only a write answers an edit.
LEMMA EditsAreWritten ==
    ASSUME RostersTypeOK, [Next]_vars, NEW f \in Flights, flight[f].do = "edit", flight[f].at = "sent",
           flight'[f].at = "answered"
    PROVE  \E now \in There \cup {"gone"} : Writing(f, now)
<1>1. Shapes
  BY StepShapes
<1>2. ~ Asks
  <2> SUFFICES ASSUME NEW g \in Flights, NEW p \in Pages, NEW do \in Doing, NEW r \in Rows,
                      NEW to \in There \cup {"none", "gone"}, NEW old \in BOOLEAN,
                      Asking(g, p, do, r, to, old)
               PROVE  FALSE
    BY DEF Asks
  <2>1. flight[g].at = "idle" /\ Sends(g, p, do, r, to, old)
    BY DEF Asking
  <2>2. f \in Flights \ {g}
    BY <2>1
  <2> QED BY <2>1, <2>2 DEF Sends, Kin
<1>3. ~ Reloads
  BY DEF Reloads, Reading, Reads, Kin
<1>4. ~ MovesOn
  BY DEF MovesOn, Moving, Moves
<1>5. ~ Finishes
  <2> SUFFICES ASSUME NEW g \in Flights, Ends(g) PROVE FALSE
    BY DEF Finishes, Ending
  <2>1. flight'[g].at = "idle" /\ \A h \in Flights \ {g} : flight'[h] = flight[h]
    BY DEF Ends, NoFlight
  <2> QED BY <2>1
<1>6. ~ (Opens \/ Files \/ Closes \/ UNCHANGED vars)
  BY DEF Opens, Files, Closes, Opening, Listing, Closing, vars
<1>7. PICK g \in Flights, now \in There \cup {"gone"} : Writing(g, now)
  BY <1>1, <1>2, <1>3, <1>4, <1>5, <1>6 DEF Shapes, Alters
<1>8. g = f
  BY <1>7 DEF Writing, Writes, Kin
<1> QED BY <1>7, <1>8

\* Editing a name leaves the activation alone: an edit that carries is_active
\* carries the row's own, unless the box was ticked or unticked or the form was
\* opened on a copy that was, or became, older than the row.
THEOREM EditsKeepActivation == Spec => EditKeepsActivation
<1> DEFINE Kept == \A f \in Flights :
                      (/\ flight[f].do = "edit" /\ flight[f].at = "sent" /\ flight'[f].at = "answered"
                       /\ ~flight[f].old)
                      => row'[flight[f].row] = row[flight[f].row]
<1>1. Init => FormsAgree
  BY DEF Init, FormsAgree, NoForm, NoFlight
<1>2. RostersTypeOK /\ Agreement /\ FormsAgree /\ [Next]_vars => FormsAgree'
  BY NextKeepsForms
<1>3. RostersTypeOK /\ FormsAgree /\ [Next]_vars => Kept
  <2> SUFFICES ASSUME RostersTypeOK, FormsAgree, [Next]_vars, NEW f \in Flights,
                      flight[f].do = "edit", flight[f].at = "sent", flight'[f].at = "answered", ~ flight[f].old
               PROVE  row'[flight[f].row] = row[flight[f].row]
    OBVIOUS
  <2>1. PICK now \in There \cup {"gone"} : Writing(f, now)
    BY EditsAreWritten
  <2>2. flight[f].row \in Rows /\ row \in [Rows -> There \cup {"unborn", "gone"}]
    BY DEF RostersTypeOK, FlightRow
  <2>3. flight[f].to \in {"none", row[flight[f].row]}
    BY DEF FormsAgree
  <2>4. now = row[flight[f].row]
    BY <2>1, <2>3 DEF Writing
  <2> QED BY <2>1, <2>2, <2>4 DEF Writing
<1>4. RostersTypeOK /\ FormsAgree /\ [Next]_vars => [Kept]_vars
  BY <1>3
<1> QED BY <1>1, <1>2, <1>4, RostersTypes, AlwaysAgrees, PTL DEF Spec, EditKeepsActivation
=============================================================================
