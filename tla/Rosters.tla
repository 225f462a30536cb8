-------------------------------- MODULE Rosters --------------------------------
(***************************************************************************)
(* The pages that list people, a tenant's beneficiaries and team, the      *)
(* administrators of the platform, and act on them row by row.  Each page  *)
(* holds a copy of a table and keeps it up to date after its own requests  *)
(* in one of three ways: the administrators' page flips its copy, the      *)
(* tenant's pages take the row from the answer, the administrator's page   *)
(* of a tenant loads the team again.  The server refuses to remove the     *)
(* last active super administrator, by a count made in a statement of its  *)
(* own.                                                                    *)
(***************************************************************************)
EXTENDS Naturals, FiniteSets

CONSTANTS
    Rows,        \* rows of users and beneficiaries
    Admins,      \* those of super administrators; the others are of one tenant
    Present0,    \* the rows there are at first
    Pages,
    Style,       \* how a page follows its requests: patch, answer or reload
    Operator,    \* the row of the person at each page
    Found,       \* the rows a search finds
    Flights,     \* requests in flight at once
    MaxPresses,  \* bound: what people do
    MaxLost      \* bound: requests that fail on the way

\* SeedSuperAdmin made the first administrator.
ASSUME RowsOfPeople ==
    /\ Admins \subseteq Rows /\ Present0 \subseteq Rows /\ Found \subseteq Rows
    /\ Present0 \cap Admins # {}
ASSUME PagesOfPeople ==
    Pages # {} /\ Style \in [Pages -> {"patch", "answer", "reload"}] /\ Operator \in [Pages -> Rows]

VARIABLES
    row,     \* the tables: unborn, active, inactive or gone
    page,    \* what each page shows
    flight,  \* requests in flight
    raced,   \* history: two removals of administrators were both counted before either wrote
    blurred, \* history: per page, rows whose copy something else may have made stale
    spent    \* history: presses and losses

vars == <<row, page, flight, raced, blurred, spent>>

There == {"active", "inactive"}
Listed(p) == IF Style[p] = "patch" THEN Admins ELSE Rows \ Admins
Flip(s) == IF s = "active" THEN "inactive" ELSE "active"

\* The search box is the beneficiaries' page's.
Matching(p, search) == IF search THEN Listed(p) \cap Found ELSE Listed(p)
Table(p, search) == [r \in Rows |-> IF r \in Matching(p, search) /\ row[r] \in There
                                    THEN row[r] ELSE "none"]

Empty == [r \in Rows |-> "none"]
AnyRow == CHOOSE r \in Rows : TRUE
AnyPage == CHOOSE p \in Pages : TRUE
NoForm == [open |-> FALSE, row |-> AnyRow, copy |-> "none", old |-> FALSE]
NoImport == [open |-> FALSE, left |-> {}, made |-> {}, late |-> {}]
NoFlight == [at |-> "idle", do |-> "load", page |-> AnyPage, row |-> AnyRow, to |-> "none",
             old |-> FALSE, search |-> FALSE, got |-> Empty, blur |-> {}]

Init ==
    /\ row = [r \in Rows |-> IF r \in Present0 THEN "active" ELSE "unborn"]
    /\ page = [p \in Pages |-> [list |-> [r \in Rows |-> IF r \in Listed(p) \cap Present0
                                                         THEN "active" ELSE "none"],
                                search |-> FALSE, loading |-> FALSE, deleting |-> {},
                                form |-> NoForm, import |-> NoImport]]
    /\ flight = [f \in Flights |-> NoFlight]
    /\ raced = FALSE
    /\ blurred = [p \in Pages |-> {}]
    /\ spent = [press |-> 0, loss |-> 0]

-----------------------------------------------------------------------------
(* Requests sent. *)

Of(p) == {f \in Flights : flight[f].at # "idle" /\ flight[f].page = p}
Loading(p) == {f \in Of(p) : flight[f].do = "load"}
Touched(p) == IF Loading(p) # {} THEN Rows ELSE {flight[f].row : f \in Of(p)}

Press(f) ==
    /\ flight[f].at = "idle" /\ spent.press < MaxPresses /\ spent' = [spent EXCEPT !.press = @ + 1]

\* A load answered among other requests of the page may show their rows as they
\* were before them.
LoadRequest(p, search, others) ==
    [NoFlight EXCEPT !.at = "sent", !.page = p, !.search = search, !.blur = others]

\* The page opens, or a key is struck in the search box, at any moment.
Load(f, p, search) ==
    /\ Press(f)
    /\ search => Style[p] = "answer"
    /\ page' = [page EXCEPT ![p].loading = TRUE, ![p].search = search]
    /\ flight' = [g \in Flights |->
                    IF g = f THEN LoadRequest(p, search, Touched(p))
                    ELSE IF g \in Loading(p) THEN [flight[g] EXCEPT !.blur = Rows]
                    ELSE flight[g]]
    /\ UNCHANGED <<row, raced, blurred>>

\* A request about a row, beside others about it or beside a load: its copy
\* depends on their order.
Ask(f, p, do, r, to, old) ==
    LET crossed == IF r \in Touched(p) THEN {r} ELSE {} IN
    /\ blurred' = [blurred EXCEPT ![p] = @ \cup crossed]
    /\ flight' = [g \in Flights |->
                    IF g = f THEN [NoFlight EXCEPT !.at = "sent", !.do = do, !.page = p, !.row = r,
                                                   !.to = to, !.old = old, !.blur = {}]
                    ELSE IF g \in Loading(p) THEN [flight[g] EXCEPT !.blur = @ \cup {r}]
                    ELSE flight[g]]
    /\ UNCHANGED <<row, raced>>

Shown(p) == {r \in Rows : page[p].list[r] # "none"}
NoModal(p) == ~page[p].form.open /\ ~page[p].import.open
Idle(p) == ~page[p].loading /\ NoModal(p)

\* The button of a row: the opposite of what the page shows.
Toggle(f, p, r) ==
    /\ Idle(p) /\ r \in Shown(p) /\ Press(f)
    /\ Ask(f, p, "toggle", r, Flip(page[p].list[r]), FALSE)
    /\ UNCHANGED page

\* The tenant's pages disable the button of a row that is being deleted.
Delete(f, p, r) ==
    /\ Idle(p) /\ r \in Shown(p) \ page[p].deleting /\ Press(f)
    /\ Ask(f, p, "delete", r, "gone", FALSE)
    /\ page' = [page EXCEPT ![p].deleting = IF Style[p] = "answer" THEN @ \cup {r} ELSE @]

\* Rows that nothing is about to create.
New(p) == {r \in Listed(p) : /\ row[r] = "unborn"
                             /\ \A g \in Flights : flight[g].do \in {"add", "import"} => flight[g].row # r
                             /\ \A q \in Pages : r \notin page[q].import.left}

Add(f, p, r) ==
    /\ NoModal(p) /\ r \in New(p) /\ Press(f)
    /\ Ask(f, p, "add", r, "active", FALSE)
    /\ UNCHANGED page

\* A file of beneficiaries: startImport sends its rows one after the other,
\* whatever becomes of each.
Import(p, rs) ==
    /\ NoModal(p) /\ Style[p] = "answer" /\ rs # {} /\ rs \subseteq New(p)
    /\ spent.press < MaxPresses /\ spent' = [spent EXCEPT !.press = @ + 1]
    /\ page' = [page EXCEPT ![p].import = [NoImport EXCEPT !.open = TRUE, !.left = rs]]
    /\ UNCHANGED <<row, flight, raced, blurred>>

ImportRow(f, p, r) ==
    /\ r \in page[p].import.left /\ flight[f].at = "idle"
    /\ \A g \in Of(p) : flight[g].do # "import"
    /\ Ask(f, p, "import", r, "active", FALSE)
    /\ page' = [page EXCEPT ![p].import.left = @ \ {r}]
    /\ UNCHANGED spent

\* Once through, Fermer lists the rows created, twice if a load brought them
\* meanwhile; the cross closes the window and leaves them out.
CloseImport(p, told) ==
    LET made == page[p].import.made IN
    /\ page[p].import.open /\ page[p].import.left = {}
    /\ \A g \in Of(p) : flight[g].do # "import"
    /\ page' = [page EXCEPT ![p].import = NoImport,
                            ![p].list = [r \in Rows |-> IF told /\ r \in made THEN "active" ELSE @[r]]]
    /\ blurred' = [blurred EXCEPT ![p] = @ \cup IF told THEN made \cap (Shown(p) \cup page[p].import.late)
                                                     ELSE made]
    /\ UNCHANGED <<row, flight, raced, spent>>

OpenFormTicked(p, r) ==
    /\ Idle(p) /\ r \in Shown(p) /\ spent.press < MaxPresses
    /\ page' = [page EXCEPT ![p].form = [open |-> TRUE, row |-> r, copy |-> "active",
                                         old |-> r \in blurred[p] \/ Of(p) # {}]]
    /\ UNCHANGED <<row, flight, raced, blurred, spent>>

\* The form of a row starts from the page's copy of it.
OpenForm(p, r) ==
    /\ Idle(p) /\ r \in Shown(p) /\ spent.press < MaxPresses
    /\ page' = [page EXCEPT ![p].form = [open |-> TRUE, row |-> r, copy |-> page[p].list[r],
                                         old |-> r \in blurred[p] \/ Of(p) # {}]]
    /\ UNCHANGED <<row, flight, raced, blurred, spent>>

\* The form of a tenant's user, at the administrator's, also sends is_active, with
\* the box ticked or not; the others send names and role.
\* The window closes on success and stays open on a failure; here it closes at once,
\* and OpenForm opens it again, the row then marked as not to be relied on.
Submit(f, p, ticked) ==
    LET fm == page[p].form IN
    /\ fm.open /\ Press(f)
    /\ Ask(f, p, "edit", fm.row, IF Style[p] = "reload" THEN ticked ELSE "none",
           fm.old \/ ticked # fm.copy)
    /\ page' = [page EXCEPT ![p].form = NoForm]

-----------------------------------------------------------------------------
(* The server. *)

ActiveAdmins == {r \in Admins : row[r] = "active"}
Removal(f) == flight[f].row \in Admins /\ flight[f].to \in {"inactive", "gone"}
Counted == {f \in Flights : flight[f].at = "counted"}

Refuse(f) == flight' = [flight EXCEPT ![f].at = "refused"] /\ UNCHANGED <<row, page, raced, blurred>>

\* A write is news to the other pages, and to the forms open on the row; of an
\* import, late (history) keeps the rows written elsewhere meanwhile.
Write(f) ==
    LET r == flight[f].row
        p == flight[f].page
        now == IF flight[f].to = "none" THEN row[r] ELSE flight[f].to IN
    /\ row' = [row EXCEPT ![r] = now]
    /\ flight' = [g \in Flights |->
                    IF g = f THEN [flight[f] EXCEPT !.at = "answered", !.to = now]
                    ELSE IF flight[g].page # p /\ g \in Loading(flight[g].page)
                    THEN [flight[g] EXCEPT !.blur = @ \cup {r}]
                    ELSE IF flight[g].row = r THEN [flight[g] EXCEPT !.old = TRUE]
                    ELSE flight[g]]
    /\ blurred' = [q \in Pages |-> IF q = p THEN blurred[q] ELSE blurred[q] \cup {r}]
    /\ page' = [q \in Pages |->
                  [page[q] EXCEPT !.form.old = @ \/ (page[q].form.open /\ page[q].form.row = r),
                                  !.import.late = IF q # p /\ page[q].import.open THEN @ \cup {r} ELSE @]]

CountAll(f) ==
    LET me == Operator[flight[f].page] IN
    /\ flight[f].at = "sent" /\ Removal(f)
    /\ IF row[me] = "active" /\ (flight[f].do = "delete" => me # flight[f].row) /\ ActiveAdmins # {}
       THEN /\ flight' = [flight EXCEPT ![f].at = "counted"]
            /\ raced' = (raced \/ Counted # {})
            /\ UNCHANGED <<row, page, blurred>>
       ELSE Refuse(f)
    /\ UNCHANGED spent

\* RequireActiveUser; nobody deletes himself; the count of the other active
\* super administrators.
Count(f) ==
    LET r == flight[f].row
        me == Operator[flight[f].page] IN
    /\ flight[f].at = "sent" /\ Removal(f)
    /\ IF row[me] = "active" /\ (flight[f].do = "delete" => me # r) /\ ActiveAdmins \ {r} # {}
       THEN /\ flight' = [flight EXCEPT ![f].at = "counted"]
            /\ raced' = (raced \/ Counted # {})
            /\ UNCHANGED <<row, page, blurred>>
       ELSE Refuse(f)
    /\ UNCHANGED spent

\* The removal, of a row that may have gone meanwhile; and every other write.
Apply(f) ==
    LET r == flight[f].row
        me == Operator[flight[f].page] IN
    /\ flight[f].do # "load"
    /\ flight[f].at = IF Removal(f) THEN "counted" ELSE "sent"
    /\ IF /\ flight[f].at = "sent" => row[me] = "active"
          /\ row[r] \in There \/ (flight[f].do \in {"add", "import"} /\ row[r] = "unborn")
       THEN Write(f) /\ UNCHANGED raced
       ELSE Refuse(f)
    /\ UNCHANGED spent

List(f) ==
    LET me == Operator[flight[f].page] IN
    /\ flight[f].at = "sent" /\ flight[f].do = "load"
    /\ IF row[me] = "active"
       THEN /\ flight' = [flight EXCEPT ![f].at = "answered",
                                        ![f].got = Table(flight[f].page, flight[f].search)]
            /\ UNCHANGED <<row, page, raced, blurred>>
       ELSE Refuse(f)
    /\ UNCHANGED spent

-----------------------------------------------------------------------------
(* The answers, at the pages. *)

Over(f) == flight' = [flight EXCEPT ![f] = NoFlight]

Loaded(f) ==
    LET p == flight[f].page IN
    /\ flight[f].at = "answered" /\ flight[f].do = "load"
    /\ page' = [page EXCEPT ![p].list = flight[f].got, ![p].loading = FALSE]
    /\ blurred' = [blurred EXCEPT ![p] = flight[f].blur]
    /\ Over(f)
    /\ UNCHANGED <<row, raced, spent>>

FollowKeepsDeleted(p, do, r, to) ==
    LET old == page[p].list[r] IN
    CASE do = "delete" -> old
      [] do = "add" -> to
      [] do \in {"toggle", "edit"} /\ old = "none" -> "none"
      [] do = "toggle" /\ old # "none" /\ Style[p] = "patch" -> Flip(old)
      [] OTHER -> to

\* What the page makes of an answer about a row it may no longer list.
Follow(p, do, r, to) ==
    LET old == page[p].list[r] IN
    CASE do = "delete" -> "none"
      [] do = "add" -> to
      [] do \in {"toggle", "edit"} /\ old = "none" -> "none"
      [] do = "toggle" /\ old # "none" /\ Style[p] = "patch" -> Flip(old)
      [] OTHER -> to

Done(f) ==
    LET p == flight[f].page
        r == flight[f].row
        others == UNION {IF flight[g].do = "load" THEN Rows ELSE {flight[g].row} : g \in Of(p) \ {f}} IN
    /\ flight[f].at = "answered" /\ flight[f].do # "load"
    /\ IF Style[p] = "reload"
       THEN /\ flight' = [g \in Flights |->
                            IF g = f THEN LoadRequest(p, FALSE, others)
                            ELSE IF g \in Loading(p) THEN [flight[g] EXCEPT !.blur = Rows]
                            ELSE flight[g]]
            /\ UNCHANGED page
       ELSE /\ page' = IF flight[f].do = "import"
                       THEN [page EXCEPT ![p].import.made = @ \cup {r}]
                       ELSE [page EXCEPT ![p].list[r] = Follow(p, flight[f].do, r, flight[f].to),
                                         ![p].deleting = @ \ {r}]
            /\ Over(f)
    /\ UNCHANGED <<row, raced, blurred, spent>>

\* A message, or nothing at all; the copy stays.
Failed(f) ==
    LET p == flight[f].page IN
    /\ page' = [page EXCEPT ![p].loading = @ /\ flight[f].do # "load",
                            ![p].deleting = @ \ {flight[f].row}]
    /\ blurred' = [blurred EXCEPT ![p] = @ \cup IF flight[f].do = "load" THEN Rows ELSE {flight[f].row}]
    /\ Over(f)
    /\ UNCHANGED <<row, raced>>

Refused(f) == flight[f].at = "refused" /\ Failed(f) /\ UNCHANGED spent

Lose(f) ==
    /\ flight[f].at \in {"sent", "answered"} /\ spent.loss < MaxLost
    /\ Failed(f)
    /\ spent' = [spent EXCEPT !.loss = @ + 1]

-----------------------------------------------------------------------------
Serve(f) == Count(f) \/ Apply(f) \/ List(f)
Hear(f) == Loaded(f) \/ Done(f) \/ Refused(f)

Next ==
    \E f \in Flights :
        \/ \E p \in Pages :
              \/ \E search \in BOOLEAN : Load(f, p, search)
              \/ \E r \in Rows : Toggle(f, p, r) \/ Delete(f, p, r) \/ Add(f, p, r) \/ OpenForm(p, r)
              \/ \E ticked \in There : Submit(f, p, ticked)
              \/ \E rs \in SUBSET Rows : Import(p, rs)
              \/ \E r \in Rows : ImportRow(f, p, r)
              \/ \E told \in BOOLEAN : CloseImport(p, told)
        \/ Serve(f) \/ Hear(f) \/ Lose(f)

Spec == Init /\ [][Next]_vars

-----------------------------------------------------------------------------
\* The platform keeps an active super administrator, unless two removals were both
\* counted before either was written (the check and the write are two statements).
AdminRemains == raced \/ ActiveAdmins # {}

\* A page at rest shows its table: of the rows its search finds, those there are,
\* active or not, whichever way it follows its requests.  Excepted are the rows
\* another page wrote since, and those about which requests of its own crossed.
QuietPageAgrees ==
    \A p \in Pages : (Of(p) = {} /\ ~page[p].import.open) =>
        \A r \in Matching(p, page[p].search) \ blurred[p] :
            page[p].list[r] = IF row[r] \in There THEN row[r] ELSE "none"

\* Editing a name leaves the activation alone: an edit changes is_active only if the
\* box was ticked or unticked, or its form was opened on a copy that was or became
\* older than the row.
EditKeepsActivation ==
    [][\A f \in Flights :
          (/\ flight[f].do = "edit" /\ flight[f].at = "sent" /\ flight'[f].at = "answered"
           /\ ~flight[f].old)
          => row'[flight[f].row] = row[flight[f].row]]_vars
================================================================================
