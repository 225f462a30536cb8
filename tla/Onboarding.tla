------------------------------ MODULE Onboarding ------------------------------
(***************************************************************************)
(* The KYB dossier of one tenant, from its creation (status kyb_pending)   *)
(* to its activation: the handlers of the server, whose reads and writes   *)
(* are separate statements, the administrators' pages that decide on it    *)
(* from copies they loaded earlier, and the tenant's page, which submits   *)
(* documents.  How the tenant's browser learns of a decision is the        *)
(* subject of Gates.                                                       *)
(***************************************************************************)
EXTENDS Naturals, Sequences, FiniteSets

CONSTANTS
    Types,        \* document types
    Pages,        \* administrators' pages: a subset of {"kyb", "list", "detail"}
    Slots,        \* administrators' requests in flight at once
    MaxDocs,      \* bound: documents
    MaxDecisions, \* bound: decisions on the tenant's status
    MaxPresses,   \* bound: buttons pressed by the administrators
    MaxLost       \* bound: administrators' requests that fail or go unanswered

ASSUME PagesKnown == Pages \subseteq {"kyb", "list", "detail"}
ASSUME TypesExist == Types # {}

VARIABLES
    status,    \* tenants.status
    docs,      \* kyb_documents in order of creation
    desk,      \* administrators' requests in flight
    page,      \* what each administrator's page shows
    upload,    \* the tenant's upload in flight
    offered,   \* the types the tenant's page offers to submit, as of its last load
    last,      \* the last decision recorded in kyb_histories
    decisions, \* history: decisions written so far
    stolen,    \* history: the last write of status came from an upload that
               \* had read it before the last decision
    spent      \* history: presses and losses so far

server == <<status, docs, last, decisions, stolen>>
office == <<desk, page>>
vars == <<server, office, offered, upload, spent>>

Outcome == [activate |-> "active", suspend |-> "suspended", reject |-> "prospect"]
Ruling == [approve |-> "approved", refuse |-> "rejected"]
Decision == DOMAIN Outcome
Review == DOMAIN Ruling

\* after: the number of the decision a submission answers, 0 if it answers none.
NewDoc(ty, n) == [type |-> ty, verdict |-> "pending", after |-> n]

NoRequest == [at |-> "idle", kind |-> "load", from |-> "kyb", doc |-> 0,
              old |-> "none", docs |-> <<>>, alone |-> TRUE]
NoUpload == [at |-> "idle", type |-> CHOOSE ty \in Types : TRUE, old |-> "none", seen |-> 0]

Init ==
    /\ status = "kyb_pending" /\ docs = <<>>
    /\ last = [to |-> "kyb_pending", alone |-> TRUE]
    /\ decisions = 0 /\ stolen = FALSE
    /\ spent = [press |-> 0, loss |-> 0]
    /\ desk = [s \in Slots |-> NoRequest]
    /\ page = [p \in Pages |-> [status |-> "kyb_pending", docs |-> <<>>, loading |-> FALSE]]
    /\ upload = NoUpload
    /\ offered = {}

-----------------------------------------------------------------------------
(* What the administrators' pages offer, from the copies they hold. *)

AllDocsApproved(ds) == ds # <<>> /\ \A d \in DOMAIN ds : ds[d].verdict = "approved"

\* The dossier page: decisions while it shows kyb_pending, reviews of the
\* documents it shows pending, a document added for the tenant.
KybOffers(k, d) ==
    LET c == page["kyb"] IN
    \/ k = "activate" /\ c.status = "kyb_pending" /\ AllDocsApproved(c.docs)
    \/ k = "reject" /\ c.status = "kyb_pending"
    \/ k \in Review /\ d \in DOMAIN c.docs /\ c.docs[d].verdict = "pending"
    \/ k = "add"

ListOffers(k) ==
    \/ k = "activate" /\ page["list"].status # "active"
    \/ k = "suspend" /\ page["list"].status # "suspended"

DetailOffers(k) ==
    \/ k = "activate" /\ page["detail"].status \notin {"active", "prospect"}
    \/ k = "suspend" /\ page["detail"].status = "active"

Offers(p, k, d) ==
    \/ k = "load"
    \/ p = "kyb" /\ KybOffers(k, d)
    \/ p = "list" /\ ListOffers(k)
    \/ p = "detail" /\ DetailOffers(k)

Requested(p, k, d) == [at |-> "sent", kind |-> k, from |-> p, doc |-> d,
                       old |-> "none", docs |-> <<>>, alone |-> TRUE]
DecisionsUnderway == {s \in Slots : desk[s].kind \in Decision /\ desk[s].at \in {"sent", "read"}}

\* A button pressed or a page opened.  Nothing disables a button while its
\* request is in flight; a page that loads shows no button.
Press(s, p, k, d) ==
    /\ desk[s].at = "idle" /\ ~page[p].loading /\ Offers(p, k, d)
    /\ k \in Decision => decisions + Cardinality(DecisionsUnderway) < MaxDecisions
    /\ k \in Review \/ d = 0
    /\ spent.press < MaxPresses /\ spent' = [spent EXCEPT !.press = @ + 1]
    /\ desk' = [desk EXCEPT ![s] = Requested(p, k, d)]
    /\ page' = IF k = "load" THEN [page EXCEPT ![p].loading = TRUE] ELSE page
    /\ UNCHANGED <<server, offered, upload>>

-----------------------------------------------------------------------------
(* The administrators' handlers. *)

\* First statement of ActivateTenant, SuspendTenant and RejectKYB: the tenant
\* is read, for the old status of the history (left out here).
ReadTenant(s) ==
    LET others == {t \in Slots \ {s} : desk[t].kind \in Decision /\ desk[t].at \in {"read", "written"}} IN
    /\ desk[s].at = "sent" /\ desk[s].kind \in Decision
    /\ desk' = [t \in Slots |->
                  IF t = s THEN [desk[s] EXCEPT !.at = "read",
                                                !.alone = (others = {})]
                  ELSE IF t \in others THEN [desk[t] EXCEPT !.alone = FALSE]
                  ELSE desk[t]]
    /\ UNCHANGED <<server, page, offered, upload, spent>>

\* Second statement: the status is written whatever it has become.
WriteStatus(s) ==
    /\ desk[s].at = "read"
    /\ status' = Outcome[desk[s].kind]
    /\ decisions' = decisions + 1
    /\ stolen' = FALSE
    /\ desk' = [desk EXCEPT ![s].at = "written"]
    /\ UNCHANGED <<docs, last, page, offered, upload, spent>>

\* Third statement: the decision enters the history.
RecordDecision(s) ==
    /\ desk[s].at = "written"
    /\ last' = [to |-> Outcome[desk[s].kind], alone |-> desk[s].alone]
    /\ desk' = [desk EXCEPT ![s].at = "answered"]
    /\ UNCHANGED <<status, docs, decisions, stolen, page, offered, upload, spent>>

\* ReviewKYBDocument: no check of the document's verdict or of the status.
ReviewDocument(s) ==
    /\ desk[s].at = "sent" /\ desk[s].kind \in Review
    /\ docs' = [docs EXCEPT ![desk[s].doc].verdict = Ruling[desk[s].kind]]
    /\ desk' = [desk EXCEPT ![s].at = "answered"]
    /\ UNCHANGED <<status, last, decisions, stolen, page, offered, upload, spent>>

\* UploadKYBDocument, by an administrator: the status is left alone.
AddDocument(s, ty) ==
    /\ desk[s].at = "sent" /\ desk[s].kind = "add" /\ Len(docs) < MaxDocs
    /\ docs' = Append(docs, NewDoc(ty, 0))
    /\ desk' = [desk EXCEPT ![s].at = "answered"]
    /\ UNCHANGED <<status, last, decisions, stolen, page, offered, upload, spent>>

\* AddKYBComment touches nothing else.
AddComment(s) ==
    /\ desk[s].at = "sent" /\ desk[s].kind = "comment"
    /\ desk' = [desk EXCEPT ![s].at = "answered"]
    /\ UNCHANGED <<server, page, offered, upload, spent>>

\* GetTenant, ListTenants and, for the dossier page, ListKYBDocuments.
ReadDossier(s) ==
    /\ desk[s].at = "sent" /\ desk[s].kind \in {"load", "refetch"}
    /\ desk' = [desk EXCEPT ![s] =
                  [@ EXCEPT !.at = "answered", !.old = status,
                            !.docs = IF desk[s].from = "kyb" THEN docs ELSE <<>>]]
    /\ UNCHANGED <<server, page, offered, upload, spent>>

-----------------------------------------------------------------------------
(* The answers, at the pages. *)

\* The end of load.
Loaded(s) ==
    LET r == desk[s] IN
    /\ r.at = "answered" /\ r.kind = "load"
    /\ page' = [page EXCEPT ![r.from] = [status |-> r.old, docs |-> r.docs, loading |-> FALSE]]
    /\ desk' = [desk EXCEPT ![s] = NoRequest]
    /\ UNCHANGED <<server, offered, upload, spent>>

\* handleActivate, handleReject: the dossier page patches its copy and adds a
\* comment if it activated, and loads again.  The lists patch their copy and stop
\* there.
Decided(s) ==
    LET r == desk[s] IN
    /\ r.at = "answered" /\ r.kind \in Decision
    /\ page' = [page EXCEPT
                  ![r.from].status = IF r.kind = "reject" THEN @ ELSE Outcome[r.kind],
                  ![r.from].loading = (r.kind = "reject")]
    /\ desk' = [desk EXCEPT ![s] = IF r.from # "kyb" THEN NoRequest
                                   ELSE Requested("kyb", IF r.kind = "reject" THEN "load" ELSE "comment", 0)]
    /\ UNCHANGED <<server, offered, upload, spent>>

Commented(s) ==
    /\ desk[s].at = "answered" /\ desk[s].kind = "comment"
    /\ page' = [page EXCEPT !["kyb"].loading = TRUE]
    /\ desk' = [desk EXCEPT ![s] = Requested("kyb", "load", 0)]
    /\ UNCHANGED <<server, offered, upload, spent>>

\* handleReviewDoc and onRefresh ask for the documents again, without a spinner.
Refetch(s) ==
    /\ desk[s].at = "answered" /\ desk[s].kind \in Review \cup {"add"}
    /\ desk' = [desk EXCEPT ![s] = [Requested("kyb", "refetch", desk[s].doc) EXCEPT !.alone = FALSE]]
    /\ UNCHANGED <<server, page, offered, upload, spent>>

\* The documents arrive; after a review the page then loads everything again.
Refetched(s) ==
    LET r == desk[s] IN
    /\ r.at = "answered" /\ r.kind = "refetch"
    /\ page' = [page EXCEPT !["kyb"].docs = r.docs, !["kyb"].loading = @ \/ r.doc # 0]
    /\ desk' = [desk EXCEPT ![s] = IF r.doc # 0 THEN Requested("kyb", "load", 0) ELSE NoRequest]
    /\ UNCHANGED <<server, offered, upload, spent>>

\* A request that never reached the server, or whose answer is lost: a message
\* is shown and nothing follows.
Lose(s) ==
    /\ desk[s].at \in {"sent", "answered"} /\ spent.loss < MaxLost
    /\ spent' = [spent EXCEPT !.loss = @ + 1]
    /\ desk' = [desk EXCEPT ![s] = NoRequest]
    /\ page' = IF desk[s].kind = "load" THEN [page EXCEPT ![desk[s].from].loading = FALSE]
               ELSE page
    /\ UNCHANGED <<server, offered, upload>>

-----------------------------------------------------------------------------
(* The tenant's page. *)

OfType(ds, ty) == {d \in DOMAIN ds : ds[d].type = ty}
Latest(ds, ty) == CHOOSE d \in OfType(ds, ty) : \A e \in OfType(ds, ty) : e <= d

\* A dossier under way can be completed, except by a type whose newest document
\* is approved.
CanUpload(st, ds, ty) ==
    /\ st \in {"prospect", "kyb_pending"}
    /\ OfType(ds, ty) # {} => ds[Latest(ds, ty)].verdict # "approved"

\* load: when the page opens, at each poll, after a submission.
LoadDossier ==
    /\ offered' = {ty \in Types : CanUpload(status, docs, ty)}
    /\ UNCHANGED <<server, office, upload, spent>>

\* handleFileChange.
Submit(ty) ==
    /\ upload.at = "idle" /\ ty \in offered /\ Len(docs) < MaxDocs
    /\ upload' = [NoUpload EXCEPT !.at = "sent", !.type = ty]
    /\ UNCHANGED <<server, office, offered, spent>>

\* TenantGuard reads the tenant the handler will work from: the KYB routes are
\* refused to a suspended tenant only.
Admit ==
    /\ upload.at = "sent"
    /\ upload' = IF status = "suspended" THEN NoUpload
                 ELSE [upload EXCEPT !.at = "admitted", !.old = status, !.seen = decisions]
    /\ UNCHANGED <<server, office, offered, spent>>

\* UploadMyKYBDocument stores the document and its history row.
Store ==
    /\ upload.at = "admitted" /\ Len(docs) < MaxDocs
    /\ docs' = Append(docs, NewDoc(upload.type, IF upload.seen = decisions THEN decisions ELSE 0))
    /\ upload' = [upload EXCEPT !.at = "stored"]
    /\ UNCHANGED <<status, last, decisions, stolen, office, offered, spent>>

RequeueAlways ==
    /\ upload.at = "stored"
    /\ status' = "kyb_pending"
    /\ stolen' = (stolen \/ (upload.old = "prospect" /\ upload.seen # decisions))
    /\ upload' = NoUpload
    /\ UNCHANGED <<docs, last, decisions, office, offered, spent>>

RequeueNever ==
    /\ upload.at = "stored"
    /\ upload' = NoUpload
    /\ UNCHANGED <<server, office, offered, spent>>

\* Its last statement: a prospect, as the guard read it, is pending again.
Requeue ==
    /\ upload.at = "stored"
    /\ status' = IF upload.old = "prospect" THEN "kyb_pending" ELSE status
    /\ stolen' = (stolen \/ (upload.old = "prospect" /\ upload.seen # decisions))
    /\ upload' = NoUpload
    /\ UNCHANGED <<docs, last, decisions, office, offered, spent>>

-----------------------------------------------------------------------------
Handle(s) ==
    \/ ReadTenant(s) \/ WriteStatus(s) \/ RecordDecision(s) \/ ReviewDocument(s)
    \/ ReadDossier(s) \/ AddComment(s) \/ \E ty \in Types : AddDocument(s, ty)

Answer(s) == Loaded(s) \/ Decided(s) \/ Commented(s) \/ Refetch(s) \/ Refetched(s)

Next ==
    \/ \E s \in Slots :
          \/ \E p \in Pages, k \in Decision \cup Review \cup {"load", "add"}, d \in 0..Len(docs) :
                Press(s, p, k, d)
          \/ Handle(s) \/ Answer(s) \/ Lose(s)
    \/ LoadDossier \/ \E ty \in Types : Submit(ty)
    \/ Admit \/ Store \/ Requeue

Spec == Init /\ [][Next]_vars

-----------------------------------------------------------------------------
\* Races heal: once the last decision ran apart from every other one and no
\* upload wrote over it from a tenant row it had read before, the status is the
\* one the history shows, or kyb_pending after a rejection (or at the start).
\* Decisions, and uploads of UploadMyKYBDocument, read and write separately.
HistoryTellsStatus ==
    (/\ \A s \in Slots : desk[s].at # "written"
     /\ last.alone /\ ~stolen)
    => \/ status = last.to
       \/ last.to = "prospect" /\ status = "kyb_pending"

\* A submission that answers the last rejection puts the dossier back in the
\* administrators' queue, the tenants of status kyb_pending: no prospect has
\* such a document waiting, unless its upload began before the rejection.
SubmissionIsQueued ==
    (upload.at # "stored" /\ status = "prospect")
    => \A d \in DOMAIN docs : docs[d].after # decisions
=============================================================================
