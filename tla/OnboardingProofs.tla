-------------------------- MODULE OnboardingProofs --------------------------
(***************************************************************************)
(* Proofs about the KYB dossier, for any number of administrators'         *)
(* requests, documents and decisions: the history tells the status, and a  *)
(* submission that answers a rejection is queued.  Steps that decide       *)
(* nothing and admit no upload are treated together (Calm); the statements *)
(* of a decision and of an upload one by one.                              *)
(***************************************************************************)
EXTENDS Onboarding, SequenceTheorems, TLAPS

Status == {"none", "kyb_pending", "prospect", "active", "suspended"}
Document == [type : Types, verdict : {"pending", "approved", "rejected"}, after : Nat]
Kinds == Decision \cup Review \cup {"load", "add", "comment", "refetch"}
Requests == [at : {"idle", "sent", "read", "written", "answered"},
             kind : Kinds,
             from : {"kyb", "list", "detail"}, doc : Nat, old : Status,
             docs : Seq(Document), alone : BOOLEAN]
Uploads == [at : {"idle", "sent", "admitted", "stored"}, type : Types, old : Status, seen : Nat]

DossierTypes ==
    /\ status \in Status /\ decisions \in Nat /\ stolen \in BOOLEAN
    /\ last \in [to : Status, alone : BOOLEAN]
    /\ docs \in Seq(Document)
    /\ desk \in [Slots -> Requests]
    /\ page \in [Pages -> [status : Status, docs : Seq(Document), loading : BOOLEAN]]
    /\ upload \in Uploads
    /\ offered \subseteq Types

\* A request between its read of the tenant and its row of the history.
Deciding(s) == desk[s].at \in {"read", "written"}

DecidersDecide == \A s \in Slots : Deciding(s) => desk[s].kind \in Decision
Apart == \A s, t \in Slots : s # t /\ Deciding(s) /\ Deciding(t) => ~desk[s].alone

\* The status is the one a decision for x left, or an upload answered it.
Shows(x) == status = x \/ (x = "prospect" /\ status = "kyb_pending")

\* What the history will show is already true when the status is written.
WrittenShows ==
    \A s \in Slots : desk[s].at = "written" /\ desk[s].alone /\ ~stolen
                        => Shows(Outcome[desk[s].kind])

\* An upload that will requeue the dossier answers the last decision, a
\* rejection, whether the history holds it already or not.
Underway == upload.at \in {"admitted", "stored"} /\ upload.seen = decisions
AnswersRejection ==
    Underway /\ upload.old = "prospect" /\ ~stolen =>
       /\ \A s \in Slots : desk[s].at = "written" /\ desk[s].alone
                              => Outcome[desk[s].kind] = "prospect"
       /\ (\A s \in Slots : desk[s].at # "written") /\ last.alone => last.to = "prospect"

\* Numbers of decisions only grow, and a rejection is one.
Numbered ==
    /\ upload.seen <= decisions
    /\ \A d \in DOMAIN docs : docs[d].after <= decisions
    /\ status = "prospect" => decisions > 0

\* While no decision has been written since, the guard's copy of the status shows a
\* rejection if the row does.
GuardSaw == Underway /\ status = "prospect" => upload.old = "prospect"

\* SubmissionIsQueued, with the reason: the upload is about to requeue it.
Waiting ==
    status = "prospect" /\ (\E d \in DOMAIN docs : docs[d].after = decisions)
    => upload.at = "stored" /\ upload.old = "prospect"

\* The inductive invariant: types, what the decisions and the upload agree on,
\* what the queue rests on.
Races == DecidersDecide /\ Apart /\ WrittenShows /\ HistoryTellsStatus /\ AnswersRejection
Queue == Numbered /\ GuardSaw /\ Waiting
IInv == DossierTypes /\ Races /\ Queue

-----------------------------------------------------------------------------
(* Types. *)

\* The outcomes of decisions are statuses, those of reviews are verdicts.
LEMMA Rulings ==
    /\ \A k \in Decision : Outcome[k] \in Status
    /\ \A k \in Review : Ruling[k] \in {"approved", "rejected"}
    /\ Decision \cap Review = {}
    /\ \A k \in {"load", "add", "comment", "refetch"} : k \notin Decision /\ k \notin Review
BY DEF Decision, Review, Outcome, Ruling, Status

\* A slot without a request is a request of its own kind, and so is a new one.
LEMMA NewRequests ==
    /\ NoRequest \in Requests
    /\ \A p \in {"kyb", "list", "detail"}, d \in Nat, k \in Kinds :
          Requested(p, k, d) \in Requests
<1>1. << >> \in Seq(Document) /\ "load" \in Kinds /\ "none" \in Status
  BY EmptySeq DEF Kinds, Status
<1> QED BY <1>1 DEF NoRequest, Requested, Requests

\* A request that moves on keeps its type, and what else it carries.
LEMMA RequestEdits ==
    ASSUME NEW r \in Requests
    PROVE  /\ \A a \in {"read", "written", "answered"} :
                 LET q == [r EXCEPT !.at = a] IN
                 /\ q \in Requests /\ q.at = a /\ q.kind = r.kind /\ q.alone = r.alone
           /\ \A b \in BOOLEAN :
                 LET q == [r EXCEPT !.alone = b] IN
                 /\ q \in Requests /\ q.at = r.at /\ q.kind = r.kind /\ q.alone = b
           /\ \A b \in BOOLEAN :
                 LET q == [r EXCEPT !.at = "read", !.alone = b] IN
                 /\ q \in Requests /\ q.at = "read" /\ q.kind = r.kind /\ q.alone = b
           /\ \A st \in Status, ds \in Seq(Document) :
                 LET q == [r EXCEPT !.at = "answered", !.old = st, !.docs = ds] IN
                 q \in Requests /\ q.at = "answered"
BY DEF Requests

\* A page without an upload.
LEMMA NoUploadType == NoUpload \in Uploads
BY TypesExist DEF NoUpload, Uploads, Status

\* The initial state has the types.
LEMMA InitTypes == Init => DossierTypes
<1>1. << >> \in Seq(Document)
  BY EmptySeq
<1> SUFFICES ASSUME Init PROVE DossierTypes
  OBVIOUS
<1>2. desk \in [Slots -> Requests] /\ upload \in Uploads
  BY NewRequests, NoUploadType DEF Init
<1>3. page \in [Pages -> [status : Status, docs : Seq(Document), loading : BOOLEAN]]
  BY <1>1 DEF Init, Status
<1>4. last \in [to : Status, alone : BOOLEAN]
  BY DEF Init, Status
<1> QED BY <1>1, <1>2, <1>3, <1>4 DEF Init, DossierTypes, Status

\* A review changes the verdict of one document and nothing else of the list.
LEMMA ReviewType ==
    ASSUME docs \in Seq(Document), NEW d, NEW v \in {"approved", "rejected"}
    PROVE  LET ds == [docs EXCEPT ![d].verdict = v] IN
           /\ ds \in Seq(Document) /\ DOMAIN ds = DOMAIN docs
           /\ \A e \in DOMAIN docs : ds[e].after = docs[e].after
<1> DEFINE ds == [docs EXCEPT ![d].verdict = v]
<1>1. Len(docs) \in Nat /\ docs \in [1..Len(docs) -> Document] /\ DOMAIN docs = 1..Len(docs)
  BY LenProperties
<1>2. ASSUME NEW e \in 1..Len(docs)
      PROVE  ds[e] \in Document /\ ds[e].after = docs[e].after
  <2>1. docs[e] \in Document
    BY <1>1
  <2> QED BY <2>1, <1>1 DEF Document
<1>3. ds \in [1..Len(docs) -> Document]
  BY <1>1, <1>2
<1> QED BY <1>1, <1>2, <1>3, SeqDef

\* A document added goes last and leaves the others alone.
LEMMA AppendType ==
    ASSUME docs \in Seq(Document), NEW ty \in Types, NEW n \in Nat
    PROVE  LET ds == Append(docs, NewDoc(ty, n)) IN
           /\ ds \in Seq(Document) /\ DOMAIN ds = DOMAIN docs \cup {Len(docs) + 1}
           /\ \A e \in DOMAIN docs : ds[e] = docs[e]
           /\ ds[Len(docs) + 1].after = n
<1>1. NewDoc(ty, n) \in Document /\ NewDoc(ty, n).after = n
  BY DEF NewDoc, Document
<1>2. Len(docs) \in Nat /\ DOMAIN docs = 1..Len(docs)
  BY LenProperties
<1> QED BY <1>1, <1>2, AppendProperties



\* Every action keeps the types.
LEMMA NextTypes == DossierTypes /\ DecidersDecide /\ [Next]_vars => DossierTypes'
<1> SUFFICES ASSUME DossierTypes, DecidersDecide, [Next]_vars PROVE DossierTypes'
  OBVIOUS
<1> USE PagesKnown
<1>1. ASSUME NEW s \in Slots, NEW p \in Pages, NEW d \in 0..Len(docs),
             NEW k \in Decision \cup Review \cup {"load", "add"}, Press(s, p, k, d)
      PROVE  DossierTypes'
  <2>1. Requested(p, k, d) \in Requests
    <3>1. Len(docs) \in Nat
      BY LenProperties DEF DossierTypes
    <3> QED BY <3>1, NewRequests DEF Kinds
  <2>2. page' \in [Pages -> [status : Status, docs : Seq(Document), loading : BOOLEAN]]
    BY <1>1 DEF Press, DossierTypes
  <2> QED BY <1>1, <2>1, <2>2 DEF Press, DossierTypes, server
<1>2. ASSUME NEW s \in Slots, ReadTenant(s) PROVE DossierTypes'
  <2>1. \A t \in Slots : desk[t] \in Requests
    BY DEF DossierTypes
  <2>2. desk' \in [Slots -> Requests]
    BY <1>2, <2>1, RequestEdits DEF ReadTenant
  <2> QED BY <1>2, <2>2 DEF ReadTenant, DossierTypes, server
<1>3. ASSUME NEW s \in Slots, NEW a \in {"written", "answered"},
             desk' = [desk EXCEPT ![s].at = a]
      PROVE  desk' \in [Slots -> Requests]
  <2> DEFINE q == [desk[s] EXCEPT !.at = a]
  <2>1. desk \in [Slots -> Requests] /\ desk[s] \in Requests
    BY DEF DossierTypes
  <2>2. q \in Requests
    BY <2>1, RequestEdits
  <2>3. desk' = [desk EXCEPT ![s] = q]
    BY <1>3
  <2> HIDE DEF q
  <2> QED BY <2>1, <2>2, <2>3
<1>4. ASSUME NEW s \in Slots, WriteStatus(s) PROVE DossierTypes'
  <2>1. status' \in Status
    BY <1>4, Rulings DEF WriteStatus, DecidersDecide, Deciding
  <2>2. desk' \in [Slots -> Requests]
    BY <1>3, <1>4 DEF WriteStatus
  <2>3. decisions' \in Nat
    BY <1>4 DEF WriteStatus, DossierTypes
  <2> QED BY <1>4, <2>1, <2>2, <2>3 DEF WriteStatus, DossierTypes
<1>5. ASSUME NEW s \in Slots, ReviewDocument(s) PROVE DossierTypes'
  <2>1. docs' \in Seq(Document)
    BY <1>5, Rulings, ReviewType DEF ReviewDocument, DossierTypes
  <2> QED BY <1>3, <1>5, <2>1 DEF ReviewDocument, DossierTypes
<1>6. ASSUME NEW s \in Slots, NEW ty \in Types, AddDocument(s, ty) PROVE DossierTypes'
  <2>1. docs' \in Seq(Document)
    BY <1>6, AppendType DEF AddDocument, DossierTypes
  <2> QED BY <1>3, <1>6, <2>1 DEF AddDocument, DossierTypes
<1>7. ASSUME NEW s \in Slots, ReadDossier(s) PROVE DossierTypes'
  <2>1. << >> \in Seq(Document)
    BY EmptySeq
  <2>2. desk' \in [Slots -> Requests]
    BY <1>7, <2>1, RequestEdits DEF ReadDossier, DossierTypes
  <2> QED BY <1>7, <2>2 DEF ReadDossier, DossierTypes, server
<1>8. ASSUME NEW s \in Slots, AddComment(s) PROVE DossierTypes'
  BY <1>3, <1>8 DEF AddComment, DossierTypes, server
<1>9. ASSUME NEW s \in Slots, RecordDecision(s) PROVE DossierTypes'
  <2>1. desk[s] \in Requests /\ desk[s].kind \in Decision
    BY <1>9 DEF RecordDecision, DossierTypes, DecidersDecide, Deciding
  <2>2. last' \in [to : Status, alone : BOOLEAN]
    BY <1>9, <2>1, Rulings DEF RecordDecision, Requests
  <2> QED BY <1>3, <1>9, <2>2 DEF RecordDecision, DossierTypes
<1>10. ASSUME NEW s \in Slots, NEW q \in Requests, desk' = [desk EXCEPT ![s] = q]
       PROVE  desk' \in [Slots -> Requests]
  BY <1>10 DEF DossierTypes
<1>11. /\ \A f \in {"kyb", "list", "detail"} : Requested(f, "load", 0) \in Requests
       /\ Requested("kyb", "comment", 0) \in Requests
       /\ \A d \in Nat : Requested("kyb", "refetch", d) \in Requests
  BY NewRequests DEF Kinds
<1>12. \A s \in Slots : /\ desk[s] \in Requests /\ desk[s].doc \in Nat
                        /\ desk[s].old \in Status /\ desk[s].docs \in Seq(Document)
  BY DEF DossierTypes, Requests
<1>13. ASSUME NEW s \in Slots, Loaded(s) PROVE DossierTypes'
  <2>1. page' \in [Pages -> [status : Status, docs : Seq(Document), loading : BOOLEAN]]
    BY <1>12, <1>13 DEF Loaded, DossierTypes
  <2> QED BY <1>10, <1>13, <2>1, NewRequests DEF Loaded, DossierTypes, server
<1>14. ASSUME NEW s \in Slots, Decided(s) PROVE DossierTypes'
  <2>1. Outcome[desk[s].kind] \in Status
    BY <1>14, Rulings DEF Decided
  <2>2. page' \in [Pages -> [status : Status, docs : Seq(Document), loading : BOOLEAN]]
    <3> DEFINE f == desk[s].from
               st == IF desk[s].kind = "reject" THEN page[f].status
                     ELSE Outcome[desk[s].kind]
               patched == [page EXCEPT ![f].status = st]
    <3>1. page' = [patched EXCEPT ![f].loading = (desk[s].kind = "reject")]
      BY <1>14 DEF Decided
    <3>2. CASE f \notin Pages
      <4>1. page' = page
        BY <3>1, <3>2 DEF DossierTypes
      <4> QED BY <4>1 DEF DossierTypes
    <3>3. CASE f \in Pages
      <4>1. st \in Status
        BY <2>1, <3>3 DEF DossierTypes
      <4> HIDE DEF st
      <4>2. patched \in [Pages -> [status : Status, docs : Seq(Document), loading : BOOLEAN]]
        BY <4>1 DEF DossierTypes
      <4>3. page' = [patched EXCEPT ![f].loading = (desk[s].kind = "reject")]
        BY <3>1
      <4> HIDE DEF patched
      <4> DEFINE b == (desk[s].kind = "reject")
      <4>4. b \in BOOLEAN /\ page' = [patched EXCEPT ![f].loading = b]
        BY <4>3
      <4> HIDE DEF b, f
      <4> QED BY <4>2, <4>4
    <3> QED BY <3>2, <3>3
  <2>3. desk' \in [Slots -> Requests]
    BY <1>10, <1>11, <1>14, NewRequests DEF Decided
  <2> QED BY <1>14, <2>2, <2>3 DEF Decided, DossierTypes, server
<1>15. ASSUME NEW s \in Slots, Commented(s) PROVE DossierTypes'
  <2>1. page' \in [Pages -> [status : Status, docs : Seq(Document), loading : BOOLEAN]]
    BY <1>15 DEF Commented, DossierTypes
  <2> QED BY <1>10, <1>11, <1>15, <2>1 DEF Commented, DossierTypes, server
<1>16. ASSUME NEW s \in Slots, Refetch(s) PROVE DossierTypes'
  <2>1. desk' \in [Slots -> Requests]
    BY <1>10, <1>11, <1>12, <1>16, RequestEdits DEF Refetch
  <2> QED BY <1>16, <2>1 DEF Refetch, DossierTypes, server
<1>17. ASSUME NEW s \in Slots, Refetched(s) PROVE DossierTypes'
  <2>1. page' \in [Pages -> [status : Status, docs : Seq(Document), loading : BOOLEAN]]
    <3> DEFINE ds == desk[s].docs
               patched == [page EXCEPT !["kyb"].docs = ds]
    <3>1. ds \in Seq(Document)
      BY <1>12
    <3> HIDE DEF ds
    <3>2. patched \in [Pages -> [status : Status, docs : Seq(Document), loading : BOOLEAN]]
      BY <3>1 DEF DossierTypes
    <3>3. page' = [patched EXCEPT !["kyb"].loading = @ \/ desk[s].doc # 0]
      BY <1>17 DEF Refetched, ds
    <3> HIDE DEF patched
    <3> QED BY <3>2, <3>3
  <2>2. desk' \in [Slots -> Requests]
    BY <1>10, <1>11, <1>17, NewRequests DEF Refetched
  <2> QED BY <1>17, <2>1, <2>2 DEF Refetched, DossierTypes, server
<1>18. ASSUME NEW s \in Slots, Lose(s) PROVE DossierTypes'
  <2>1. page' \in [Pages -> [status : Status, docs : Seq(Document), loading : BOOLEAN]]
    BY <1>18 DEF Lose, DossierTypes
  <2> QED BY <1>10, <1>18, <2>1, NewRequests DEF Lose, DossierTypes, server
<1>19. CASE LoadDossier
  BY <1>19 DEF LoadDossier, DossierTypes, server, office
<1>20. ASSUME NEW ty \in Types, Submit(ty) PROVE DossierTypes'
  <2>1. upload' \in Uploads
    BY <1>20, NoUploadType DEF Submit, Uploads
  <2> QED BY <1>20, <2>1 DEF Submit, DossierTypes, server, office
<1>21. CASE Admit
  <2>1. upload' \in Uploads
    BY <1>21, NoUploadType DEF Admit, DossierTypes, Uploads
  <2> QED BY <1>21, <2>1 DEF Admit, DossierTypes, server, office
<1>22. CASE Store
  <2>1. upload.type \in Types /\ decisions \in Nat
    BY DEF DossierTypes, Uploads
  <2>2. docs' \in Seq(Document)
    BY <1>22, <2>1, AppendType DEF Store, DossierTypes
  <2>3. upload' \in Uploads
    BY <1>22 DEF Store, DossierTypes, Uploads
  <2> QED BY <1>22, <2>2, <2>3 DEF Store, DossierTypes, office
<1>23. CASE Requeue
  BY <1>23, NoUploadType DEF Requeue, DossierTypes, Status, office
<1>24. CASE UNCHANGED vars
  BY <1>24 DEF vars, server, office, DossierTypes
<1> QED BY <1>1, <1>2, <1>4, <1>5, <1>6, <1>7, <1>8, <1>9, <1>13, <1>14, <1>15, <1>16,
           <1>17, <1>18, <1>19, <1>20, <1>21, <1>22, <1>23, <1>24 DEF Next, Handle, Answer

-----------------------------------------------------------------------------
(* Steps that decide nothing. *)

Answering == upload.at \in {"admitted", "stored"}

\* No decision and no admitted upload moves, and a document that comes in answers
\* no rejection.
Calm ==
    /\ UNCHANGED <<status, last, decisions, stolen>>
    /\ \A t \in Slots : desk'[t] = desk[t] \/ (~Deciding(t) /\ ~Deciding(t)')
    /\ upload' = upload \/ (~Answering /\ ~Answering' /\ upload'.seen = 0)
    /\ \A d \in DOMAIN docs' :
          docs'[d].after = 0 \/ (d \in DOMAIN docs /\ docs'[d].after = docs[d].after)

\* Such a step disturbs neither the races nor the queue.
LEMMA CalmStep == IInv /\ Calm => Races' /\ Queue'
<1> SUFFICES ASSUME IInv, Calm PROVE Races' /\ Queue'
  OBVIOUS
<1> USE DEF Calm
<1>1. \A t \in Slots : Deciding(t)' => Deciding(t) /\ desk'[t] = desk[t]
  BY DEF Deciding
<1>2. \A t \in Slots : desk'[t].at = "written" <=> desk[t].at = "written"
  BY DEF Deciding
<1>3. DecidersDecide' /\ Apart'
  BY <1>1 DEF IInv, Races, DecidersDecide, Apart
<1>4. WrittenShows'
  BY <1>1, <1>2 DEF IInv, Races, WrittenShows, Shows, Deciding
<1>5. HistoryTellsStatus'
  BY <1>2 DEF IInv, Races, HistoryTellsStatus
<1>6. Underway' => Underway /\ upload' = upload
  BY DEF Underway, Answering
<1>7. AnswersRejection'
  BY <1>1, <1>2, <1>6 DEF IInv, Races, AnswersRejection, Deciding
<1>8. decisions \in Nat
  BY DEF IInv, DossierTypes
<1>9. Numbered'
  BY <1>8 DEF IInv, Queue, Numbered
<1>10. GuardSaw'
  BY <1>6 DEF IInv, Queue, GuardSaw
<1>11. Waiting'
  <2> SUFFICES ASSUME status = "prospect", NEW d \in DOMAIN docs', docs'[d].after = decisions
               PROVE  upload'.at = "stored" /\ upload'.old = "prospect"
    BY DEF Waiting
  <2>1. decisions # 0
    BY <1>8 DEF IInv, Queue, Numbered
  <2>2. upload.at = "stored" /\ upload.old = "prospect"
    BY <2>1 DEF IInv, Queue, Waiting
  <2> QED BY <2>2 DEF Answering
<1> QED BY <1>3, <1>4, <1>5, <1>7, <1>9, <1>10, <1>11 DEF Races, Queue

\* A slot that was not deciding and receives a request that does not decide.
LEMMA CalmDesk ==
    ASSUME DossierTypes, NEW s \in Slots, ~Deciding(s), NEW q,
           q.at \notin {"read", "written"}, desk' = [desk EXCEPT ![s] = q]
    PROVE  \A t \in Slots : desk'[t] = desk[t] \/ (~Deciding(t) /\ ~Deciding(t)')
BY DEF DossierTypes, Deciding

\* The same, for a slot whose request is answered.
LEMMA CalmAnswer ==
    ASSUME DossierTypes, NEW s \in Slots, ~Deciding(s),
           desk' = [desk EXCEPT ![s].at = "answered"]
    PROVE  \A t \in Slots : desk'[t] = desk[t] \/ (~Deciding(t) /\ ~Deciding(t)')
<1> DEFINE q == [desk[s] EXCEPT !.at = "answered"]
<1>1. q.at = "answered"
  BY RequestEdits DEF DossierTypes
<1>2. desk' = [desk EXCEPT ![s] = q]
  OBVIOUS
<1> HIDE DEF q
<1> QED BY <1>1, <1>2, CalmDesk

\* What administrators press, read, receive or lose, and what they do to the
\* documents, is calm.
LEMMA OfficeIsCalm ==
    ASSUME DossierTypes, NEW s \in Slots,
           \/ \E p \in Pages, k \in Decision \cup Review \cup {"load", "add"}, d \in 0..Len(docs) :
                 Press(s, p, k, d)
           \/ ReviewDocument(s) \/ ReadDossier(s) \/ AddComment(s)
           \/ \E ty \in Types : AddDocument(s, ty)
           \/ Answer(s) \/ Lose(s)
    PROVE  Calm
<1>1. NoRequest.at = "idle" /\ \A p, k, d : Requested(p, k, d).at = "sent"
  BY DEF NoRequest, Requested
<1>2. CASE \E p \in Pages, k \in Decision \cup Review \cup {"load", "add"}, d \in 0..Len(docs) :
                 Press(s, p, k, d)
  <2>1. PICK p \in Pages, k \in Decision \cup Review \cup {"load", "add"}, d \in 0..Len(docs) :
                 Press(s, p, k, d)
    BY <1>2
  <2>2. \A t \in Slots : desk'[t] = desk[t] \/ (~Deciding(t) /\ ~Deciding(t)')
    BY <1>1, <2>1, CalmDesk DEF Press, Deciding
  <2> QED BY <2>1, <2>2 DEF Press, Calm, server
<1>3. CASE ReviewDocument(s)
  <2>1. \A t \in Slots : desk'[t] = desk[t] \/ (~Deciding(t) /\ ~Deciding(t)')
    BY <1>3, CalmAnswer DEF ReviewDocument, Deciding
  <2>2. DOMAIN docs' = DOMAIN docs /\ \A e \in DOMAIN docs : docs'[e].after = docs[e].after
    BY <1>3, Rulings, ReviewType DEF ReviewDocument, DossierTypes
  <2> QED BY <1>3, <2>1, <2>2 DEF ReviewDocument, Calm
<1>4. CASE ReadDossier(s)
  <2> DEFINE ds == IF desk[s].from = "kyb" THEN docs ELSE << >>
             q == [desk[s] EXCEPT !.at = "answered", !.old = status, !.docs = ds]
  <2>1. ds \in Seq(Document) /\ status \in Status /\ desk[s] \in Requests
    BY EmptySeq DEF DossierTypes
  <2> HIDE DEF ds
  <2>2. q.at = "answered"
    BY <2>1 DEF Requests
  <2>3. desk' = [desk EXCEPT ![s] = q]
    BY <1>4 DEF ReadDossier, ds
  <2> HIDE DEF q
  <2>4. \A t \in Slots : desk'[t] = desk[t] \/ (~Deciding(t) /\ ~Deciding(t)')
    BY <1>4, <2>2, <2>3, CalmDesk DEF ReadDossier, Deciding
  <2> QED BY <1>4, <2>4 DEF ReadDossier, Calm, server
<1>5. CASE AddComment(s)
  <2>1. \A t \in Slots : desk'[t] = desk[t] \/ (~Deciding(t) /\ ~Deciding(t)')
    BY <1>5, CalmAnswer DEF AddComment, Deciding
  <2> QED BY <1>5, <2>1 DEF AddComment, Calm, server
<1>6. CASE \E ty \in Types : AddDocument(s, ty)
  <2>1. PICK ty \in Types : AddDocument(s, ty)
    BY <1>6
  <2>2. \A t \in Slots : desk'[t] = desk[t] \/ (~Deciding(t) /\ ~Deciding(t)')
    BY <2>1, CalmAnswer DEF AddDocument, Deciding
  <2>3. \A d \in DOMAIN docs' :
           docs'[d].after = 0 \/ (d \in DOMAIN docs /\ docs'[d].after = docs[d].after)
    BY <2>1, AppendType DEF AddDocument, DossierTypes
  <2> QED BY <2>1, <2>2, <2>3 DEF AddDocument, Calm
<1>7. CASE Answer(s)
  <2>1. ~Deciding(s)
    BY <1>7 DEF Answer, Loaded, Decided, Commented, Refetch, Refetched, Deciding
  <2>2. CASE Refetch(s)
    <3> DEFINE r == Requested("kyb", "refetch", desk[s].doc)
    <3>1. r \in Requests
      BY NewRequests DEF Kinds, DossierTypes, Requests
    <3>2. [r EXCEPT !.alone = FALSE].at = "sent"
      BY <1>1, <3>1, RequestEdits DEF Requested
    <3> QED BY <2>1, <2>2, <3>2, CalmDesk DEF Refetch, Calm, server
  <2>3. CASE Loaded(s) \/ Decided(s) \/ Commented(s) \/ Refetched(s)
    <3> DEFINE Still == \A t \in Slots : desk'[t] = desk[t] \/ (~Deciding(t) /\ ~Deciding(t)')
    <3>1. ASSUME NEW q, q \in {NoRequest} \cup {Requested("kyb", k, 0) : k \in {"load", "comment"}},
                 desk' = [desk EXCEPT ![s] = q]
          PROVE  Still
      <4>1. q.at \in {"idle", "sent"}
        BY <1>1, <3>1
      <4> QED BY <2>1, <3>1, <4>1, CalmDesk
    <3> HIDE DEF Still
    <3>2. Still
      BY <2>3, <3>1 DEF Loaded, Decided, Commented, Refetched
    <3> QED BY <2>3, <3>2 DEF Still, Loaded, Decided, Commented, Refetched, Calm, server
  <2> QED BY <1>7, <2>2, <2>3 DEF Answer
<1>8. CASE Lose(s)
  <2>1. \A t \in Slots : desk'[t] = desk[t] \/ (~Deciding(t) /\ ~Deciding(t)')
    BY <1>1, <1>8, CalmDesk DEF Lose, Deciding
  <2> QED BY <1>8, <2>1 DEF Lose, Calm, server
<1> QED BY <1>2, <1>3, <1>4, <1>5, <1>6, <1>7, <1>8

\* So is what the tenant's page does before its upload is admitted.
LEMMA TenantIsCalm ==
    ASSUME DossierTypes,
           \/ LoadDossier \/ \E ty \in Types : Submit(ty)
           \/ Admit /\ status = "suspended"
           \/ UNCHANGED vars
    PROVE  Calm
<1>1. CASE \E ty \in Types : Submit(ty)
  BY <1>1 DEF Submit, NoUpload, Calm, Answering, server, office
<1>2. CASE Admit /\ status = "suspended"
  BY <1>2 DEF Admit, NoUpload, Calm, Answering, server, office
<1> QED BY <1>1, <1>2 DEF LoadDossier, Calm, vars, server, office

-----------------------------------------------------------------------------
(* The three statements of a decision, and the upload. *)

\* A decision that reads the tenant while another is under way makes both of
\* them unreliable; alone, it has recorded nothing yet.
LEMMA ReadTenantStep ==
    ASSUME IInv, NEW s \in Slots, ReadTenant(s)
    PROVE  Races' /\ Queue'
<1> DEFINE others == {t \in Slots \ {s} : desk[t].kind \in Decision /\ desk[t].at \in {"read", "written"}}
<1>1. \A t \in Slots : desk[t] \in Requests
  BY DEF IInv, DossierTypes
<1>2. /\ desk'[s].at = "read" /\ desk'[s].kind = desk[s].kind
      /\ desk'[s].alone = (others = {})
  <2> DEFINE b == (others = {})
             q == [desk[s] EXCEPT !.at = "read", !.alone = b]
  <2>1. b \in BOOLEAN /\ desk[s] \in Requests
    BY <1>1
  <2>2. desk'[s] = q
    BY DEF ReadTenant
  <2> HIDE DEF b
  <2>3. q.at = "read" /\ q.kind = desk[s].kind /\ q.alone = b
    BY <2>1 DEF Requests
  <2> HIDE DEF q
  <2> QED BY <2>2, <2>3 DEF b
<1>3. \A t \in others : /\ desk'[t].at = desk[t].at /\ desk'[t].kind = desk[t].kind
                        /\ ~desk'[t].alone
  BY <1>1, RequestEdits DEF ReadTenant
<1>4. \A t \in Slots \ (others \cup {s}) : desk'[t] = desk[t]
  BY DEF ReadTenant
<1>5. others = {t \in Slots \ {s} : Deciding(t)}
  BY DEF IInv, Races, DecidersDecide, Deciding
<1>6. \A t \in Slots : desk'[t].at = "written" <=> desk[t].at = "written"
  BY <1>2, <1>3, <1>4 DEF ReadTenant
<1>7. \A t \in Slots : desk'[t].at = "written" /\ desk'[t].alone
                         => desk'[t] = desk[t]
  BY <1>2, <1>3, <1>4
<1>8. \A t \in Slots \ {s} : Deciding(t)' => t \in others
  BY <1>3, <1>4, <1>5 DEF Deciding
<1> HIDE DEF others
<1>9. DecidersDecide'
  BY <1>2, <1>3, <1>4, <1>5 DEF IInv, Races, DecidersDecide, Deciding, ReadTenant
<1>10. Apart'
  <2> SUFFICES ASSUME NEW t \in Slots, NEW u \in Slots, t # u, Deciding(t)', Deciding(u)'
               PROVE  ~desk'[t].alone
    BY DEF Apart
  <2>1. CASE t = s
    BY <1>2, <1>8, <2>1
  <2>2. CASE t # s
    BY <1>3, <1>8, <2>2
  <2> QED BY <2>1, <2>2
<1>11. UNCHANGED <<status, docs, last, decisions, stolen, upload>>
  BY DEF ReadTenant, server
<1>12. WrittenShows'
  BY <1>7, <1>11, <1>6 DEF IInv, Races, WrittenShows, Shows
<1>13. HistoryTellsStatus'
  BY <1>6, <1>11 DEF IInv, Races, HistoryTellsStatus
<1>14. AnswersRejection'
  BY <1>6, <1>7, <1>11 DEF IInv, Races, AnswersRejection, Underway
<1>15. Queue'
  BY <1>11 DEF IInv, Queue, Numbered, GuardSaw, Waiting, Underway
<1> QED BY <1>9, <1>10, <1>12, <1>13, <1>14, <1>15 DEF Races

\* A decision written alone is what the status shows; whatever upload had been
\* admitted, it read the tenant before.
LEMMA WriteStatusStep ==
    ASSUME IInv, NEW s \in Slots, WriteStatus(s)
    PROVE  Races' /\ Queue'
<1>1. \A t \in Slots : desk[t] \in Requests
  BY DEF IInv, DossierTypes
<1>2. /\ desk'[s].at = "written" /\ desk'[s].kind = desk[s].kind
      /\ desk'[s].alone = desk[s].alone
      /\ \A t \in Slots \ {s} : desk'[t] = desk[t]
  <2> DEFINE q == [desk[s] EXCEPT !.at = "written"]
  <2>1. q.at = "written" /\ q.kind = desk[s].kind /\ q.alone = desk[s].alone
    BY <1>1 DEF Requests
  <2>2. desk' = [desk EXCEPT ![s] = q] /\ desk \in [Slots -> Requests]
    BY DEF WriteStatus, IInv, DossierTypes
  <2> HIDE DEF q
  <2> QED BY <2>1, <2>2
<1>3. \A t \in Slots : Deciding(t)' <=> Deciding(t)
  BY <1>2 DEF Deciding, WriteStatus
<1>4. DecidersDecide' /\ Apart'
  BY <1>2, <1>3 DEF IInv, Races, DecidersDecide, Apart
<1>5. WrittenShows'
  <2> SUFFICES ASSUME NEW t \in Slots, desk'[t].at = "written", desk'[t].alone
               PROVE  status' = Outcome[desk'[t].kind]
    BY DEF WrittenShows, Shows
  <2>1. t = s
    BY <1>2, <1>4 DEF Apart, Deciding
  <2> QED BY <1>2, <2>1 DEF WriteStatus
<1>6. HistoryTellsStatus'
  BY <1>2 DEF HistoryTellsStatus
<1>7. decisions \in Nat /\ decisions' = decisions + 1 /\ upload' = upload /\ docs' = docs
      /\ upload.seen \in Nat
  BY DEF IInv, DossierTypes, Uploads, WriteStatus
<1>8. \A d \in DOMAIN docs : docs[d].after \in Nat /\ docs[d].after <= decisions
  <2>1. docs \in [1..Len(docs) -> Document] /\ DOMAIN docs = 1..Len(docs)
    BY LenProperties DEF IInv, DossierTypes
  <2>2. \A d \in DOMAIN docs : docs[d] \in Document
    BY <2>1
  <2> QED BY <2>2 DEF IInv, Queue, Numbered, Document
<1>9. ~Underway'
  BY <1>7 DEF IInv, Queue, Numbered, Underway
<1>10. AnswersRejection' /\ GuardSaw'
  BY <1>9 DEF AnswersRejection, GuardSaw
<1>11. Numbered' /\ Waiting'
  BY <1>7, <1>8 DEF IInv, Queue, Numbered, Waiting
<1> QED BY <1>4, <1>5, <1>6, <1>10, <1>11 DEF Races, Queue

\* The row of the history says what the status shows already.
LEMMA RecordDecisionStep ==
    ASSUME IInv, NEW s \in Slots, RecordDecision(s)
    PROVE  Races' /\ Queue'
<1>1. /\ desk'[s].at = "answered"
      /\ \A t \in Slots \ {s} : desk'[t] = desk[t]
  <2> DEFINE q == [desk[s] EXCEPT !.at = "answered"]
  <2>1. q.at = "answered"
    BY DEF IInv, DossierTypes, Requests
  <2>2. desk' = [desk EXCEPT ![s] = q] /\ desk \in [Slots -> Requests]
    BY DEF RecordDecision, IInv, DossierTypes
  <2> HIDE DEF q
  <2> QED BY <2>1, <2>2
<1>2. \A t \in Slots : Deciding(t)' => t # s /\ Deciding(t) /\ desk'[t] = desk[t]
  <2> SUFFICES ASSUME NEW t \in Slots, desk'[t].at \in {"read", "written"}
               PROVE  t # s /\ Deciding(t) /\ desk'[t] = desk[t]
    BY DEF Deciding
  <2>1. t # s
    BY <1>1
  <2> QED BY <1>1, <2>1 DEF Deciding
<1>3. \A t \in Slots : desk'[t].at = "written" => t # s /\ desk[t].at = "written" /\ desk'[t] = desk[t]
  BY <1>1
<1>4. UNCHANGED <<status, docs, decisions, stolen, upload>> /\ desk[s].at = "written"
  BY DEF RecordDecision
<1>5. last'.to = Outcome[desk[s].kind] /\ last'.alone = desk[s].alone
  BY DEF RecordDecision
<1>6. DecidersDecide' /\ Apart'
  BY <1>2 DEF IInv, Races, DecidersDecide, Apart
<1>7. WrittenShows'
  BY <1>3, <1>4 DEF IInv, Races, WrittenShows, Shows
<1>8. HistoryTellsStatus'
  BY <1>4, <1>5 DEF IInv, Races, WrittenShows, Shows, HistoryTellsStatus
<1>9. AnswersRejection'
  BY <1>3, <1>4, <1>5 DEF IInv, Races, AnswersRejection, Underway
<1>10. Queue'
  BY <1>4 DEF IInv, Queue, Numbered, GuardSaw, Waiting, Underway
<1> QED BY <1>6, <1>7, <1>8, <1>9, <1>10 DEF Races

\* The copy the guard takes of a prospect answers the decision that made it one.
LEMMA AdmitStep ==
    ASSUME IInv, Admit, status # "suspended"
    PROVE  Races' /\ Queue'
<1>1. /\ UNCHANGED <<status, docs, last, decisions, stolen, desk>>
      /\ upload.at = "sent" /\ upload'.at = "admitted"
      /\ upload'.old = status /\ upload'.seen = decisions
  BY DEF Admit, server, office, IInv, DossierTypes, Uploads
<1>2. DecidersDecide' /\ Apart' /\ WrittenShows' /\ HistoryTellsStatus'
  BY <1>1 DEF IInv, Races, DecidersDecide, Apart, Deciding, WrittenShows, Shows, HistoryTellsStatus
<1>3. AnswersRejection'
  BY <1>1 DEF IInv, Races, WrittenShows, Shows, HistoryTellsStatus, AnswersRejection
<1>4. Numbered'
  BY <1>1 DEF IInv, DossierTypes, Queue, Numbered
<1>5. GuardSaw' /\ Waiting'
  BY <1>1 DEF IInv, Queue, GuardSaw, Waiting
<1> QED BY <1>2, <1>3, <1>4, <1>5 DEF Races, Queue

\* A document that answers a rejection is stored by an upload that will requeue.
LEMMA StoreStep ==
    ASSUME IInv, Store
    PROVE  Races' /\ Queue'
<1>1. /\ UNCHANGED <<status, last, decisions, stolen, desk>>
      /\ upload.at = "admitted" /\ upload'.at = "stored"
      /\ upload'.old = upload.old /\ upload'.seen = upload.seen
  BY DEF Store, office, IInv, DossierTypes, Uploads
<1>2. decisions \in Nat /\ upload.type \in Types
  BY DEF IInv, DossierTypes, Uploads
<1> DEFINE n == IF upload.seen = decisions THEN decisions ELSE 0
<1>3. n \in Nat /\ docs \in Seq(Document) /\ docs' = Append(docs, NewDoc(upload.type, n))
  BY <1>2 DEF Store, IInv, DossierTypes
<1> HIDE DEF n
<1>4. /\ DOMAIN docs' = DOMAIN docs \cup {Len(docs) + 1}
      /\ \A e \in DOMAIN docs : docs'[e] = docs[e]
      /\ docs'[Len(docs) + 1].after = n
  BY <1>2, <1>3, AppendType
<1>5. DecidersDecide' /\ Apart' /\ WrittenShows' /\ HistoryTellsStatus'
  BY <1>1 DEF IInv, Races, DecidersDecide, Apart, Deciding, WrittenShows, Shows, HistoryTellsStatus
<1>6. AnswersRejection' /\ GuardSaw'
  BY <1>1 DEF IInv, Races, Queue, AnswersRejection, GuardSaw, Underway
<1>7. Numbered'
  BY <1>1, <1>2, <1>4 DEF IInv, Queue, Numbered, n
<1>8. Waiting'
  <2> SUFFICES ASSUME status = "prospect", NEW d \in DOMAIN docs', docs'[d].after = decisions
               PROVE  upload.old = "prospect"
    BY <1>1 DEF Waiting
  <2>1. CASE d \in DOMAIN docs
    BY <1>1, <1>4, <2>1 DEF IInv, Queue, Waiting
  <2>2. CASE d = Len(docs) + 1
    <3>1. n = decisions /\ decisions # 0
      BY <1>2, <1>4, <2>2 DEF IInv, Queue, Numbered
    <3> QED BY <1>1, <3>1 DEF n, IInv, Queue, GuardSaw, Underway
  <2> QED BY <1>4, <2>1, <2>2
<1> QED BY <1>5, <1>6, <1>7, <1>8 DEF Races, Queue

\* The last statement of an upload makes a prospect pending again: either that is
\* what a rejection allows, or the write is one the history cannot explain.
LEMMA RequeueStep ==
    ASSUME IInv, Requeue
    PROVE  Races' /\ Queue'
<1>1. /\ UNCHANGED <<docs, last, decisions, desk>>
      /\ upload.at = "stored" /\ upload'.at = "idle" /\ upload'.seen = 0
      /\ status' = IF upload.old = "prospect" THEN "kyb_pending" ELSE status
      /\ stolen' = (stolen \/ (upload.old = "prospect" /\ upload.seen # decisions))
  BY DEF Requeue, NoUpload, office
<1>2. stolen \in BOOLEAN /\ decisions \in Nat
  BY DEF IInv, DossierTypes
<1>3. DecidersDecide' /\ Apart'
  BY <1>1 DEF IInv, Races, DecidersDecide, Apart, Deciding
<1>4. ASSUME upload.old = "prospect" PROVE WrittenShows' /\ HistoryTellsStatus'
  <2>1. ~stolen' => ~stolen /\ Underway
    BY <1>1, <1>2, <1>4 DEF Underway
  <2>2. WrittenShows'
    BY <1>1, <1>4, <2>1 DEF IInv, Races, AnswersRejection, WrittenShows, Shows
  <2>3. HistoryTellsStatus'
    BY <1>1, <1>4, <2>1 DEF IInv, Races, AnswersRejection, HistoryTellsStatus
  <2> QED BY <2>2, <2>3
<1>5. ASSUME upload.old # "prospect" PROVE WrittenShows' /\ HistoryTellsStatus'
  BY <1>1, <1>2, <1>5 DEF IInv, Races, WrittenShows, Shows, HistoryTellsStatus
<1>6. WrittenShows' /\ HistoryTellsStatus'
  BY <1>4, <1>5
<1>7. AnswersRejection' /\ GuardSaw'
  BY <1>1 DEF AnswersRejection, GuardSaw, Underway
<1>8. Numbered'
  BY <1>1, <1>2 DEF IInv, Queue, Numbered
<1>9. Waiting'
  BY <1>1 DEF IInv, Queue, Waiting
<1> QED BY <1>3, <1>6, <1>7, <1>8, <1>9 DEF Races, Queue

-----------------------------------------------------------------------------
(* The theorems. *)

\* The invariant holds before anything is asked or decided.
LEMMA InitIInv == Init => IInv
<1> SUFFICES ASSUME Init PROVE IInv
  OBVIOUS
<1>1. \A s \in Slots : ~Deciding(s) /\ desk[s].at # "written"
  BY DEF Init, NoRequest, Deciding
<1>2. Races
  BY <1>1 DEF Init, Races, DecidersDecide, Apart, WrittenShows, Shows, HistoryTellsStatus,
              AnswersRejection, Underway, NoUpload
<1>3. Queue
  BY EmptySeq DEF Init, Queue, Numbered, GuardSaw, Waiting, Underway, NoUpload
<1> QED BY <1>2, <1>3, InitTypes DEF IInv

\* Every step keeps it.
LEMMA NextIInv == IInv /\ [Next]_vars => IInv'
<1> SUFFICES ASSUME IInv, [Next]_vars PROVE IInv'
  OBVIOUS
<1>1. DossierTypes'
  BY NextTypes DEF IInv, Races
<1>2. ASSUME Calm PROVE Races' /\ Queue'
  BY <1>2, CalmStep
<1>3. ASSUME NEW s \in Slots,
             \/ \E p \in Pages, k \in Decision \cup Review \cup {"load", "add"}, d \in 0..Len(docs) :
                   Press(s, p, k, d)
             \/ Handle(s) \/ Answer(s) \/ Lose(s)
      PROVE  Races' /\ Queue'
  <2>1. CASE ReadTenant(s) \/ WriteStatus(s) \/ RecordDecision(s)
    BY <2>1, ReadTenantStep, WriteStatusStep, RecordDecisionStep
  <2>2. CASE ~(ReadTenant(s) \/ WriteStatus(s) \/ RecordDecision(s))
    BY <1>2, <1>3, <2>2, OfficeIsCalm DEF Handle, IInv
  <2> QED BY <2>1, <2>2
<1>4. ASSUME LoadDossier \/ (\E ty \in Types : Submit(ty)) \/ UNCHANGED vars
      PROVE  Races' /\ Queue'
  BY <1>2, <1>4, TenantIsCalm DEF IInv
<1>5. ASSUME Admit PROVE Races' /\ Queue'
  BY <1>2, <1>5, TenantIsCalm, AdmitStep DEF IInv
<1>6. ASSUME Store \/ Requeue PROVE Races' /\ Queue'
  BY <1>6, StoreStep, RequeueStep
<1>7. Races' /\ Queue'
  BY <1>3, <1>4, <1>5, <1>6 DEF Next
<1> QED BY <1>1, <1>7 DEF IInv

\* The invariant holds in every reachable state.
THEOREM DossierInvariant == Spec => []IInv
BY InitIInv, NextIInv, PTL DEF Spec

\* The status of a tenant is the one the history shows once the last decision
\* ran apart from the others and no upload wrote over it from an older copy
\* (ActivateTenant, SuspendTenant, RejectKYB, UploadMyKYBDocument).
THEOREM HistoryAlwaysTells == Spec => []HistoryTellsStatus
<1>1. IInv => HistoryTellsStatus
  BY DEF IInv, Races
<1> QED BY <1>1, DossierInvariant, PTL

\* No prospect has a document waiting that answers its rejection: such a document
\* puts the dossier back in the queue (UploadMyKYBDocument).
THEOREM SubmissionsAlwaysQueued == Spec => []SubmissionIsQueued
<1>1. IInv => SubmissionIsQueued
  BY DEF IInv, Queue, Waiting, SubmissionIsQueued
<1> QED BY <1>1, DossierInvariant, PTL
=============================================================================
