------------------------------ MODULE Gateway ------------------------------
(***************************************************************************)
(* The transfers of batch items at the operators: what a worker's attempts *)
(* (process, workers/disbursement.go) and the gateway it calls make of the *)
(* operator's replies, and what the operator has in its own books          *)
(* meanwhile.  Disbursement has the same attempts without those books;     *)
(* here every item has its one job, which no fault loses.                  *)
(*                                                                         *)
(* A request may be late or lost on its way, so may its reply.  Orange's   *)
(* request carries nothing by which a repetition could be recognised, and  *)
(* what Moov makes of a request-id it has seen is not known to the code:   *)
(* any request sent may become a payment of its own.                       *)
(***************************************************************************)
EXTENDS GatewayAnswers, FiniteSets

CONSTANTS Items,
          OperatorOf,    \* the mobile-money operator of each item
          MaxRetries     \* configuration of the workers

ASSUME GatewayAssumption ==
    OperatorOf \in [Items -> {"orange", "moov"}] /\ MaxRetries \in Nat \ {0}

VARIABLES job,       \* the job of each item
          transfer,  \* the operator's books: what became of the n-th request
          unheard,   \* history: requests whose reply was not heard
          told       \* history: what the operator said last of an item's last request

vars == <<job, transfer, unheard, told>>

Attempts == 1..MaxRetries

\* OperatorRef: none, the operator's number of the n-th transfer, or the request-id,
\* which all requests for an item share.
NoRef == 0
RequestId == MaxRetries + 1

NewJob == [at |-> "due", attempt |-> 0, ref |-> NoRef]

Init ==
    /\ job = [i \in Items |-> NewJob]
    /\ transfer = [i \in Items |-> [n \in Attempts |-> "none"]]
    /\ unheard = [i \in Items |-> 0]
    /\ told = [i \in Items |-> "nothing"]

-----------------------------------------------------------------------------
(* The operator, outside the code: a request arrives, late perhaps; a      *)
(* transfer that waits is paid or refused some time.                       *)

Operator(i, n) ==
    /\ \/ transfer[i][n] = "sent" /\ OperatorOf[i] = "moov"
          /\ \E st \in {"waiting", "refused"} : transfer' = [transfer EXCEPT ![i][n] = st]
       \/ \/ transfer[i][n] = "sent" /\ OperatorOf[i] = "orange"
          \/ transfer[i][n] = "waiting"
          /\ \E st \in {"waiting", "paid", "refused"} : transfer' = [transfer EXCEPT ![i][n] = st]
    /\ UNCHANGED <<job, unheard, told>>

\* The replies of Orange to a transfer in this state.
OrangeSays(st) ==
    CASE st = "paid"    -> [success : {TRUE}, word : {"none", "success", "other"}]
      [] st = "waiting" -> [success : BOOLEAN, word : {"pending"}]
      [] st = "refused" -> [success : {FALSE}, word : {"none", "failed", "other"}]
                           \cup [success : {TRUE}, word : {"failed"}]

\* The codes of Moov; 15 is "unknown".  To a Send, 0 says that the customer was
\* asked.
MoovTakes(st) == IF st = "refused" THEN {"12", "15"} ELSE {"0", "15"}
MoovFinds(st) == CASE st = "paid"    -> {"0", "15"}
                   [] st = "refused" -> {"12", "15"}
                   [] OTHER          -> {"15"}

-----------------------------------------------------------------------------
(* The attempts.                                                           *)

ConcludeForgetsRef(i, answer, ref) ==
    LET j == job[i] IN
    job' = [job EXCEPT ![i] =
        IF answer.status = "success" THEN [j EXCEPT !.at = "success"]
        ELSE IF j.attempt < MaxRetries - 1
             THEN [j EXCEPT !.at = "due", !.attempt = @ + 1]
             ELSE [j EXCEPT !.at = "failed"]]

\* process, from the answer on: closed as a success, or tried again while attempts
\* are left, or closed as failed and refunded.
Conclude(i, answer, ref) ==
    LET j == [job[i] EXCEPT !.ref = IF answer.ref THEN ref ELSE @] IN
    job' = [job EXCEPT ![i] =
        IF answer.status = "success" THEN [j EXCEPT !.at = "success"]
        ELSE IF j.attempt < MaxRetries - 1
             THEN [j EXCEPT !.at = "due", !.attempt = @ + 1]
             ELSE [j EXCEPT !.at = "failed"]]

\* Send, up to the request: without a reference every attempt is a new request.
Send(i) ==
    /\ job[i].at = "due" /\ job[i].ref = NoRef
    /\ job' = [job EXCEPT ![i].at = "sent"]
    /\ transfer' = [transfer EXCEPT ![i][job[i].attempt + 1] = "sent"]
    /\ UNCHANGED <<unheard, told>>

\* No token: each job has a gateway of its own (worker.newGateway), so each asks for
\* one.
NotSent(i) ==
    /\ job[i].at = "due" /\ job[i].ref = NoRef /\ OperatorOf[i] = "orange"
    /\ Conclude(i, NoResponse, NoRef)
    /\ UNCHANGED <<transfer, unheard, told>>

\* The reply to the request arrives; it may lack the operator's number.
Answered(i) ==
    LET n  == job[i].attempt + 1
        st == transfer[i][n] IN
    /\ job[i].at = "sent" /\ st \notin {"none", "sent"}
    /\ \E ref \in {n, RequestId} :
          IF OperatorOf[i] = "orange"
          THEN /\ \E r \in OrangeSays(st) : Conclude(i, OrangeSent(r), ref)
               /\ told' = [told EXCEPT ![i] = st]
          ELSE \E code \in MoovTakes(st) :
               /\ Conclude(i, MoovSent(code), ref)
               /\ told' = [told EXCEPT ![i] = IF code = "12" THEN "refused" ELSE "waiting"]
    /\ UNCHANGED <<transfer, unheard>>

\* A timeout, a broken connection, an HTTP error: the request may still arrive.
Unheard(i) ==
    /\ job[i].at = "sent"
    /\ Conclude(i, NoResponse, NoRef)
    /\ unheard' = [unheard EXCEPT ![i] = @ + 1]
    /\ told' = [told EXCEPT ![i] = "nothing"]
    /\ UNCHANGED transfer

Latest(i) == CHOOSE n \in Attempts :
                /\ transfer[i][n] # "none"
                /\ \A m \in Attempts : m > n => transfer[i][m] = "none"

\* The transfers a search for this reference may find.
Searched(i) == IF job[i].ref = RequestId
               THEN {n \in Attempts : transfer[i][n] # "none"} ELSE {job[i].ref}

\* CheckStatus: Orange's asks nobody, Moov's may stay without a reply.  The reply
\* may again carry the operator's number, and not carry it.
CheckStatus(i) ==
    /\ job[i].at = "due" /\ job[i].ref # NoRef
    /\ IF OperatorOf[i] = "orange"
       THEN Conclude(i, Response("pending"), job[i].ref) /\ UNCHANGED told
       ELSE \/ Conclude(i, NoResponse, NoRef) /\ UNCHANGED told
            \/ \E n \in Searched(i) : \E ref \in {n, job[i].ref}, code \in MoovFinds(transfer[i][n]) :
                  /\ Conclude(i, MoovFound(code), ref)
                  /\ told' = [told EXCEPT ![i] = IF n # Latest(i) THEN @
                                               ELSE IF code = "15" THEN "waiting"
                                               ELSE transfer[i][n]]
    /\ UNCHANGED <<transfer, unheard>>

Next ==
    \E i \in Items :
        \/ \E n \in Attempts : Operator(i, n)
        \/ Send(i) \/ NotSent(i) \/ Answered(i) \/ Unheard(i) \/ CheckStatus(i)

Spec == Init /\ [][Next]_vars

-----------------------------------------------------------------------------
Among(i, states) == {n \in Attempts : transfer[i][n] \in states}

\* A payment is repeated only for want of a reply: an item is not paid, now or
\* later, more often than once and once more for each request that no reply was
\* heard to.  A pending transfer is asked about and never sent again
\* (disbursement.go:144-157), a refused one is.
PaidOncePerReply ==
    \A i \in Items : Cardinality(Among(i, {"sent", "waiting", "paid"})) <= 1 + unheard[i]

\* An item closed as a success has been paid: no answer that only says the customer
\* was asked, and none about a refused request, closes it (gateway.go:236-260,
\* 593-645).
SuccessIsPaid == \A i \in Items : job[i].at = "success" => Among(i, {"paid"}) # {}

\* An item is refunded although a payment of it is possible only if a reply was
\* not heard or the operator's last word on the last request was that it waits: an
\* operator that says paid, or refused, is understood (gateway.go:444-474, 593-602).
RefundedIfRefused ==
    \A i \in Items :
        (job[i].at = "failed" /\ unheard[i] = 0 /\ told[i] # "waiting")
            => Among(i, {"sent", "waiting", "paid"}) = {}
=============================================================================
