--------------------------- MODULE GatewayAnswers ---------------------------
(***************************************************************************)
(* How internal/gateway/gateway.go reads what the operators reply.  Orange *)
(* pays while Send waits and has no status interface; Moov asks its        *)
(* customer for a PIN, so its Send only says that the question was put, and *)
(* CheckStatus searches for what became of it.                             *)
(***************************************************************************)
EXTENDS Naturals

\* A SendResponse, which always names the transfer, and an error, which does not.
Response(status) == [status |-> status, ref |-> TRUE]
NoResponse == [status |-> "error", ref |-> FALSE]

\* Orange: the flag success and the word TXNSTATUS, which may be missing or one
\* the code does not know.
Words == {"none", "success", "pending", "failed", "other"}
CashinReplies == [success : BOOLEAN, word : Words]

OrangeCashinStatus(word, success) ==
    IF word \in {"success", "pending", "failed"} THEN word
    ELSE IF success THEN "success" ELSE "failed"

\* orangeGateway.Send; a lost reply, an HTTP error, a refused token are NoResponse.
OrangeSent(r) ==
    LET status == OrangeCashinStatus(r.word, r.success) IN
    IF r.success \/ status = "pending" THEN Response(status) ELSE NoResponse

\* Moov: one code for both of its operations.
Codes == {"0", "12", "15"}

MoovStatusAsSent(code) == IF code = "12" THEN "failed" ELSE "pending"

MoovStatus(code) ==
    CASE code = "0"  -> "success"
      [] code = "12" -> "failed"
      [] OTHER       -> "pending"

MoovSentAsFound(code) ==
    IF code = "12" THEN NoResponse ELSE Response(MoovStatus(code))

\* moovGateway.Send: code 0 is the question put to the customer, not the payment.
MoovSent(code) == IF code = "12" THEN NoResponse ELSE Response("pending")

\* moovGateway.CheckStatus.
MoovFound(code) == Response(MoovStatus(code))

\* Everything process can get, from Send or, when it knows a reference, from
\* CheckStatus.
Answers(op, known) ==
    CASE op = "orange" /\ ~known -> {OrangeSent(r) : r \in CashinReplies} \cup {NoResponse}
      [] op = "orange" /\ known  -> {Response("pending")}
      [] op = "moov" /\ ~known   -> {MoovSent(c) : c \in Codes} \cup {NoResponse}
      [] op = "moov" /\ known    -> {MoovFound(c) : c \in Codes} \cup {NoResponse}
=============================================================================
