-------------------------------- MODULE Http --------------------------------
(***************************************************************************)
(* A handler that http_api! generates (src/src/http.rs): its extractors    *)
(* take the request apart, the use case is provided and run in a           *)
(* transaction (src/src/usecase.rs), and the outcome becomes a status and  *)
(* a code, those of a #[BizErrorEnum] (src/macros/src/err_enum.rs) for a   *)
(* business error.  Of the transaction there is only what callers of       *)
(* do_transaction may rely on; Txn has the rest.                           *)
(***************************************************************************)
EXTENDS Naturals, Sequences

CONSTANTS
  Requests,
  Apis,        \* the bounds that the handlers of the application name
  Enums,       \* its error enums
  Base,        \* base_biz_code of each
  Variants,    \* http_status of each variant
  Default,     \* default_http_status of each
  MaxWrites,   \* statements of a use case
  NoStatus,    \* an attribute that is not there
  NoCode       \* a body that is not one of an HttpApiResponse

Bounds == {"HttpRequest", "HttpCredential", "HttpJsonQuery", "HttpJsonBody"}

\* The variants of all enums.
Errors == UNION {{<<e, i>> : i \in DOMAIN Variants[e]} : e \in Enums}

\* u16_to_status_code knows these, and stops the build at others.
StatusCodes ==
  (100..102) \cup (200..208) \cup {226} \cup ((300..308) \ {306})
    \cup ((400..431) \ {419, 420, 425, 427, 430}) \cup {451}
    \cup ((500..511) \ {509})

\* parse_http_status cuts literals to 16 bits.
Literal(l) == l % 2^16

HttpStatus(err) ==
  LET own == Variants[err[1]][err[2]]  default == Default[err[1]] IN
  IF own # NoStatus THEN Literal(own)
  ELSE IF default # NoStatus THEN Literal(default) ELSE 400

\* Faulty variant: variants are counted from zero.
BizCodeFromBase(err) == Base[err[1]] + (err[2] - 1)

\* base + index + 1, where the index begins at 0.
BizCode(err) == Base[err[1]] + (err[2] - 1) + 1

ASSUME ApisAssumption == Apis \subseteq Seq(Bounds) /\ MaxWrites \in Nat

\* The build stops at an unknown status.  It does not look at the bases: nothing keeps the
\* codes of an enum apart from another's, or from the 1 of a system error.
ASSUME EnumsAssumption ==
  /\ \A e \in Enums :
       /\ Base[e] \in Nat
       /\ Variants[e] \in Seq(Nat \cup {NoStatus}) /\ Default[e] \in Nat \cup {NoStatus}
       /\ \A i \in DOMAIN Variants[e] :
            LET l == IF Variants[e][i] # NoStatus THEN Variants[e][i] ELSE Default[e] IN
            l # NoStatus => l % 2^16 \in StatusCodes
  /\ NoStatus \notin Nat /\ NoCode \notin Nat

VARIABLES
  api,         \* the handler: its bounds, and whether its use case runs in a transaction
  stage,       \* where each request stands
  sent,        \* the parts of it that are as the handler wants them
  at,          \* how many bounds have been extracted
  payload,     \* "whole" or "read"
  written,     \* the statements that its use case executed
  durable,     \* how many of them are durable
  end,         \* what became of it
  response     \* what was answered

request == <<sent, at, payload>>
work == <<written, durable>>
vars == <<api, stage, request, work, end, response>>

Stages == {"none", "extract", "convert", "begin", "txn", "plain", "commit", "respond",
           "answered", "gone"}
None == [tag |-> "none", err |-> <<>>]
Ok == [tag |-> "ok", err |-> <<>>]
Sys == [tag |-> "sys", err |-> <<>>]
Refused == [tag |-> "refused", err |-> <<>>]
Biz(err) == [tag |-> "biz", err |-> err]
Ends == {None, Ok, Sys, Refused} \cup {Biz(err) : err \in Errors}

NoResponse == [status |-> 0, code |-> 0]
Responses == [status : StatusCodes, code : Nat \cup {NoCode}]

TypeOK ==
  /\ api \in [bounds : Apis, txn : BOOLEAN]
  /\ stage \in [Requests -> Stages]
  /\ sent \in [Requests -> SUBSET Bounds]
  /\ at \in [Requests -> 0..Len(api.bounds)]
  /\ payload \in [Requests -> {"whole", "read"}]
  /\ written \in [Requests -> 0..MaxWrites]
  /\ durable \in [Requests -> 0..MaxWrites]
  /\ end \in [Requests -> Ends]
  /\ response \in [Requests -> Responses \cup {NoResponse}]

Init ==
  /\ api \in [bounds : Apis, txn : BOOLEAN]
  /\ stage = [r \in Requests |-> "none"]
  /\ sent = [r \in Requests |-> {}]
  /\ at = [r \in Requests |-> 0]
  /\ payload = [r \in Requests |-> "whole"]
  /\ written = [r \in Requests |-> 0]
  /\ durable = [r \in Requests |-> 0]
  /\ end = [r \in Requests |-> None]
  /\ response = [r \in Requests |-> NoResponse]

-----------------------------------------------------------------------------
(* The request is taken apart, bound after bound.                          *)

Go(r, s) == stage' = [stage EXCEPT ![r] = s]

Answer(r, status, code) ==
  /\ Go(r, "answered")
  /\ response' = [response EXCEPT ![r] = [status |-> status, code |-> code]]

\* A client sends a request, with parts of those that the handler names; its method,
\* path and headers are always there.
Send(r) ==
  /\ stage[r] = "none"
  /\ Go(r, "extract")
  /\ \E S \in SUBSET {api.bounds[i] : i \in DOMAIN api.bounds} :
       sent' = [sent EXCEPT ![r] = S \cup {"HttpRequest"}]
  /\ UNCHANGED <<api, at, payload, work, end, response>>

\* Faulty variant: the inner of two composed extractors gets the payload that the
\* outer one took.
ExtractableOuter(r, b) ==
  b \in sent[r] /\ (b = "HttpJsonBody" => at[r] = 0)

\* A body can be read once.
Extractable(r, b) ==
  b \in sent[r] /\ (b = "HttpJsonBody" => payload[r] = "whole")

\* Faulty variant: the error of an extractor is passed over.
ExtractNextAny(r, b) ==
  /\ at' = [at EXCEPT ![r] = @ + 1]
  /\ payload' = IF b = "HttpJsonBody" THEN [payload EXCEPT ![r] = "read"] ELSE payload
  /\ UNCHANGED <<stage, end, response>>

\* One half of a compose is extracted, or its error is returned, which actix-web
\* renders with a status and a body of its own.
ExtractNext(r, b) ==
  IF Extractable(r, b)
  THEN /\ at' = [at EXCEPT ![r] = @ + 1]
       /\ payload' = IF b = "HttpJsonBody" THEN [payload EXCEPT ![r] = "read"] ELSE payload
       /\ UNCHANGED <<stage, end, response>>
  ELSE /\ \E status \in {400, 401, 413} : Answer(r, status, NoCode)
       /\ end' = [end EXCEPT ![r] = Refused]
       /\ UNCHANGED <<at, payload>>

\* Faulty variant: whoever reads the payload second waits for it.
ExtractWaiting(r) ==
  /\ stage[r] = "extract" /\ at[r] < Len(api.bounds)
  /\ api.bounds[at[r] + 1] = "HttpJsonBody" => payload[r] = "whole"
  /\ ExtractNext(r, api.bounds[at[r] + 1])
  /\ UNCHANGED <<api, sent, work>>

Extract(r) ==
  /\ stage[r] = "extract" /\ at[r] < Len(api.bounds)
  /\ ExtractNext(r, api.bounds[at[r] + 1])
  /\ UNCHANGED <<api, sent, work>>

-----------------------------------------------------------------------------
(* The use case.                                                           *)

End(r, e) == Go(r, "respond") /\ end' = [end EXCEPT ![r] = e]

\* UC::provide, which fails as a whole.
Provide(r) ==
  /\ stage[r] = "extract" /\ at[r] = Len(api.bounds)
  /\ \/ Go(r, "convert") /\ UNCHANGED end
     \/ End(r, Sys)
  /\ UNCHANGED <<api, request, work, response>>

\* TxnUseCase::execute; a use case with no_transaction! runs without one.
Execute(r) == Go(r, IF api.txn THEN "begin" ELSE "plain") /\ UNCHANGED end

\* HttpAdapter::run: convert_request, then the use case.
Convert(r) ==
  /\ stage[r] = "convert"
  /\ \/ Execute(r)
     \/ \E err \in Errors : End(r, Biz(err))
  /\ UNCHANGED <<api, request, work, response>>

Begin(r) ==
  /\ stage[r] = "begin"
  /\ \/ Go(r, "txn") /\ UNCHANGED end
     \/ End(r, Sys)
  /\ UNCHANGED <<api, request, work, response>>

\* A statement of the use case.
Write(r) ==
  /\ stage[r] \in {"txn", "plain"} /\ written[r] < MaxWrites
  /\ written' = [written EXCEPT ![r] = @ + 1]
  /\ durable' = IF stage[r] = "plain" THEN [durable EXCEPT ![r] = @ + 1] ELSE durable
  /\ UNCHANGED <<api, stage, request, end, response>>

\* The body completes: Ok(Ok(_)) is committed, Ok(Err(_)) and Err(_) are rolled back,
\* and a rollback that fails makes a system error of both.
Complete(r) ==
  /\ \/ stage[r] = "txn" /\ Go(r, "commit") /\ UNCHANGED end
     \/ stage[r] = "plain" /\ End(r, Ok)
     \/ stage[r] \in {"txn", "plain"} /\ \E err \in Errors : End(r, Biz(err))
     \/ stage[r] \in {"txn", "plain"} /\ End(r, Sys)
  /\ UNCHANGED <<api, request, work, response>>

\* Faulty variant: the answer of commit_txn is not looked at.
CommitBlind(r) ==
  /\ stage[r] = "commit"
  /\ End(r, Ok)
  /\ \E d \in {0, written[r]} : durable' = [durable EXCEPT ![r] = d]
  /\ UNCHANGED <<api, request, written, response>>

\* COMMIT succeeds, or is refused, or its answer is lost.
Commit(r) ==
  /\ stage[r] = "commit"
  /\ \/ End(r, Ok) /\ durable' = [durable EXCEPT ![r] = written[r]]
     \/ End(r, Sys) /\ \E d \in {0, written[r]} : durable' = [durable EXCEPT ![r] = d]
  /\ UNCHANGED <<api, request, written, response>>

-----------------------------------------------------------------------------
(* The answer.                                                             *)

\* respond_to serialises the body and then sets the status: data that cannot be
\* serialised is replaced by a text, under the same status.
RespondTo(r, status, code) ==
  \/ Answer(r, status, code)
  \/ code = 0 /\ Answer(r, status, NoCode)

\* The end of run.
Respond(r) ==
  /\ stage[r] = "respond"
  /\ \/ end[r] = Ok /\ RespondTo(r, 200, 0)
     \/ end[r].tag = "biz" /\ RespondTo(r, HttpStatus(end[r].err), BizCode(end[r].err))
     \/ end[r] = Sys /\ RespondTo(r, 500, 1)
  /\ UNCHANGED <<api, request, work, end>>

\* The client hangs up, or something panics: the future is dropped.
Abandon(r) ==
  /\ stage[r] \notin {"none", "answered", "gone"}
  /\ Go(r, "gone")
  /\ IF stage[r] = "commit"
     THEN \E d \in {0, written[r]} : durable' = [durable EXCEPT ![r] = d]
     ELSE UNCHANGED durable
  /\ UNCHANGED <<api, request, written, end, response>>

Server(r) ==
  Extract(r) \/ Provide(r) \/ Convert(r) \/ Begin(r) \/ Complete(r) \/ Commit(r) \/ Respond(r)

Next == \E r \in Requests : Send(r) \/ Server(r) \/ Write(r) \/ Abandon(r)

Spec == Init /\ [][Next]_vars

\* The server polls a request that can go on, use cases complete, and the database
\* answers or fails.
FairSpec == Spec /\ \A r \in Requests : WF_vars(Server(r))

-----------------------------------------------------------------------------
(* Properties.                                                             *)

\* What a client may conclude from an answer: code 0, or a status of 200 without a
\* code, is for work that is durable; the code of a business error is for nothing done,
\* unless the use case runs outside of transactions; an answer without a code and
\* without a 200 is for a use case that never began.  Code 1 tells nothing.
AnswerTells ==
  \A r \in Requests : stage[r] = "answered" =>
    LET code == response[r].code  status == response[r].status IN
    /\ code = 0 \/ (code = NoCode /\ status = 200) => durable[r] = written[r]
    /\ code \notin {0, 1, NoCode} /\ api.txn => durable[r] = 0
    /\ code = NoCode /\ status # 200 => written[r] = 0

\* The codes that an answer like that of end e may have: those after the base of the enum.
CodesOf(e) ==
  IF e.tag = "biz" THEN (Base[e.err[1]] + 1)..(Base[e.err[1]] + Len(Variants[e.err[1]]))
  ELSE IF e = Sys THEN {1} ELSE {0}

\* Two requests ended as errors of one enum, or in the same way.
Alike(d, e) == d.tag = e.tag /\ (d.tag = "biz" => d.err[1] = e.err[1])

\* Codes are told apart: requests answered with the same code ended in the same way and with
\* the same status, unless the application gave two enums, or an enum and the system
\* errors, codes that overlap.  No error ever has the code of a success.
CodeTells ==
  \A r, t \in Requests :
    LET code == response[r].code IN
    (stage[r] = "answered" /\ stage[t] = "answered" /\ response[t].code = code /\ code # NoCode) =>
      \/ end[r] = end[t] /\ response[r].status = response[t].status
      \/ ~Alike(end[r], end[t]) /\ code # 0 /\ code \in CodesOf(end[r]) \cap CodesOf(end[t])

\* Nothing runs for a request of which the handler's bounds could not all be read, and
\* never for a handler that reads the body twice.
RunsWholeRequests ==
  \A r \in Requests : stage[r] \in {"convert", "begin", "txn", "plain", "commit"} \/ written[r] > 0 =>
    /\ \A i \in DOMAIN api.bounds : api.bounds[i] \in sent[r]
    /\ \A i, j \in DOMAIN api.bounds :
         api.bounds[i] = "HttpJsonBody" /\ api.bounds[j] = "HttpJsonBody" => i = j

\* The order of the bounds refuses no request: one that is refused lacks a part that
\* the handler names, or the handler names the body twice.
RefusedForReason ==
  \A r \in Requests : end[r] = Refused =>
    \/ \E i \in DOMAIN api.bounds : api.bounds[i] \notin sent[r]
    \/ \E i, j \in DOMAIN api.bounds :
         i # j /\ api.bounds[i] = "HttpJsonBody" /\ api.bounds[j] = "HttpJsonBody"

\* Every request is answered, unless its client hangs up or it panics.
EventuallyAnswered ==
  \A r \in Requests : stage[r] = "extract" ~> stage[r] \in {"answered", "gone"}
=============================================================================
