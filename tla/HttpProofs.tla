----------------------------- MODULE HttpProofs -----------------------------
(***************************************************************************)
(* Proofs about Http for every set of requests, handlers and error enums.  *)
(***************************************************************************)
EXTENDS Http, TLAPS

Running == {"convert", "begin", "txn", "plain", "commit"}

\* What is known of a request whose first bounds have been read.
Read(r) ==
  /\ stage[r] = "none" => at[r] = 0
  /\ \A i \in 1..at[r] : api.bounds[i] \in sent[r]
  /\ \A i, j \in 1..at[r] :
       api.bounds[i] = "HttpJsonBody" /\ api.bounds[j] = "HttpJsonBody" => i = j
  /\ payload[r] = "read" => \E i \in 1..at[r] : api.bounds[i] = "HttpJsonBody"
  /\ payload[r] = "whole" => \A i \in 1..at[r] : api.bounds[i] # "HttpJsonBody"
  /\ stage[r] \in Running \/ written[r] > 0 => at[r] = Len(api.bounds)

Reason(r) ==
  \/ \E i \in DOMAIN api.bounds : api.bounds[i] \notin sent[r]
  \/ \E i, j \in DOMAIN api.bounds :
       i # j /\ api.bounds[i] = "HttpJsonBody" /\ api.bounds[j] = "HttpJsonBody"

\* How a request was answered.
Answered(r) ==
  LET status == response[r].status  code == response[r].code IN
  \/ end[r] = Ok /\ status = 200 /\ code \in {0, NoCode}
  \/ end[r] = Sys /\ status = 500 /\ code = 1
  \/ end[r] = Refused /\ status \in {400, 401, 413} /\ code = NoCode
  \/ \E err \in Errors :
       end[r] = Biz(err) /\ status = HttpStatus(err) /\ code = BizCode(err)

\* What is known of its work, at a stage s, with an end e, w statements executed and d
\* of them durable.
WorkFits(r, s, e, w, d) ==
  /\ s \in {"none", "extract", "convert", "begin"} => w = 0 /\ d = 0
  /\ s \notin {"respond", "answered", "gone"} => e = None
  /\ s \in {"txn", "commit"} => d = 0
  /\ s = "plain" => ~api.txn /\ d = w
  /\ e = Ok => d = w
  /\ e.tag = "biz" /\ api.txn => d = 0
  /\ e = Refused => w = 0 /\ Reason(r)
  /\ s = "respond" => e # None /\ e # Refused

Worked(r) ==
  /\ WorkFits(r, stage[r], end[r], written[r], durable[r])
  /\ stage[r] = "answered" => Answered(r)

IInv == TypeOK /\ \A r \in Requests : Read(r) /\ Worked(r)

-----------------------------------------------------------------------------
(* Codes and statuses.                                                     *)

\* The codes of an enum are those after its base, each of one variant; none is 0.
LEMMA Codes ==
  /\ \A err \in Errors : BizCode(err) \in Nat \ {0} /\ BizCode(err) \in CodesOf(Biz(err))
  /\ \A x, y \in Errors : x[1] = y[1] /\ BizCode(x) = BizCode(y) => x = y
<1>1. \A err \in Errors : \E e \in Enums : \E i \in DOMAIN Variants[e] : err = <<e, i>>
  BY DEF Errors
<1>2. \A e \in Enums : DOMAIN Variants[e] = 1..Len(Variants[e]) /\ Len(Variants[e]) \in Nat
  BY EnumsAssumption
<1>3. \A e \in Enums : \A i \in 1..Len(Variants[e]) :
        BizCode(<<e, i>>) = Base[e] + i /\ i \in Nat \ {0} /\ i <= Len(Variants[e])
  BY <1>2, EnumsAssumption DEF BizCode
<1>4. \A e \in Enums : Base[e] \in Nat
  BY EnumsAssumption
<1>5. ASSUME NEW err \in Errors
      PROVE  BizCode(err) \in Nat \ {0} /\ BizCode(err) \in CodesOf(Biz(err))
  <2>0. PICK e \in Enums : \E i \in 1..Len(Variants[e]) : err = <<e, i>>
    BY <1>1, <1>2
  <2>1. PICK i \in 1..Len(Variants[e]) : err = <<e, i>>
    BY <2>0
  <2>2. CodesOf(Biz(err)) = (Base[e] + 1)..(Base[e] + Len(Variants[e]))
    BY <2>1 DEF CodesOf, Biz
  <2>3. QED
    BY <1>2, <1>3, <1>4, <2>1, <2>2
<1>7. \A x, y \in Errors : x[1] = y[1] /\ BizCode(x) = BizCode(y) => x = y
  <2> SUFFICES ASSUME NEW x \in Errors, NEW y \in Errors, x[1] = y[1], BizCode(x) = BizCode(y)
               PROVE  x = y
    OBVIOUS
  <2>0. PICK e \in Enums : \E i \in 1..Len(Variants[e]) : x = <<e, i>>
    BY <1>1, <1>2
  <2>1. PICK i \in 1..Len(Variants[e]) : x = <<e, i>>
    BY <2>0
  <2>6. PICK d \in Enums : \E j \in 1..Len(Variants[d]) : y = <<d, j>>
    BY <1>1, <1>2
  <2>2. PICK j \in 1..Len(Variants[d]) : y = <<d, j>>
    BY <2>6
  <2>3. d = e
    BY <2>1, <2>2
  <2>4. Base[e] + i = Base[e] + j
    BY <1>3, <2>1, <2>2, <2>3
  <2>5. QED
    BY <1>2, <1>3, <1>4, <2>1, <2>2, <2>3, <2>4
<1>8. QED
  BY <1>5, <1>7

\* The status of an error is one that builds.
LEMMA Statuses ==
  /\ \A err \in Errors : HttpStatus(err) \in StatusCodes
  /\ {200, 400, 401, 413, 500} \subseteq StatusCodes
<1>1. {200, 400, 401, 413, 500} \subseteq StatusCodes
  BY DEF StatusCodes
<1>2. ASSUME NEW e \in Enums, NEW i \in DOMAIN Variants[e]
      PROVE  HttpStatus(<<e, i>>) \in StatusCodes
  <2> DEFINE l == IF Variants[e][i] # NoStatus THEN Variants[e][i] ELSE Default[e]
  <2>1. l # NoStatus => Literal(l) \in StatusCodes
    BY EnumsAssumption DEF Literal
  <2>2. HttpStatus(<<e, i>>) = IF l # NoStatus THEN Literal(l) ELSE 400
    BY DEF HttpStatus
  <2>3. QED
    BY <1>1, <2>1, <2>2
<1>3. QED
  BY <1>1, <1>2 DEF Errors

\* Ends are told apart by their tags.
LEMMA EndTags ==
  /\ None.tag = "none" /\ Ok.tag = "ok" /\ Sys.tag = "sys" /\ Refused.tag = "refused"
  /\ \A err \in Errors : Biz(err).tag = "biz" /\ Biz(err).err = err /\ Biz(err) \in Ends
  /\ {None, Ok, Sys, Refused} \subseteq Ends
  /\ \A e \in Ends : e.tag = "biz" => \E err \in Errors : e = Biz(err)
<1>1. None.tag = "none" /\ Ok.tag = "ok" /\ Sys.tag = "sys" /\ Refused.tag = "refused"
  BY DEF None, Ok, Sys, Refused
<1>2. \A err \in Errors : Biz(err).tag = "biz" /\ Biz(err).err = err
  BY DEF Biz
<1>3. \A e \in Ends : e \in {None, Ok, Sys, Refused} \/ \E err \in Errors : e = Biz(err)
  BY DEF Ends
<1>4. {None, Ok, Sys, Refused} \subseteq Ends /\ \A err \in Errors : Biz(err) \in Ends
  BY DEF Ends
<1>5. QED
  BY <1>1, <1>2, <1>3, <1>4

-----------------------------------------------------------------------------
(* The invariant.                                                          *)

\* A request that a step leaves alone.
Same(t) ==
  /\ stage'[t] = stage[t] /\ sent'[t] = sent[t] /\ at'[t] = at[t]
  /\ payload'[t] = payload[t] /\ written'[t] = written[t] /\ durable'[t] = durable[t]
  /\ end'[t] = end[t] /\ response'[t] = response[t]

LEMMA SameKeeps ==
  ASSUME NEW t \in Requests, api' = api, Same(t), Read(t), Worked(t)
  PROVE  Read(t)' /\ Worked(t)'
<1>1. Reason(t)' = Reason(t)
  BY DEF Reason, Same
<1>2. Answered(t)' = Answered(t)
  BY DEF Answered, Same
<1>3. Read(t)'
  BY DEF Read, Same
<1>4. Worked(t)'
  BY <1>1, <1>2 DEF Worked, WorkFits, Same
<1>5. QED
  BY <1>3, <1>4

\* A step of one request keeps the invariant if it keeps the types and what is known
\* of this one.
LEMMA OneKeeps ==
  ASSUME IInv, NEW r \in Requests, api' = api, TypeOK', Read(r)', Worked(r)',
         \A t \in Requests \ {r} : Same(t)
  PROVE  IInv'
BY SameKeeps DEF IInv

LEMMA InitInv == Init => IInv
<1> SUFFICES ASSUME Init PROVE IInv
  OBVIOUS
<1>1. api.bounds \in Seq(Bounds) /\ api.txn \in BOOLEAN
  BY ApisAssumption DEF Init
<1>2. TypeOK
  BY <1>1, ApisAssumption DEF Init, TypeOK, Stages, Ends
<1>3. ASSUME NEW r \in Requests PROVE Read(r) /\ Worked(r)
  BY DEF Init, Read, Worked, WorkFits, Running, None, Ok, Refused
<1>4. QED
  BY <1>2, <1>3 DEF IInv

LEMMA SendKeeps ==
  ASSUME IInv, NEW r \in Requests, Send(r)
  PROVE  IInv'
<1>1. TypeOK'
  <2>1. PICK S \in SUBSET {api.bounds[i] : i \in DOMAIN api.bounds} :
          sent' = [sent EXCEPT ![r] = S \cup {"HttpRequest"}]
    BY DEF Send
  <2>2. S \cup {"HttpRequest"} \in SUBSET Bounds
    BY ApisAssumption DEF IInv, TypeOK, Bounds
  <2>3. QED
    BY <2>1, <2>2 DEF IInv, TypeOK, Send, Go, Stages, work
<1>2. \A t \in Requests \ {r} : Same(t)
  BY DEF IInv, TypeOK, Send, Go, Same, work
<1>3. Read(r)'
  BY DEF IInv, TypeOK, Read, Worked, WorkFits, Send, Go, Running, work
<1>4. Worked(r)'
  BY EndTags DEF IInv, TypeOK, Worked, WorkFits, Send, Go, work
<1>5. QED
  BY <1>1, <1>2, <1>3, <1>4, OneKeeps DEF Send

\* A bound is taken from the request, or the request is refused.
LEMMA ExtractKeeps ==
  ASSUME IInv, NEW r \in Requests, Extract(r)
  PROVE  IInv'
<1> DEFINE b == api.bounds[at[r] + 1]
<1>0. /\ stage[r] = "extract" /\ at[r] \in Nat /\ at[r] < Len(api.bounds)
      /\ api.bounds \in Seq(Bounds) /\ at[r] + 1 \in DOMAIN api.bounds
      /\ \A i \in 1..at[r] : i \in DOMAIN api.bounds
      /\ Read(r) /\ Worked(r) /\ UNCHANGED <<api, sent, written, durable>>
  BY ApisAssumption DEF IInv, TypeOK, Extract, work
<1>1. CASE Extractable(r, b)
  <2>1. /\ at' = [at EXCEPT ![r] = @ + 1]
        /\ payload' = IF b = "HttpJsonBody" THEN [payload EXCEPT ![r] = "read"] ELSE payload
        /\ UNCHANGED <<stage, end, response>>
    BY <1>1 DEF Extract, ExtractNext
  <2>2. TypeOK' /\ \A t \in Requests \ {r} : Same(t)
    BY <1>0, <2>1 DEF IInv, TypeOK, Same
  <2>3. at'[r] = at[r] + 1 /\ payload'[r] = IF b = "HttpJsonBody" THEN "read" ELSE payload[r]
    BY <2>1 DEF IInv, TypeOK
  <2>4. Read(r)'
    <3>1. b \in sent[r] /\ (b = "HttpJsonBody" => payload[r] = "whole")
      BY <1>1 DEF Extractable
    <3>2. \A i \in 1..(at[r] + 1) : i \in 1..at[r] \/ i = at[r] + 1
      BY <1>0
    <3>3. written[r] = 0 /\ stage[r] \notin Running
      BY <1>0 DEF Worked, WorkFits, Running
    <3>4. stage'[r] = "extract" /\ written'[r] = 0 /\ api' = api /\ sent' = sent
      BY <1>0, <2>1, <3>3
    <3>5. \A i \in 1..at'[r] : api.bounds[i] \in sent[r]
      BY <1>0, <2>3, <3>1, <3>2 DEF Read
    <3>6. b = "HttpJsonBody" => \A i \in 1..at[r] : api.bounds[i] # "HttpJsonBody"
      BY <1>0, <3>1 DEF Read
    <3>7. \A i, j \in 1..at'[r] :
            api.bounds[i] = "HttpJsonBody" /\ api.bounds[j] = "HttpJsonBody" => i = j
      BY <1>0, <2>3, <3>2, <3>6 DEF Read
    <3>8. payload'[r] = "read" => \E i \in 1..at'[r] : api.bounds[i] = "HttpJsonBody"
      BY <1>0, <2>3, <3>2 DEF Read
    <3>9. payload'[r] = "whole" => \A i \in 1..at'[r] : api.bounds[i] # "HttpJsonBody"
      BY <1>0, <2>3, <3>2 DEF Read
    <3>10. QED
      BY <3>4, <3>5, <3>7, <3>8, <3>9 DEF Read, Running
  <2>5. Worked(r)'
    BY <1>0, <2>1, EndTags DEF Worked, WorkFits
  <2>6. QED
    BY <1>0, <2>2, <2>4, <2>5, OneKeeps
<1>2. CASE ~Extractable(r, b)
  <2>1. PICK status \in {400, 401, 413} :
          /\ Answer(r, status, NoCode)
          /\ end' = [end EXCEPT ![r] = Refused] /\ UNCHANGED <<at, payload>>
    BY <1>2 DEF Extract, ExtractNext
  <2>2. [status |-> status, code |-> NoCode] \in Responses
    BY Statuses DEF Responses
  <2>3. TypeOK'
    BY <1>0, <2>1, <2>2, EndTags DEF IInv, TypeOK, Answer, Go, Stages
  <2>4. \A t \in Requests \ {r} : Same(t)
    BY <1>0, <2>1 DEF IInv, TypeOK, Same, Answer, Go
  <2>5. /\ stage'[r] = "answered" /\ end'[r] = Refused
        /\ response'[r].status = status /\ response'[r].code = NoCode
    BY <2>1 DEF IInv, TypeOK, Answer, Go
  <2>6. Reason(r)
    <3>1. CASE b \notin sent[r]
      BY <1>0, <3>1 DEF Reason
    <3>2. CASE b = "HttpJsonBody" /\ payload[r] # "whole"
      <4>1. PICK i \in 1..at[r] : api.bounds[i] = "HttpJsonBody"
        BY <1>0, <3>2 DEF IInv, TypeOK, Read
      <4>2. i # at[r] + 1 /\ i \in DOMAIN api.bounds
        BY <1>0
      <4>3. QED
        BY <1>0, <3>2, <4>1, <4>2 DEF Reason
    <3>3. QED
      BY <1>2, <3>1, <3>2 DEF Extractable
  <2>7. Reason(r)' /\ written'[r] = 0 /\ durable'[r] = 0
    BY <1>0, <2>6 DEF Reason, Worked, WorkFits
  <2>8. Worked(r)'
    BY <2>5, <2>7, EndTags DEF Worked, WorkFits, Answered
  <2>9. Read(r)'
    BY <1>0, <2>1, <2>5, <2>7 DEF Read, Running
  <2>10. QED
    BY <1>0, <2>3, <2>4, <2>8, <2>9, OneKeeps
<1>3. QED
  BY <1>1, <1>2

\* A step that moves a request on, and is not its answer.
Move(r, s, e, w, d) ==
  /\ stage' = [stage EXCEPT ![r] = s]
  /\ end' = [end EXCEPT ![r] = e]
  /\ written' = [written EXCEPT ![r] = w]
  /\ durable' = [durable EXCEPT ![r] = d]
  /\ UNCHANGED <<api, request, response>>

LEMMA MoveKeeps ==
  ASSUME IInv, NEW r \in Requests, NEW s \in Stages \ {"none", "answered"}, NEW e \in Ends,
         NEW w \in 0..MaxWrites, NEW d \in 0..MaxWrites,
         Move(r, s, e, w, d), WorkFits(r, s, e, w, d),
         s \in Running \/ w > 0 => at[r] = Len(api.bounds)
  PROVE  IInv'
<1>1. /\ stage'[r] = s /\ end'[r] = e /\ written'[r] = w /\ durable'[r] = d
      /\ UNCHANGED <<api, sent, at, payload, response>>
  BY DEF IInv, TypeOK, Move, request
<1>2. TypeOK'
  BY <1>1 DEF IInv, TypeOK, Move
<1>3. \A t \in Requests \ {r} : Same(t)
  BY <1>1 DEF IInv, TypeOK, Same, Move
<1>4. Read(r)'
  BY <1>1 DEF IInv, Read
<1>5. Worked(r)'
  BY <1>1 DEF Worked, WorkFits, Reason
<1>6. QED
  BY <1>1, <1>2, <1>3, <1>4, <1>5, OneKeeps

\* What stays as it is, as Move says it.
LEMMA Stays ==
  ASSUME IInv, NEW r \in Requests
  PROVE  /\ stage[r] \in Stages /\ end[r] \in Ends /\ Read(r) /\ Worked(r)
         /\ written[r] \in 0..MaxWrites /\ durable[r] \in 0..MaxWrites
         /\ stage = [stage EXCEPT ![r] = stage[r]] /\ end = [end EXCEPT ![r] = end[r]]
         /\ written = [written EXCEPT ![r] = written[r]]
         /\ durable = [durable EXCEPT ![r] = durable[r]]
BY DEF IInv, TypeOK

LEMMA ProvideKeeps ==
  ASSUME IInv, NEW r \in Requests, Provide(r)
  PROVE  IInv'
<1>1. CASE Go(r, "convert") /\ UNCHANGED end
  <2>1. Move(r, "convert", end[r], written[r], durable[r])
    BY <1>1, Stays DEF Move, Provide, Go, work
  <2>2. WorkFits(r, "convert", end[r], written[r], durable[r])
    BY <1>1, Stays, EndTags DEF Provide, Worked, WorkFits
  <2>3. QED
    BY <1>1, <2>1, <2>2, Stays, EndTags, MoveKeeps DEF Provide, Read, Running, Stages
<1>2. CASE End(r, Sys)
  <2>1. Move(r, "respond", Sys, written[r], durable[r])
    BY <1>2, Stays DEF Move, Provide, End, Go, work
  <2>2. WorkFits(r, "respond", Sys, written[r], durable[r])
    BY <1>2, Stays, EndTags DEF Provide, Worked, WorkFits
  <2>3. QED
    BY <1>2, <2>1, <2>2, Stays, EndTags, MoveKeeps DEF Provide, Read, Running, Stages
<1>3. QED
  BY <1>1, <1>2 DEF Provide

LEMMA ConvertKeeps ==
  ASSUME IInv, NEW r \in Requests, Convert(r)
  PROVE  IInv'
<1>1. CASE Execute(r)
  <2>1. Move(r, IF api.txn THEN "begin" ELSE "plain", end[r], written[r], durable[r])
    BY <1>1, Stays DEF Move, Convert, Execute, Go, work
  <2>2. WorkFits(r, IF api.txn THEN "begin" ELSE "plain", end[r], written[r], durable[r])
    BY <1>1, Stays, EndTags DEF Convert, Worked, WorkFits
  <2>3. QED
    BY <1>1, <2>1, <2>2, Stays, EndTags, MoveKeeps DEF Convert, Read, Running, Stages
<1>2. CASE \E err \in Errors : End(r, Biz(err))
  <2>0. PICK err \in Errors : End(r, Biz(err))
    BY <1>2
  <2>1. Move(r, "respond", Biz(err), written[r], durable[r])
    BY <2>0, Stays DEF Move, End, Convert, Go, work
  <2>2. WorkFits(r, "respond", Biz(err), written[r], durable[r])
    BY <2>0, Stays, EndTags DEF Convert, Worked, WorkFits
  <2>3. QED
    BY <2>0, <2>1, <2>2, Stays, EndTags, MoveKeeps DEF Convert, Read, Running, Stages
<1>3. QED
  BY <1>1, <1>2 DEF Convert

LEMMA BeginKeeps ==
  ASSUME IInv, NEW r \in Requests, Begin(r)
  PROVE  IInv'
<1>1. CASE Go(r, "txn") /\ UNCHANGED end
  <2>1. Move(r, "txn", end[r], written[r], durable[r])
    BY <1>1, Stays DEF Move, Begin, Go, work
  <2>2. WorkFits(r, "txn", end[r], written[r], durable[r])
    BY <1>1, Stays, EndTags DEF Begin, Worked, WorkFits
  <2>3. QED
    BY <1>1, <2>1, <2>2, Stays, EndTags, MoveKeeps DEF Begin, Read, Running, Stages
<1>2. CASE End(r, Sys)
  <2>1. Move(r, "respond", Sys, written[r], durable[r])
    BY <1>2, Stays DEF Move, Begin, End, Go, work
  <2>2. WorkFits(r, "respond", Sys, written[r], durable[r])
    BY <1>2, Stays, EndTags DEF Begin, Worked, WorkFits
  <2>3. QED
    BY <1>2, <2>1, <2>2, Stays, EndTags, MoveKeeps DEF Begin, Read, Running, Stages
<1>3. QED
  BY <1>1, <1>2 DEF Begin

LEMMA WriteKeeps ==
  ASSUME IInv, NEW r \in Requests, Write(r)
  PROVE  IInv'
<1> DEFINE d == IF stage[r] = "plain" THEN durable[r] + 1 ELSE durable[r]
<1>1. /\ Move(r, stage[r], end[r], written[r] + 1, d)
      /\ stage[r] \in {"txn", "plain"} /\ written[r] < MaxWrites
  BY Stays DEF Write, Move
<1>2. WorkFits(r, stage[r], end[r], written[r] + 1, d)
  BY <1>1, Stays, EndTags DEF Worked, WorkFits
<1>3. written[r] + 1 \in 0..MaxWrites /\ d \in 0..MaxWrites
  BY <1>1, Stays, ApisAssumption DEF Worked, WorkFits
<1>4. QED
  BY <1>1, <1>2, <1>3, Stays, MoveKeeps DEF Read, Running, Stages

LEMMA CompleteKeeps ==
  ASSUME IInv, NEW r \in Requests, Complete(r)
  PROVE  IInv'
<1>1. CASE stage[r] = "txn" /\ Go(r, "commit") /\ UNCHANGED end
  <2>1. Move(r, "commit", end[r], written[r], durable[r])
    BY <1>1, Stays DEF Move, Complete, Go, work
  <2>2. WorkFits(r, "commit", end[r], written[r], durable[r])
    BY <1>1, Stays, EndTags DEF Worked, WorkFits
  <2>3. QED
    BY <1>1, <2>1, <2>2, Stays, EndTags, MoveKeeps DEF Read, Running, Stages
<1>2. CASE stage[r] = "plain" /\ End(r, Ok)
  <2>1. Move(r, "respond", Ok, written[r], durable[r])
    BY <1>2, Stays DEF Move, Complete, End, Go, work
  <2>2. WorkFits(r, "respond", Ok, written[r], durable[r])
    BY <1>2, Stays, EndTags DEF Worked, WorkFits
  <2>3. QED
    BY <1>2, <2>1, <2>2, Stays, EndTags, MoveKeeps DEF Read, Running, Stages
<1>3. CASE stage[r] \in {"txn", "plain"} /\ \E err \in Errors : End(r, Biz(err))
  <2>0. PICK err \in Errors : End(r, Biz(err))
    BY <1>3
  <2>1. Move(r, "respond", Biz(err), written[r], durable[r])
    BY <1>3, <2>0, Stays DEF Move, End, Complete, Go, work
  <2>2. WorkFits(r, "respond", Biz(err), written[r], durable[r])
    BY <1>3, <2>0, Stays, EndTags DEF Worked, WorkFits
  <2>3. QED
    BY <1>3, <2>0, <2>1, <2>2, Stays, EndTags, MoveKeeps DEF Read, Running, Stages
<1>4. CASE stage[r] \in {"txn", "plain"} /\ End(r, Sys)
  <2>1. Move(r, "respond", Sys, written[r], durable[r])
    BY <1>4, Stays DEF Move, Complete, End, Go, work
  <2>2. WorkFits(r, "respond", Sys, written[r], durable[r])
    BY <1>4, Stays, EndTags DEF Worked, WorkFits
  <2>3. QED
    BY <1>4, <2>1, <2>2, Stays, EndTags, MoveKeeps DEF Read, Running, Stages
<1>5. QED
  BY <1>1, <1>2, <1>3, <1>4 DEF Complete

LEMMA CommitKeeps ==
  ASSUME IInv, NEW r \in Requests, Commit(r)
  PROVE  IInv'
<1>1. PICK e \in {Ok, Sys}, d \in {0, written[r]} :
        /\ End(r, e) /\ durable' = [durable EXCEPT ![r] = d] /\ (e = Ok => d = written[r])
  BY EndTags DEF Commit
<1>2. Move(r, "respond", e, written[r], d)
  BY <1>1, Stays DEF Commit, End, Go, Move
<1>3. WorkFits(r, "respond", e, written[r], d)
  BY <1>1, EndTags DEF WorkFits
<1>4. d \in 0..MaxWrites /\ at[r] = Len(api.bounds)
  BY <1>1, Stays, ApisAssumption DEF Commit, Read, Running
<1>5. QED
  BY <1>1, <1>2, <1>3, <1>4, Stays, EndTags, MoveKeeps DEF Stages

LEMMA AbandonKeeps ==
  ASSUME IInv, NEW r \in Requests, Abandon(r)
  PROVE  IInv'
<1>1. PICK d \in {0, written[r], durable[r]} :
        /\ durable' = [durable EXCEPT ![r] = d]
        /\ stage[r] # "commit" => d = durable[r]
  BY Stays DEF Abandon
<1>2. Move(r, "gone", end[r], written[r], d)
  BY <1>1, Stays DEF Abandon, Go, Move
<1>3. WorkFits(r, "gone", end[r], written[r], d)
  BY <1>1, Stays, EndTags DEF Worked, WorkFits
<1>4. d \in 0..MaxWrites
  BY <1>1, Stays, ApisAssumption
<1>5. QED
  BY <1>2, <1>3, <1>4, Stays, MoveKeeps DEF Read, Stages, Running

LEMMA RespondKeeps ==
  ASSUME IInv, NEW r \in Requests, Respond(r)
  PROVE  IInv'
<1>1. /\ stage[r] = "respond" /\ UNCHANGED <<api, request, work, end>>
      /\ Read(r) /\ Worked(r)
  BY DEF IInv, Respond
<1>2. \E status \in StatusCodes, code \in Nat \cup {NoCode} :
        /\ Answer(r, status, code)
        /\ \/ end[r] = Ok /\ status = 200 /\ code \in {0, NoCode}
           \/ end[r] = Sys /\ status = 500 /\ code = 1
           \/ \E err \in Errors :
                end[r] = Biz(err) /\ status = HttpStatus(err) /\ code = BizCode(err)
  <2>1. CASE end[r] = Ok /\ RespondTo(r, 200, 0)
    <3>1. Answer(r, 200, 0) \/ Answer(r, 200, NoCode)
      BY <2>1 DEF RespondTo
    <3>2. 200 \in StatusCodes /\ 0 \in Nat
      BY Statuses
    <3>3. CASE Answer(r, 200, 0)
      BY <2>1, <3>2, <3>3
    <3>4. CASE Answer(r, 200, NoCode)
      BY <2>1, <3>2, <3>4
    <3>5. QED
      BY <3>1, <3>3, <3>4
  <2>2. CASE end[r].tag = "biz" /\ RespondTo(r, HttpStatus(end[r].err), BizCode(end[r].err))
    <3>1. PICK err \in Errors : end[r] = Biz(err)
      BY <2>2, EndTags DEF IInv, TypeOK
    <3>2. end[r].err = err /\ HttpStatus(err) \in StatusCodes /\ BizCode(err) \in Nat \ {0}
      BY <3>1, EndTags, Codes, Statuses
    <3>3. Answer(r, HttpStatus(err), BizCode(err))
      BY <2>2, <3>2 DEF RespondTo
    <3>4. QED
      BY <3>1, <3>2, <3>3
  <2>3. CASE end[r] = Sys /\ RespondTo(r, 500, 1)
    BY <2>3, Statuses DEF RespondTo
  <2>4. QED
    BY <2>1, <2>2, <2>3 DEF Respond
<1>3. PICK status \in StatusCodes, code \in Nat \cup {NoCode} :
        /\ Answer(r, status, code)
        /\ \/ end[r] = Ok /\ status = 200 /\ code \in {0, NoCode}
           \/ end[r] = Sys /\ status = 500 /\ code = 1
           \/ \E err \in Errors :
                end[r] = Biz(err) /\ status = HttpStatus(err) /\ code = BizCode(err)
  BY <1>2
<1>4. [status |-> status, code |-> code] \in Responses
  BY DEF Responses
<1>5. TypeOK' /\ \A t \in Requests \ {r} : Same(t)
  BY <1>1, <1>3, <1>4 DEF IInv, TypeOK, Same, Answer, Go, Stages, request, work
<1>6. stage'[r] = "answered" /\ response'[r].status = status /\ response'[r].code = code
  BY <1>3 DEF IInv, TypeOK, Answer, Go
<1>7. Read(r)'
  BY <1>1, <1>6 DEF Read, Running, request, work
<1>8. Answered(r)'
  BY <1>1, <1>3, <1>6 DEF Answered
<1>9. Worked(r)'
  BY <1>1, <1>6, <1>8 DEF Worked, WorkFits, Reason, request, work
<1>10. QED
  BY <1>1, <1>5, <1>7, <1>9, OneKeeps

LEMMA StepInv == IInv /\ [Next]_vars => IInv'
<1> SUFFICES ASSUME IInv, [Next]_vars PROVE IInv'
  OBVIOUS
<1>1. ASSUME NEW r \in Requests, Send(r) \/ Server(r) \/ Write(r) \/ Abandon(r)
      PROVE  IInv'
  BY <1>1, SendKeeps, ExtractKeeps, ProvideKeeps, ConvertKeeps, BeginKeeps, WriteKeeps,
     CompleteKeeps, CommitKeeps, RespondKeeps, AbandonKeeps DEF Server
<1>2. CASE UNCHANGED vars
  <2>1. TypeOK' /\ \A r \in Requests : Same(r)
    BY <1>2 DEF IInv, TypeOK, Same, vars, request, work
  <2>2. QED
    BY <1>2, <2>1, SameKeeps DEF IInv, vars
<1>3. QED
  BY <1>1, <1>2 DEF Next

THEOREM Invariant == Spec => []IInv
BY InitInv, StepInv, PTL DEF Spec

-----------------------------------------------------------------------------
(* The theorems.                                                           *)

\* Every variable keeps its type: no error has a status that does not exist.
THEOREM TypeCorrect == Spec => []TypeOK
<1>1. IInv => TypeOK
  BY DEF IInv
<1>2. QED
  BY <1>1, Invariant, PTL

\* What a client may conclude from an answer is so.
THEOREM Tells == Spec => []AnswerTells
<1>1. IInv => AnswerTells
  <2> SUFFICES ASSUME IInv, NEW r \in Requests, stage[r] = "answered"
               PROVE  LET code == response[r].code  status == response[r].status IN
                      /\ code = 0 \/ (code = NoCode /\ status = 200) => durable[r] = written[r]
                      /\ code \notin {0, 1, NoCode} /\ api.txn => durable[r] = 0
                      /\ code = NoCode /\ status # 200 => written[r] = 0
    BY DEF AnswerTells
  <2>1. Worked(r) /\ Answered(r)
    BY DEF IInv, Worked
  <2>2. NoCode \notin Nat
    BY EnumsAssumption
  <2>3. QED
    BY <2>1, <2>2, Codes, EndTags DEF Worked, WorkFits, Answered
<1>2. QED
  BY <1>1, Invariant, PTL

\* A code tells how a request ended, whatever bases the enums have, except where two of
\* them, or one and the system errors, overlap.
THEOREM CodesTell == Spec => []CodeTells
<1>1. IInv => CodeTells
  <2> SUFFICES ASSUME IInv, NEW r \in Requests, NEW t \in Requests,
                      stage[r] = "answered", stage[t] = "answered",
                      response[t].code = response[r].code, response[r].code # NoCode
               PROVE  \/ end[r] = end[t] /\ response[r].status = response[t].status
                      \/ /\ ~Alike(end[r], end[t]) /\ response[r].code # 0
                         /\ response[r].code \in CodesOf(end[r]) \cap CodesOf(end[t])
    BY DEF CodeTells
  <2>1. ASSUME NEW q \in {r, t}
        PROVE  \/ end[q] = Ok /\ response[q].code = 0 /\ response[q].status = 200
               \/ end[q] = Sys /\ response[q].code = 1 /\ response[q].status = 500
               \/ \E err \in Errors : /\ end[q] = Biz(err) /\ response[q].code = BizCode(err)
                                      /\ response[q].status = HttpStatus(err)
    BY DEF IInv, Worked, Answered
  <2>2. \A err \in Errors : BizCode(err) # 0 /\ BizCode(err) \in CodesOf(Biz(err))
    BY Codes
  <2>3. Ok # Sys /\ 0 \in CodesOf(Ok) /\ 1 \in CodesOf(Sys)
    BY DEF Ok, Sys, CodesOf
  <2>4. ASSUME NEW q \in {r, t}
        PROVE  /\ response[q].code \in CodesOf(end[q])
               /\ response[q].code = 0 => end[q] = Ok /\ response[q].status = 200
    BY <2>1, <2>2, <2>3
  <2>5. ASSUME Alike(end[r], end[t])
        PROVE  end[r] = end[t] /\ response[r].status = response[t].status
    <3>0. end[t].tag = end[r].tag
      BY <2>5 DEF Alike
    <3>1. CASE end[r] \in {Ok, Sys}
      <4>1. Ok.tag = "ok" /\ Sys.tag = "sys" /\ \A err \in Errors : Biz(err).tag = "biz"
        BY EndTags
      <4>2. CASE end[r] = Ok
        <5>1. end[t] = Ok /\ response[t].status = 200
          BY <2>1, <3>0, <4>1, <4>2
        <5>2. response[r].status = 200
          BY <2>1, <4>1, <4>2
        <5> QED
          BY <4>2, <5>1, <5>2
      <4>3. CASE end[r] = Sys
        <5>1. end[t] = Sys /\ response[t].status = 500
          BY <2>1, <3>0, <4>1, <4>3
        <5>2. response[r].status = 500
          BY <2>1, <4>1, <4>3
        <5> QED
          BY <4>3, <5>1, <5>2
      <4> QED
        BY <3>1, <4>2, <4>3
    <3>2. CASE end[r] \notin {Ok, Sys}
      <4>1. PICK x \in Errors : /\ end[r] = Biz(x) /\ response[r].code = BizCode(x)
                                /\ response[r].status = HttpStatus(x)
        BY <2>1, <3>2
      <4>2. PICK y \in Errors : /\ end[t] = Biz(y) /\ response[t].code = BizCode(y)
                                /\ response[t].status = HttpStatus(y)
        BY <2>1, <3>0, <4>1, EndTags
      <4>3. x = y
        BY <2>5, <4>1, <4>2, Codes DEF Alike, Biz
      <4>4. QED
        BY <4>1, <4>2, <4>3
    <3>3. QED
      BY <3>1, <3>2
  <2>6. QED
    BY <2>4, <2>5
<1>2. QED
  BY <1>1, Invariant, PTL

\* Nothing runs for a request that was not read as a whole.
THEOREM WholeRequests == Spec => []RunsWholeRequests
<1>1. IInv => RunsWholeRequests
  <2> SUFFICES ASSUME IInv, NEW r \in Requests, stage[r] \in Running \/ written[r] > 0
               PROVE  /\ \A i \in DOMAIN api.bounds : api.bounds[i] \in sent[r]
                      /\ \A i, j \in DOMAIN api.bounds :
                           api.bounds[i] = "HttpJsonBody" /\ api.bounds[j] = "HttpJsonBody"
                             => i = j
    BY DEF RunsWholeRequests, Running
  <2>1. Read(r) /\ at[r] = Len(api.bounds)
    BY DEF IInv, Read
  <2>2. DOMAIN api.bounds = 1..at[r]
    BY <2>1, ApisAssumption DEF IInv, TypeOK
  <2>3. QED
    BY <2>1, <2>2 DEF Read
<1>2. QED
  BY <1>1, Invariant, PTL

\* Nobody is refused for the order of the bounds.
THEOREM Refusals == Spec => []RefusedForReason
<1>1. IInv => RefusedForReason
  BY DEF IInv, Worked, WorkFits, Reason, RefusedForReason
<1>2. QED
  BY <1>1, Invariant, PTL
=============================================================================
