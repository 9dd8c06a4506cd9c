------------------------ MODULE RegistryResolveProofs ------------------------
(***************************************************************************)
(* Safety of the registry client, for any digests: how many requests and    *)
(* tokens an operation takes, what its answer is worth while the tag moves, *)
(* and that it misses nothing an honest registry would give it.             *)
(***************************************************************************)
EXTENDS RegistryResolve, TLAPS

(* Where an operation stands in the exchange, and what it has spent so far. *)
Route ==
    /\ step = "new" =>
          requests = 0 /\ tokens = 0 /\ ~token /\ result.status = "none"
    /\ step \in {"sent", "answered"} =>
          /\ result.status = "none"
          /\ tokens = IF token THEN 1 ELSE 0
          /\ op # "resolve" => method = "GET" /\ requests <= IF token THEN 2 ELSE 1
          /\ op = "resolve" => requests <= (IF token THEN 2 ELSE 0)
                                           + (IF method = "HEAD" THEN 1 ELSE 2)
    /\ step = "token" =>
          /\ result.status = "none" /\ ~token /\ tokens = 1
          /\ requests <= IF op = "resolve" THEN 2 ELSE 1
    /\ RequestsBounded

(* What is on its way was stored while it was.                              *)
Fresh ==
    /\ step = "sent" => stored \in current
    /\ step = "answered" /\ response.status = "ok" =>
          response.digest \in current \cup {Absent}
    /\ AnswerIsCurrent

(* What an undisturbed registry may have answered.                          *)
HonestAnswer ==
    \/ /\ response.status = "unauthorized"
       /\ response.challenge /\ ~token /\ profile.token
    \/ /\ op = "resolve" /\ method = "HEAD"
       /\ response.status \in {"notAllowed", "notFound"}
       /\ response.digest = Absent
    \/ /\ response.status = "notFound" /\ response.digest = Absent
       /\ Absent \in current
    \/ response.status = "ok" /\ response.digest # Absent

Honestly ==
    /\ step = "answered" /\ ~disturbed => HonestAnswer
    /\ HonestRegistryAnswers

(* The inductive invariant.                                                 *)
ResolveInvariant == TypeOK /\ Route /\ Fresh /\ Honestly

-----------------------------------------------------------------------------
LEMMA ResolveInitially == Init => ResolveInvariant
<1> SUFFICES ASSUME Init PROVE ResolveInvariant
  OBVIOUS
<1>1. response \in Response /\ result \in Result
  <2>1. NoResponse \in Response
    BY DEF NoResponse, Response, Content
  <2>2. [status |-> "none", digest |-> Absent] \in Result
    BY DEF Result, Content
  <2>3. response = NoResponse /\ result = [status |-> "none", digest |-> Absent]
    BY DEF Init
  <2> QED BY <2>1, <2>2, <2>3
<1>2. TypeOK
  <2>1. /\ profile \in Profile /\ stored \in Content /\ op \in Operations
        /\ step = "new" /\ method = "HEAD" /\ current = {}
        /\ requests = 0 /\ tokens = 0
    BY DEF Init, Operations
  <2>2. token \in BOOLEAN /\ disturbed \in BOOLEAN
    BY DEF Init
  <2> QED BY <1>1, <2>1, <2>2 DEF TypeOK, MaxCount
<1>3. Route /\ Fresh /\ Honestly
  BY DEF Init, Route, RequestsBounded, Fresh, AnswerIsCurrent, Honestly,
         HonestRegistryAnswers
<1> QED BY <1>2, <1>3 DEF ResolveInvariant

(* The answer an honest registry gives is one HonestAnswer describes.       *)
LEMMA HonestIsResponse == TypeOK => Honest \in Response
BY DEF TypeOK, Honest, NoResponse, Response, Content, Profile

LEMMA BeginKeeps ==
    ASSUME ResolveInvariant, NEW o \in Operations, Begin(o)
    PROVE  ResolveInvariant'
<1>1. TypeOK'
  <2>1. TypeOK /\ requests' \in 0..MaxCount /\ FirstMethod(o) \in {"HEAD", "GET"}
    BY DEF ResolveInvariant, Begin, MaxCount, FirstMethod
  <2>2. current' \subseteq Content
    BY <2>1 DEF TypeOK, Begin
  <2> QED BY <2>1, <2>2 DEF TypeOK, Begin
<1>2. Route'
    BY DEF ResolveInvariant, TypeOK, Begin, FirstMethod, Route, RequestsBounded,
           Operations
<1>3. Fresh' /\ Honestly'
    BY DEF ResolveInvariant, TypeOK, Begin, Fresh, Route, AnswerIsCurrent,
           Honestly, HonestRegistryAnswers
<1> QED BY <1>1, <1>2, <1>3 DEF ResolveInvariant

LEMMA RefuseKeeps ==
    ASSUME ResolveInvariant, NEW o \in Operations, Refuse(o)
    PROVE  ResolveInvariant'
<1>1. TypeOK' /\ result'.status = "error"
    BY DEF ResolveInvariant, TypeOK, Refuse, Result
<1>2. Route'
    BY <1>1 DEF ResolveInvariant, TypeOK, Refuse, Route, RequestsBounded
<1>3. Fresh' /\ Honestly'
    BY <1>1 DEF ResolveInvariant, TypeOK, Refuse, Fresh, AnswerIsCurrent,
                Honestly, HonestRegistryAnswers
<1> QED BY <1>1, <1>2, <1>3 DEF ResolveInvariant

LEMMA ServeKeeps ==
    ASSUME ResolveInvariant, Serve
    PROVE  ResolveInvariant'
<1>1. TypeOK' BY HonestIsResponse DEF ResolveInvariant, TypeOK, Serve
<1>2. Route' BY DEF ResolveInvariant, Serve, Route, RequestsBounded
<1>3. stored \in current BY DEF ResolveInvariant, Fresh, Serve
<1>4. /\ HonestAnswer'
      /\ response'.status = "ok" => response'.digest = stored
    BY <1>3 DEF ResolveInvariant, TypeOK, Serve, Honest, HonestAnswer,
                NoResponse, Profile
<1>5. Fresh'
    BY <1>3, <1>4 DEF ResolveInvariant, Serve, Fresh, AnswerIsCurrent
<1>6. Honestly'
    BY <1>4 DEF ResolveInvariant, Serve, Honestly, HonestRegistryAnswers
<1> QED BY <1>1, <1>2, <1>5, <1>6 DEF ResolveInvariant

LEMMA MisserveKeeps ==
    ASSUME ResolveInvariant, NEW answer \in Response, Misserve(answer)
    PROVE  ResolveInvariant'
<1>1. TypeOK' BY DEF ResolveInvariant, TypeOK, Misserve
<1>2. Route' BY DEF ResolveInvariant, Misserve, Route, RequestsBounded
<1>3. Fresh'
    BY DEF ResolveInvariant, Misserve, Fresh, AnswerIsCurrent
<1>4. Honestly'
    BY DEF ResolveInvariant, TypeOK, Misserve, Honestly, HonestRegistryAnswers
<1> QED BY <1>1, <1>2, <1>3, <1>4 DEF ResolveInvariant

(* The client's reading of an answer: it falls back, asks for a token, or   *)
(* concludes.                                                               *)
LEMMA SendKeeps ==
    ASSUME ResolveInvariant, NEW m \in {"HEAD", "GET"}, NEW t \in BOOLEAN,
           step \in {"answered", "token"}, Send(m, t),
           UNCHANGED <<profile, stored, response, disturbed>>,
           \/ step = "answered" /\ op = "resolve" /\ method = "HEAD" /\ m = "GET" /\ t = token
           \/ step = "token" /\ t = TRUE /\ m = FirstMethod(op)
    PROVE  ResolveInvariant'
<1>1. requests \in 0..3 /\ requests' = requests + 1
    BY DEF ResolveInvariant, TypeOK, Route, RequestsBounded, Send, Counted,
           MaxCount, FirstMethod, Operations
<1>2. TypeOK' BY <1>1 DEF ResolveInvariant, TypeOK, Send, MaxCount
<1>3. Route'
  <2>1. CASE step = "answered" /\ op = "resolve" /\ m = "GET" /\ t = token
    <3>1. requests' <= 4 /\ (~token => requests' <= 2)
      BY <1>1, <2>1 DEF ResolveInvariant, TypeOK, Route
    <3> QED BY <1>1, <2>1, <3>1
            DEF ResolveInvariant, TypeOK, Route, RequestsBounded, Send
  <2>2. CASE step = "token" /\ t = TRUE /\ m = FirstMethod(op)
    <3>1. /\ op = "resolve" => requests' <= 3 /\ m = "HEAD"
          /\ op # "resolve" => requests' <= 2 /\ m = "GET"
      BY <1>1, <2>2 DEF ResolveInvariant, TypeOK, Route, FirstMethod
    <3> QED BY <1>1, <2>2, <3>1
            DEF ResolveInvariant, TypeOK, Route, RequestsBounded, Send
  <2> QED BY <2>1, <2>2
<1>4. Fresh' /\ Honestly'
    BY DEF ResolveInvariant, TypeOK, Route, Send, Fresh, AnswerIsCurrent,
           Honestly, HonestRegistryAnswers
<1> QED BY <1>2, <1>3, <1>4 DEF ResolveInvariant

LEMMA AskForTokenKeeps ==
    ASSUME ResolveInvariant, step = "answered", AskForToken, Unauthorized,
           ~(op = "resolve" /\ method = "HEAD" /\ FallsBackToGet),
           UNCHANGED <<profile, stored, response, disturbed>>
    PROVE  ResolveInvariant'
<1>1. tokens = 0 /\ ~token /\ tokens' = 1
    BY DEF ResolveInvariant, TypeOK, Route, AskForToken, Unauthorized, Counted,
           MaxCount
<1>2. TypeOK' BY <1>1 DEF ResolveInvariant, TypeOK, AskForToken, MaxCount
<1>3. Route'
    <2>1. ~disturbed => profile.token
        BY DEF ResolveInvariant, Honestly, HonestAnswer, Unauthorized
    <2> QED
        BY <1>1, <2>1 DEF ResolveInvariant, TypeOK, Route, RequestsBounded,
                          AskForToken, Operations, MaxCount
<1>4. Fresh' /\ Honestly'
    BY DEF ResolveInvariant, AskForToken, Route, Fresh, AnswerIsCurrent,
           Honestly, HonestRegistryAnswers
<1> QED BY <1>2, <1>3, <1>4 DEF ResolveInvariant

(* Ending with an error is always allowed, if something went wrong.         *)
LEMMA ErrorKeeps ==
    ASSUME ResolveInvariant, step \in {"sent", "answered", "token"},
           Return("error", Absent), disturbed',
           UNCHANGED <<profile, stored, response>>
    PROVE  ResolveInvariant'
<1>1. TypeOK' /\ result'.status = "error"
    BY DEF ResolveInvariant, TypeOK, Return, Result, Content
<1>2. Route'
    BY <1>1 DEF ResolveInvariant, TypeOK, Route, RequestsBounded, Return
<1>3. Fresh' /\ Honestly'
    BY <1>1 DEF ResolveInvariant, Return, Fresh, AnswerIsCurrent, Honestly,
                HonestRegistryAnswers
<1> QED BY <1>1, <1>2, <1>3 DEF ResolveInvariant

LEMMA ConcludeKeeps ==
    ASSUME ResolveInvariant, step = "answered",
           ~Unauthorized \/ ~response.challenge,
           IF Unauthorized THEN Return("error", Absent) ELSE Conclude,
           ~(op = "resolve" /\ method = "HEAD" /\ FallsBackToGet),
           UNCHANGED <<profile, stored, response, disturbed>>
    PROVE  ResolveInvariant'
<1>1. /\ step' = "done"
      /\ result' \in Result
      /\ result'.status # "none"
      /\ result'.status = "ok" =>
            response.status = "ok" /\ result'.digest = response.digest
      /\ result'.status = "notFound" =>
            response.status = "notFound" /\ op # "blob"
      /\ UNCHANGED <<op, method, token, current, requests, tokens>>
    BY DEF ResolveInvariant, TypeOK, Conclude, Return, Result, Response, Content
<1>2. TypeOK' BY <1>1 DEF ResolveInvariant, TypeOK
<1>3. Route'
    BY <1>1 DEF ResolveInvariant, TypeOK, Route, RequestsBounded
<1>4. Fresh' BY <1>1 DEF ResolveInvariant, Fresh, AnswerIsCurrent
<1>5. Honestly'
    <2> SUFFICES ASSUME ~disturbed
                 PROVE  HonestRegistryAnswers'
        BY <1>1 DEF Honestly, HonestRegistryAnswers
    <2>1. HonestAnswer BY DEF ResolveInvariant, Honestly
    <2>2. \/ response.status = "notFound" /\ Absent \in current
          \/ response.status = "ok" /\ response.digest # Absent
        BY <2>1 DEF HonestAnswer, Unauthorized, FallsBackToGet
    <2>3. CASE response.status = "notFound" /\ Absent \in current
        BY <2>3, <1>1 DEF Conclude, Return, Unauthorized, HonestRegistryAnswers
    <2>4. CASE response.status = "ok" /\ response.digest # Absent
        BY <2>4, <1>1 DEF Conclude, Return, Unauthorized, HonestRegistryAnswers
    <2> QED BY <2>2, <2>3, <2>4
<1> QED BY <1>2, <1>3, <1>4, <1>5 DEF ResolveInvariant

LEMMA ReceiveKeeps ==
    ASSUME ResolveInvariant, Receive
    PROVE  ResolveInvariant'
<1>0. step = "answered" /\ UNCHANGED <<profile, stored, response, disturbed>>
    BY DEF Receive
<1>1. CASE op = "resolve" /\ method = "HEAD" /\ FallsBackToGet
    <2>1. Send("GET", token) BY <1>1 DEF Receive
    <2>2. token \in BOOLEAN BY DEF ResolveInvariant, TypeOK
    <2> QED BY <1>0, <1>1, <2>1, <2>2, SendKeeps
<1>2. CASE /\ ~(op = "resolve" /\ method = "HEAD" /\ FallsBackToGet)
           /\ Unauthorized /\ response.challenge
    <2>1. AskForToken BY <1>2 DEF Receive
    <2> QED BY <1>0, <1>2, <2>1, AskForTokenKeeps
<1>3. CASE /\ ~(op = "resolve" /\ method = "HEAD" /\ FallsBackToGet)
           /\ ~Unauthorized \/ ~response.challenge
    <2>1. IF Unauthorized THEN Return("error", Absent) ELSE Conclude
        BY <1>3 DEF Receive
    <2> QED BY <1>0, <1>3, <2>1, ConcludeKeeps
<1> QED BY <1>1, <1>2, <1>3

LEMMA PublishKeeps ==
    ASSUME ResolveInvariant, NEW d \in Content, Publish(d)
    PROVE  ResolveInvariant'
<1>1. current \subseteq current' /\ (step = "sent" => d \in current')
      /\ UNCHANGED <<profile, client, response, requests, tokens, disturbed>>
      /\ stored' = d
    BY DEF Publish
<1>2. TypeOK'
    BY DEF ResolveInvariant, TypeOK, Publish, client
<1>3. Route' BY <1>1 DEF ResolveInvariant, Route, RequestsBounded, client
<1>4. Fresh' BY <1>1 DEF ResolveInvariant, Fresh, AnswerIsCurrent, client
<1>5. Honestly'
    BY <1>1 DEF ResolveInvariant, Honestly, HonestAnswer,
                HonestRegistryAnswers, client
<1> QED BY <1>2, <1>3, <1>4, <1>5 DEF ResolveInvariant

-----------------------------------------------------------------------------
LEMMA ResolveInductive == ResolveInvariant /\ [Next]_vars => ResolveInvariant'
<1> SUFFICES ASSUME ResolveInvariant, [Next]_vars
             PROVE  ResolveInvariant'
    OBVIOUS
<1>1. CASE \E o \in Operations : Begin(o) \/ Refuse(o)
    BY <1>1, BeginKeeps, RefuseKeeps
<1>2. CASE Serve BY <1>2, ServeKeeps
<1>3. CASE Receive BY <1>3, ReceiveKeeps
<1>4. CASE ReceiveToken
    <2>1. /\ step = "token" /\ Send(FirstMethod(op), TRUE)
          /\ UNCHANGED <<profile, stored, response, disturbed>>
        BY <1>4 DEF ReceiveToken
    <2>2. FirstMethod(op) \in {"HEAD", "GET"} BY DEF FirstMethod
    <2> QED BY <2>1, <2>2, SendKeeps
<1>5. CASE TokenFails BY <1>5, ErrorKeeps DEF TokenFails
<1>6. CASE NetworkFails BY <1>6, ErrorKeeps DEF NetworkFails
<1>7. CASE \E answer \in Response : Misserve(answer) BY <1>7, MisserveKeeps
<1>8. CASE \E d \in Content : Publish(d) BY <1>8, PublishKeeps
<1>9. CASE UNCHANGED vars
    BY <1>9 DEF vars, client, ResolveInvariant, TypeOK, Route, RequestsBounded,
                Fresh, AnswerIsCurrent, Honestly, HonestAnswer,
                HonestRegistryAnswers
<1> QED
    BY <1>1, <1>2, <1>3, <1>4, <1>5, <1>6, <1>7, <1>8, <1>9 DEF Next, Progress

LEMMA ResolveInvariantHolds == Spec => []ResolveInvariant
BY ResolveInitially, ResolveInductive, PTL DEF Spec

(* Every variable of the client has the shape the code gives it.            *)
THEOREM ResolveTypeCorrect == Spec => []TypeOK
BY ResolveInvariantHolds, PTL DEF ResolveInvariant

(* However the registry answers, one operation sends at most four requests  *)
(* and asks for at most one token, and for none where the registry keeps to *)
(* the protocol and wants none (resolver.go:66-270).                        *)
THEOREM ResolveStops == Spec => []RequestsBounded
BY ResolveInvariantHolds, PTL DEF ResolveInvariant, Route

(* A digest the client returns is one the tag had while the request that    *)
(* was answered last was on its way, however the tag moves.                 *)
THEOREM ResolveIsCurrent == Spec => []AnswerIsCurrent
BY ResolveInvariantHolds, PTL DEF ResolveInvariant, Fresh

(* A registry that keeps to the protocol, with or without HEAD and tokens,  *)
(* is never given up on.                                                    *)
THEOREM HonestRegistryIsHeard == Spec => []HonestRegistryAnswers
BY ResolveInvariantHolds, PTL DEF ResolveInvariant, Honestly
=============================================================================
