--------------------------- MODULE RegistryResolve ---------------------------
(***************************************************************************)
(* One operation of the registry client (internal/registry/resolver.go):    *)
(* Resolve asks with HEAD, falls back to GET where HEAD is refused, answers *)
(* a 401 with a bearer token and starts over with it; FetchManifest and     *)
(* FetchBlob ask with GET and answer a 401 once.  The registry's answer is  *)
(* a step apart from the client's reading of it, and the tag may be moved   *)
(* or deleted before, between and after.                                    *)
(*                                                                         *)
(* A profile says how a registry behaves that keeps to the protocol: what   *)
(* it makes of HEAD, and whether it wants a token.  At any request it may   *)
(* also fail to: time out, return an error page, drop a header.             *)
(***************************************************************************)
EXTENDS Integers

CONSTANTS
    Digests,    \* what the tag may point to
    Absent      \* no such tag or blob; an empty Docker-Content-Digest header

ASSUME AbsentAssumption == Absent \notin Digests

Operations == {"resolve", "manifest", "blob"}
Content == Digests \cup {Absent}

(* How an honest registry takes a HEAD of a manifest, whether it demands a  *)
(* token, and whether it says so before it looks at the method.             *)
Profile ==
    [head : {"served", "notAllowed", "hidden"}, token : BOOLEAN,
     tokenFirst : BOOLEAN]

(* challenge: the WWW-Authenticate header is a bearer challenge with realm. *)
Response ==
    [status : {"ok", "unauthorized", "notAllowed", "notFound", "other"},
     digest : Content, challenge : BOOLEAN]

VARIABLES
    profile,    \* the registry
    stored,     \* what the tag (or the blob) now is
    op,         \* the operation, chosen at its start
    step,       \* where the client is
    method,     \* of the last request
    token,      \* it carried a bearer token
    response,   \* the registry's answer to it, once given
    result,     \* what the operation returned
    current,    \* history: what was stored since the last request was sent
    requests,   \* history: requests sent to the registry
    tokens,     \* history: tokens asked for
    disturbed   \* history: something broke the protocol

client == <<op, step, method, token, result>>
vars == <<profile, stored, client, response, current, requests, tokens, disturbed>>

NoResponse == [status |-> "other", digest |-> Absent, challenge |-> FALSE]

(* digest: the Docker-Content-Digest of a manifest, Absent if the header    *)
(* was; of a blob, whose content it is.                                     *)
Result ==
    [status : {"none", "ok", "notFound", "error"}, digest : Content]

Init ==
    /\ profile \in Profile
    /\ stored \in Content
    /\ op = "resolve" /\ step = "new" /\ method = "HEAD" /\ token = FALSE
    /\ response = NoResponse
    /\ result = [status |-> "none", digest |-> Absent]
    /\ current = {} /\ requests = 0 /\ tokens = 0 /\ disturbed = FALSE

-----------------------------------------------------------------------------
(* Bound: what the counters of history count to.                            *)
MaxCount == 6
Counted(n) == IF n < MaxCount THEN n + 1 ELSE n

(* What the client does next.                                               *)
Send(m, withToken) ==
    /\ step' = "sent" /\ method' = m /\ token' = withToken
    /\ current' = {stored} /\ requests' = Counted(requests)
    /\ UNCHANGED <<op, result, tokens>>

AskForToken ==
    /\ step' = "token" /\ tokens' = Counted(tokens)
    /\ UNCHANGED <<op, method, token, result, current, requests>>

Return(status, digest) ==
    /\ step' = "done"
    /\ result' = [status |-> status, digest |-> digest]
    /\ UNCHANGED <<op, method, token, current, requests, tokens>>

FirstMethod(o) == IF o = "resolve" THEN "HEAD" ELSE "GET"

Begin(o) ==
    /\ step = "new"
    /\ op' = o
    /\ step' = "sent" /\ method' = FirstMethod(o) /\ token' = FALSE
    /\ current' = {stored} /\ requests' = 1
    /\ UNCHANGED <<profile, stored, response, result, tokens, disturbed>>

(* No tag to resolve, no reference or digest to fetch, no registry name.    *)
Refuse(o) ==
    /\ step = "new"
    /\ op' = o
    /\ step' = "done" /\ result' = [result EXCEPT !.status = "error"]
    /\ disturbed' = TRUE
    /\ UNCHANGED <<profile, stored, method, token, response, current,
                   requests, tokens>>

-----------------------------------------------------------------------------
(* The registry answers.                                                    *)
Honest ==
    LET unauthorized ==
            [NoResponse EXCEPT !.status = "unauthorized", !.challenge = TRUE]
        refusal == profile.token /\ ~token
        plainHead == op = "resolve" /\ method = "HEAD" /\ profile.head # "served"
        noHead == [NoResponse EXCEPT !.status =
                     IF profile.head = "notAllowed" THEN "notAllowed" ELSE "notFound"]
    IN  IF refusal /\ (profile.tokenFirst \/ ~plainHead) THEN unauthorized
        ELSE IF plainHead THEN noHead
        ELSE IF stored = Absent THEN [NoResponse EXCEPT !.status = "notFound"]
        ELSE [NoResponse EXCEPT !.status = "ok", !.digest = stored]

Serve ==
    /\ step = "sent"
    /\ step' = "answered"
    /\ response' = Honest
    /\ UNCHANGED <<profile, stored, op, method, token, result, current,
                   requests, tokens, disturbed>>

(* Any other answer.  Whatever else it says, a 2xx that names a digest      *)
(* names the one stored: a registry that lies is not the client's to catch. *)
Misserve(answer) ==
    /\ step = "sent" /\ answer # Honest
    /\ answer.status = "ok" => answer.digest \in {stored, Absent}
    /\ step' = "answered"
    /\ response' = answer
    /\ disturbed' = TRUE
    /\ UNCHANGED <<profile, stored, op, method, token, result, current,
                   requests, tokens>>

-----------------------------------------------------------------------------
(* Faulty form of FallsBackToGet: not once more after the token.            *)
FallsBackToGetOnce ==
    /\ ~token
    /\ \/ response.status = "notAllowed"
       \/ response.status = "notFound" /\ response.digest = Absent

(* shouldFallbackToGet.                                                     *)
FallsBackToGet ==
    \/ response.status = "notAllowed"
    \/ response.status = "notFound" /\ response.digest = Absent

(* Faulty form of Unauthorized: when the registry refuses a token, another  *)
(* is asked for.                                                            *)
UnauthorizedAgain == response.status = "unauthorized"

(* A 401 counts as a challenge until a token has been sent.                 *)
Unauthorized == response.status = "unauthorized" /\ ~token

(* Faulty form of Conclude: a digest header is believed whatever the status.*)
ConcludeAnyDigest ==
    IF response.digest # Absent THEN Return("ok", response.digest)
    ELSE Return(IF response.status = "notFound" THEN "notFound" ELSE "error", Absent)

(* What the operation makes of the last answer.  Only Resolve insists on    *)
(* the digest header, and a missing blob is an error like any other.        *)
Conclude ==
    IF response.status = "notFound"
    THEN Return(IF op = "blob" THEN "error" ELSE "notFound", Absent)
    ELSE IF response.status # "ok" \/ (op = "resolve" /\ response.digest = Absent)
    THEN Return("error", Absent)
    ELSE Return("ok", response.digest)

Receive ==
    /\ step = "answered"
    /\ IF op = "resolve" /\ method = "HEAD" /\ FallsBackToGet
       THEN Send("GET", token)
       ELSE IF ~Unauthorized THEN Conclude
       ELSE IF response.challenge THEN AskForToken
       ELSE Return("error", Absent)
    /\ UNCHANGED <<profile, stored, response, disturbed>>

(* fetchBearerToken, then the request once more, from its first method.     *)
ReceiveToken ==
    /\ step = "token"
    /\ Send(FirstMethod(op), TRUE)
    /\ UNCHANGED <<profile, stored, response, disturbed>>

(* The token service refuses, or its answer holds no token.                 *)
TokenFails ==
    /\ step = "token"
    /\ Return("error", Absent)
    /\ disturbed' = TRUE
    /\ UNCHANGED <<profile, stored, response>>

(* Client.Do returns an error: no connection, or 30 seconds are over, or a  *)
(* body breaks off.                                                         *)
NetworkFails ==
    /\ step \in {"sent", "answered"}
    /\ Return("error", Absent)
    /\ disturbed' = TRUE
    /\ UNCHANGED <<profile, stored, response>>

(* The publisher moves, deletes or restores the tag.  A blob is named by    *)
(* its digest and does not change.                                          *)
Publish(d) ==
    /\ op # "blob" \/ step = "new"
    /\ d # stored
    /\ stored' = d
    /\ current' = IF step = "sent" THEN current \cup {d} ELSE current
    /\ UNCHANGED <<profile, client, response, requests, tokens, disturbed>>

-----------------------------------------------------------------------------
Progress ==
    \/ Serve \/ Receive \/ ReceiveToken \/ TokenFails \/ NetworkFails
    \/ \E answer \in Response : Misserve(answer)

Next ==
    \/ \E o \in Operations : Begin(o) \/ Refuse(o)
    \/ Progress
    \/ \E d \in Content : Publish(d)

Spec == Init /\ [][Next]_vars

(* The HTTP client has a timeout, so a request that was sent is answered or *)
(* fails, and the goroutine goes on.                                        *)
FairSpec == Spec /\ WF_vars(Progress)

-----------------------------------------------------------------------------
TypeOK ==
    /\ profile \in Profile /\ stored \in Content
    /\ op \in Operations /\ step \in {"new", "sent", "answered", "token", "done"}
    /\ method \in {"HEAD", "GET"} /\ token \in BOOLEAN
    /\ response \in Response /\ result \in Result
    /\ current \subseteq Content
    /\ requests \in 0..MaxCount /\ tokens \in 0..MaxCount
    /\ disturbed \in BOOLEAN

(* The digest an operation returns is one the tag had while the last        *)
(* request was on its way: never that of an earlier answer, however often   *)
(* the client fell back or started over while the tag moved.                *)
AnswerIsCurrent ==
    result.status = "ok" /\ result.digest # Absent => result.digest \in current

(* Against a registry that keeps to the protocol, whether it refuses HEAD,  *)
(* hides the manifest from it, wants a token first or last, every operation *)
(* succeeds, unless what it asked for is missing; a manifest is reported    *)
(* missing only if it was.                                                  *)
HonestRegistryAnswers ==
    step = "done" /\ ~disturbed =>
        \/ result.status = "ok" /\ result.digest # Absent
        \/ result.status = "notFound" /\ Absent \in current
        \/ result.status = "error" /\ op = "blob" /\ Absent \in current

(* A registry that turns everything away is asked at most four times, for   *)
(* one token at most, and is sent no other; against one that keeps to the   *)
(* protocol and wants no token, none is asked for.                          *)
RequestsBounded ==
    /\ requests <= (IF op = "resolve" THEN 4 ELSE 2) /\ tokens <= 1
    /\ token => tokens = 1
    /\ tokens # 0 /\ ~disturbed => profile.token

(* An operation that began ends, whatever the registry answers.             *)
OperationEnds == step = "sent" ~> step = "done"
=============================================================================
