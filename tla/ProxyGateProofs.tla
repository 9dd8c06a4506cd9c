--------------------------- MODULE ProxyGateProofs ---------------------------
(***************************************************************************)
(* What the proxy promises for any tags, manifests, blobs and policy and    *)
(* any number of concurrent requests, across restarts.                      *)
(***************************************************************************)
EXTENDS ProxyGate, TLAPS

(* A handler's request names a tag or a digest.  Nothing is fetched before  *)
(* it was decided, and it is fetched by the same name.                      *)
SameManifest(k, points) ==
    /\ k.pc \in {"decide", "fetch"} =>
          /\ (k.tag = None) # (k.pin = None)
          /\ k.fetched = None
    /\ k.pc \in {"new", "checkblob", "fetchblob"} => k.fetched = None
    /\ k.pc = "fetch" /\ ~k.moved =>
          k.decided = IF k.tag = None THEN k.pin ELSE points[k.tag]
    /\ k.fetched # None /\ ~k.moved => k.fetched = k.decided

(* What a handler remembers, and what was already remembered for it.        *)
Remembers(k, allowed, grants) ==
    /\ k.pc = "remember" =>
          /\ k.fetched \in grants
          /\ k.unnoted \subseteq Contents[k.fetched]
          /\ Contents[k.fetched] \ k.unnoted \subseteq allowed
    /\ k.pc = "checkblob" =>
          k.status = "none" /\ (k.owed => k.blob \in allowed)

AllSameManifest == \A c \in Calls : SameManifest(call[c], registry)
AllRemember == \A c \in Calls : Remembers(call[c], allowedBlobs, granted)

(* allowedBlobs holds what was shown and nothing that was not granted.      *)
BlobsBacked ==
    /\ \A b \in allowedBlobs : \E d \in granted : b \in Contents[d]
    /\ shown \subseteq allowedBlobs

(* The inductive invariant.                                                 *)
ProxyInvariant == TypeOK /\ AllSameManifest /\ AllRemember /\ BlobsBacked

-----------------------------------------------------------------------------
LEMMA ProxyInitially == Init => ProxyInvariant
BY DEF Init, ProxyInvariant, TypeOK, AllSameManifest, SameManifest, AllRemember,
       Remembers, BlobsBacked, NewCall, Call, Running, Statuses

(* What one step of one handler must show: the rest of the handlers keep    *)
(* what they had, since blobs and grants are only added.                    *)
LEMMA OneHandlerMoves ==
    ASSUME ProxyInvariant, NEW c \in Calls, NEW k \in Call, Becomes(c, k),
           registry' = registry, admissible' = admissible,
           seen' \subseteq Tags \X Digests,
           allowedBlobs \subseteq allowedBlobs', allowedBlobs' \subseteq Blobs,
           granted \subseteq granted', granted' \subseteq Digests,
           SameManifest(k, registry), Remembers(k, allowedBlobs', granted'),
           BlobsBacked'
    PROVE  ProxyInvariant'
<1>1. call' = [call EXCEPT ![c] = k] BY DEF Becomes
<1>2. \A b \in Calls : call'[b] = IF b = c THEN k ELSE call[b]
    BY <1>1 DEF ProxyInvariant, TypeOK
<1>3. TypeOK'
    BY <1>1 DEF ProxyInvariant, TypeOK, BlobsBacked
<1>4. ASSUME NEW b \in Calls
      PROVE  SameManifest(call'[b], registry)
    BY <1>2 DEF ProxyInvariant, AllSameManifest
<1>5. ASSUME NEW b \in Calls
      PROVE  Remembers(call'[b], allowedBlobs', granted')
    <2>1. CASE b = c BY <2>1, <1>2
    <2>2. CASE b # c
        <3>1. Remembers(call[b], allowedBlobs, granted)
            BY DEF ProxyInvariant, AllRemember
        <3> QED BY <3>1, <2>2, <1>2 DEF Remembers
    <2> QED BY <2>1, <2>2
<1> QED BY <1>3, <1>4, <1>5 DEF ProxyInvariant, AllSameManifest, AllRemember

(* A step that touches nothing but the handler's own variables.             *)
LEMMA OnlyHandlerMoves ==
    ASSUME ProxyInvariant, NEW c \in Calls, NEW k \in Call, Becomes(c, k),
           UNCHANGED <<registry, admissible, seen, allowedBlobs, granted, shown>>,
           SameManifest(k, registry), Remembers(k, allowedBlobs, granted)
    PROVE  ProxyInvariant'
<1>1. BlobsBacked' BY DEF ProxyInvariant, BlobsBacked
<1>2. /\ seen \subseteq Tags \X Digests /\ allowedBlobs \subseteq Blobs
      /\ granted \subseteq Digests
    BY DEF ProxyInvariant, TypeOK
<1> QED BY <1>1, <1>2, OneHandlerMoves

LEMMA AnswerKeeps ==
    ASSUME ProxyInvariant, NEW c \in Calls, NEW status \in Statuses,
           Answer(c, status),
           UNCHANGED <<registry, admissible, seen, allowedBlobs, granted, shown>>
    PROVE  ProxyInvariant'
<1> DEFINE k == [call[c] EXCEPT !.pc = "done", !.status = status]
<1>0. call[c] \in Call /\ SameManifest(call[c], registry)
    BY DEF ProxyInvariant, TypeOK, AllSameManifest
<1>1. k \in Call BY <1>0 DEF Call
<1>2. /\ k.pc = "done" /\ k.fetched = call[c].fetched
      /\ k.moved = call[c].moved /\ k.decided = call[c].decided
    BY <1>0 DEF Call
<1>3. SameManifest(k, registry) /\ Remembers(k, allowedBlobs, granted)
    BY <1>0, <1>2 DEF SameManifest, Remembers
<1>4. Becomes(c, k) BY DEF Answer
<1> HIDE DEF k
<1> QED BY <1>1, <1>3, <1>4, OnlyHandlerMoves

LEMMA ArrivalKeeps ==
    ASSUME ProxyInvariant, NEW c \in Calls, Arrival(c)
    PROVE  ProxyInvariant'
<1>1. ASSUME NEW get \in BOOLEAN, NEW tag \in Tags \cup {None},
             NEW pin \in Digests \cup {None}, ManifestRequest(c, get, tag, pin)
      PROVE  ProxyInvariant'
    <2> DEFINE k == [NewCall EXCEPT !.pc = "decide", !.get = get,
                                    !.tag = tag, !.pin = pin]
    <2>1. /\ k \in Call /\ k.pc = "decide" /\ k.fetched = None
          /\ k.tag = tag /\ k.pin = pin
        BY DEF Call, NewCall, Running, Statuses
    <2>2. SameManifest(k, registry) /\ Remembers(k, allowedBlobs, granted)
        BY <2>1, <1>1 DEF SameManifest, Remembers, ManifestRequest
    <2>3. /\ Becomes(c, k)
          /\ UNCHANGED <<registry, admissible, seen, allowedBlobs, granted, shown>>
        BY <1>1 DEF ManifestRequest
    <2> HIDE DEF k
    <2> QED BY <2>1, <2>2, <2>3, OnlyHandlerMoves
<1>2. ASSUME NEW get \in BOOLEAN, NEW b \in Blobs, BlobRequest(c, get, b)
      PROVE  ProxyInvariant'
    <2> DEFINE owed == b \in shown
               k == [NewCall EXCEPT !.pc = "checkblob", !.get = get,
                                    !.blob = b, !.owed = owed]
    <2>0. owed \in BOOLEAN /\ (owed => b \in shown)
        OBVIOUS
    <2> HIDE DEF owed
    <2>1. /\ k \in Call /\ k.pc = "checkblob" /\ k.fetched = None
          /\ k.blob = b /\ k.owed = owed /\ k.status = "none"
        BY <2>0 DEF Call, NewCall, Running, Statuses
    <2>2. SameManifest(k, registry) /\ Remembers(k, allowedBlobs, granted)
        BY <2>0, <2>1 DEF SameManifest, Remembers, ProxyInvariant, BlobsBacked
    <2>3. /\ Becomes(c, k)
          /\ UNCHANGED <<registry, admissible, seen, allowedBlobs, granted, shown>>
        BY <1>2 DEF BlobRequest, owed
    <2> HIDE DEF k
    <2> QED BY <2>1, <2>2, <2>3, OnlyHandlerMoves
<1>3. CASE RefuseRequest(c)
    BY <1>3, AnswerKeeps DEF RefuseRequest, Statuses
<1> QED BY <1>1, <1>2, <1>3 DEF Arrival

LEMMA DecideKeeps ==
    ASSUME ProxyInvariant, NEW c \in Calls, Decide(c)
    PROVE  ProxyInvariant'
<1> DEFINE d == IF call[c].tag = None THEN call[c].pin ELSE registry[call[c].tag]
           allowed == IF call[c].tag = None THEN AllowPinned
                                            ELSE Verdict(call[c].tag, d)
           fetch == [call[c] EXCEPT !.pc = "fetch", !.decided = d]
           deny == [call[c] EXCEPT !.pc = "done", !.decided = d, !.status = "403"]
<1>0. /\ call[c] \in Call /\ call[c].pc = "decide"
      /\ SameManifest(call[c], registry)
    BY DEF ProxyInvariant, TypeOK, AllSameManifest, Decide, At
<1>1. d \in Digests
    BY <1>0, NoneAssumption DEF SameManifest, Call, ProxyInvariant, TypeOK
<1>2. /\ fetch \in Call /\ deny \in Call
      /\ fetch.pc = "fetch" /\ fetch.decided = d /\ fetch.tag = call[c].tag
      /\ fetch.pin = call[c].pin /\ fetch.fetched = None
      /\ deny.pc = "done" /\ deny.fetched = None
    BY <1>0, <1>1 DEF Call, Running, Statuses, SameManifest
<1>3. /\ SameManifest(fetch, registry) /\ SameManifest(deny, registry)
      /\ Remembers(fetch, allowedBlobs, granted)
      /\ Remembers(deny, allowedBlobs, granted)
    BY <1>0, <1>2 DEF SameManifest, Remembers
<1>4. Becomes(c, fetch) \/ Becomes(c, deny)
    BY DEF Decide
<1>5. UNCHANGED <<registry, admissible, allowedBlobs, granted, shown>>
    BY DEF Decide
<1>6. seen' \subseteq Tags \X Digests
    <2>1. seen' = IF call[c].tag = None THEN seen
                  ELSE seen \cup {<<call[c].tag, d>>}
        BY DEF Decide
    <2>2. call[c].tag \in Tags \cup {None} BY <1>0 DEF Call
    <2> QED BY <2>1, <2>2, <1>1 DEF ProxyInvariant, TypeOK
<1>7. /\ BlobsBacked' /\ granted \subseteq Digests /\ allowedBlobs \subseteq Blobs
    BY <1>5 DEF ProxyInvariant, BlobsBacked, TypeOK
<1> HIDE DEF fetch, deny
<1> QED BY <1>2, <1>3, <1>4, <1>5, <1>6, <1>7, OneHandlerMoves

LEMMA FetchManifestKeeps ==
    ASSUME ProxyInvariant, NEW c \in Calls, FetchManifest(c)
    PROVE  ProxyInvariant'
<1> DEFINE d == IF call[c].tag = None THEN call[c].pin ELSE registry[call[c].tag]
           k == [call[c] EXCEPT !.pc = "remember", !.fetched = d,
                                !.unnoted = Contents[d]]
<1>0. /\ call[c] \in Call /\ call[c].pc = "fetch"
      /\ SameManifest(call[c], registry)
    BY DEF ProxyInvariant, TypeOK, AllSameManifest, FetchManifest, At
<1>1. d \in Digests
    BY <1>0, NoneAssumption DEF SameManifest, Call, ProxyInvariant, TypeOK
<1>2. Contents[d] \in SUBSET Blobs BY <1>1, ContentsAssumption
<1>3. /\ k \in Call /\ k.pc = "remember" /\ k.fetched = d
      /\ k.unnoted = Contents[d] /\ k.moved = call[c].moved
      /\ k.decided = call[c].decided
    BY <1>0, <1>1, <1>2 DEF Call, Running
<1>4. SameManifest(k, registry) BY <1>0, <1>3 DEF SameManifest
<1>5. /\ Becomes(c, k) /\ granted' = granted \cup {d}
      /\ UNCHANGED <<registry, admissible, seen, allowedBlobs, shown>>
    BY DEF FetchManifest
<1>6. Remembers(k, allowedBlobs', granted') BY <1>3, <1>5 DEF Remembers
<1>7. BlobsBacked' BY <1>5 DEF ProxyInvariant, BlobsBacked
<1>8. /\ granted' \subseteq Digests /\ granted \subseteq granted'
      /\ allowedBlobs \subseteq Blobs /\ seen \subseteq Tags \X Digests
    BY <1>1, <1>5 DEF ProxyInvariant, TypeOK
<1> HIDE DEF k
<1> QED BY <1>3, <1>4, <1>5, <1>6, <1>7, <1>8, OneHandlerMoves

LEMMA RememberBlobKeeps ==
    ASSUME ProxyInvariant, NEW c \in Calls, RememberBlob(c)
    PROVE  ProxyInvariant'
<1>0. /\ call[c] \in Call /\ call[c].pc = "remember"
      /\ SameManifest(call[c], registry)
      /\ Remembers(call[c], allowedBlobs, granted)
    BY DEF ProxyInvariant, TypeOK, AllSameManifest, AllRemember, RememberBlob, At
<1>1. PICK b \in call[c].unnoted :
         /\ allowedBlobs' = allowedBlobs \cup {b}
         /\ Becomes(c, [call[c] EXCEPT !.unnoted = @ \ {b}])
    BY DEF RememberBlob
<1> DEFINE k == [call[c] EXCEPT !.unnoted = @ \ {b}]
<1>2. /\ k \in Call /\ k.pc = "remember" /\ k.fetched = call[c].fetched
      /\ k.unnoted = call[c].unnoted \ {b} /\ k.moved = call[c].moved
      /\ k.decided = call[c].decided
    BY <1>0 DEF Call
<1>3. SameManifest(k, registry) BY <1>0, <1>2 DEF SameManifest
<1>4. UNCHANGED <<registry, admissible, seen, granted, shown>>
    BY DEF RememberBlob
<1>5. Remembers(k, allowedBlobs', granted')
    BY <1>0, <1>1, <1>2, <1>4 DEF Remembers
<1>6. /\ b \in Contents[call[c].fetched] /\ call[c].fetched \in granted
      /\ b \in Blobs
    BY <1>0, <1>1 DEF Remembers, Call
<1>7. BlobsBacked' BY <1>1, <1>4, <1>6 DEF ProxyInvariant, BlobsBacked
<1>8. /\ allowedBlobs' \subseteq Blobs /\ allowedBlobs \subseteq allowedBlobs'
      /\ granted \subseteq Digests /\ seen \subseteq Tags \X Digests
    BY <1>1, <1>6 DEF ProxyInvariant, TypeOK
<1>9. Becomes(c, k) BY <1>1
<1> HIDE DEF k
<1> QED BY <1>2, <1>3, <1>4, <1>5, <1>7, <1>8, <1>9, OneHandlerMoves

LEMMA ServeManifestKeeps ==
    ASSUME ProxyInvariant, NEW c \in Calls, ServeManifest(c)
    PROVE  ProxyInvariant'
<1> DEFINE k == [call[c] EXCEPT !.pc = "done", !.status = "200"]
<1>0. /\ call[c] \in Call /\ call[c].pc = "remember" /\ call[c].unnoted = {}
      /\ SameManifest(call[c], registry)
      /\ Remembers(call[c], allowedBlobs, granted)
    BY DEF ProxyInvariant, TypeOK, AllSameManifest, AllRemember, ServeManifest, At
<1>1. /\ k \in Call /\ k.pc = "done" /\ k.fetched = call[c].fetched
      /\ k.moved = call[c].moved /\ k.decided = call[c].decided
    BY <1>0 DEF Call, Statuses
<1>2. SameManifest(k, registry) /\ Remembers(k, allowedBlobs, granted)
    BY <1>0, <1>1 DEF SameManifest, Remembers
<1>3. /\ Becomes(c, k)
      /\ UNCHANGED <<registry, admissible, seen, allowedBlobs, granted>>
      /\ shown' \in {shown, shown \cup Contents[call[c].fetched]}
    BY DEF ServeManifest, Answer
<1>4. BlobsBacked'
    BY <1>0, <1>3 DEF ProxyInvariant, BlobsBacked, Remembers
<1>5. /\ allowedBlobs \subseteq Blobs /\ granted \subseteq Digests
      /\ seen \subseteq Tags \X Digests
    BY DEF ProxyInvariant, TypeOK
<1> HIDE DEF k
<1> QED BY <1>1, <1>2, <1>3, <1>4, <1>5, OneHandlerMoves

LEMMA CheckBlobKeeps ==
    ASSUME ProxyInvariant, NEW c \in Calls, CheckBlob(c)
    PROVE  ProxyInvariant'
<1>0. /\ call[c] \in Call /\ call[c].pc = "checkblob"
      /\ SameManifest(call[c], registry)
    BY DEF ProxyInvariant, TypeOK, AllSameManifest, CheckBlob, At
<1>1. CASE call[c].blob \in allowedBlobs
    <2> DEFINE k == [call[c] EXCEPT !.pc = "fetchblob"]
    <2>1. /\ k \in Call /\ k.pc = "fetchblob" /\ k.fetched = None
        BY <1>0 DEF Call, Running, SameManifest
    <2>2. SameManifest(k, registry) /\ Remembers(k, allowedBlobs, granted)
        BY <2>1 DEF SameManifest, Remembers
    <2>3. /\ Becomes(c, k)
          /\ UNCHANGED <<registry, admissible, seen, allowedBlobs, granted, shown>>
        BY <1>1 DEF CheckBlob
    <2> HIDE DEF k
    <2> QED BY <2>1, <2>2, <2>3, OnlyHandlerMoves
<1>2. CASE call[c].blob \notin allowedBlobs
    BY <1>2, AnswerKeeps DEF CheckBlob, Statuses
<1> QED BY <1>1, <1>2

-----------------------------------------------------------------------------
(* A restart loses the blobs, what was shown, and the handlers.             *)
LEMMA RestartKeeps ==
    ASSUME ProxyInvariant, Restart
    PROVE  ProxyInvariant'
<1>1. ASSUME NEW c \in Calls
      PROVE  /\ call[c] \in Call /\ call'[c] \in Call
             /\ call'[c].pc \in {"new", "done"}
             /\ call[c].pc = "new" => call'[c] = call[c]
             /\ call'[c].fetched = call[c].fetched
             /\ call'[c].moved = call[c].moved
             /\ call'[c].decided = call[c].decided
             /\ call'[c].pc = "new" => call[c].pc = "new"
  <2>1. call[c] \in Call
    BY DEF ProxyInvariant, TypeOK
  <2>2. CASE call[c].pc \in Running
    <3>1. call'[c] = [call[c] EXCEPT !.pc = "done", !.status = "gone"]
      BY <2>2 DEF Restart
    <3> QED BY <2>1, <2>2, <3>1 DEF Call, Running, Statuses
  <2>3. CASE call[c].pc \notin Running
    <3>1. call'[c] = call[c]
      BY <2>3 DEF Restart
    <3> QED BY <2>1, <2>3, <3>1 DEF Call
  <2> QED BY <2>2, <2>3
<1>2. call' \in [Calls -> Call] BY <1>1 DEF Restart
<1>3. TypeOK' BY <1>2 DEF ProxyInvariant, TypeOK, Restart
<1>4. AllSameManifest'
    BY <1>1 DEF ProxyInvariant, AllSameManifest, SameManifest, Restart
<1>5. AllRemember' BY <1>1 DEF AllRemember, Remembers
<1>6. BlobsBacked' BY DEF Restart, BlobsBacked
<1> QED BY <1>3, <1>4, <1>5, <1>6 DEF ProxyInvariant

LEMMA MoveTagKeeps ==
    ASSUME ProxyInvariant, NEW tag \in Tags, NEW digest \in Digests,
           MoveTag(tag, digest)
    PROVE  ProxyInvariant'
<1>1. ASSUME NEW c \in Calls
      PROVE  /\ call[c] \in Call /\ call'[c] \in Call
             /\ call'[c].pc = call[c].pc /\ call'[c].tag = call[c].tag
             /\ call'[c].pin = call[c].pin /\ call'[c].blob = call[c].blob
             /\ call'[c].decided = call[c].decided
             /\ call'[c].fetched = call[c].fetched
             /\ call'[c].unnoted = call[c].unnoted
             /\ call'[c].owed = call[c].owed
             /\ call'[c].status = call[c].status
             /\ call'[c].moved = (call[c].moved
                    \/ (call[c].tag = tag /\ call[c].pc = "fetch"))
    BY DEF ProxyInvariant, TypeOK, MoveTag, Call, At
<1>2. call' \in [Calls -> Call] BY <1>1 DEF MoveTag
<1>3. TypeOK' BY <1>2 DEF ProxyInvariant, TypeOK, MoveTag
<1>4. ASSUME NEW c \in Calls
      PROVE  SameManifest(call'[c], registry')
    <2>1. SameManifest(call[c], registry) BY DEF ProxyInvariant, AllSameManifest
    <2>2. call[c].tag # None /\ call[c].tag # tag =>
              registry'[call[c].tag] = registry[call[c].tag]
        BY <1>1 DEF ProxyInvariant, TypeOK, MoveTag, Call
    <2> QED BY <1>1, <2>1, <2>2 DEF SameManifest
<1>5. AllRemember'
    BY <1>1 DEF ProxyInvariant, AllRemember, Remembers, MoveTag
<1>6. BlobsBacked' BY DEF ProxyInvariant, BlobsBacked, MoveTag
<1> QED BY <1>3, <1>4, <1>5, <1>6 DEF ProxyInvariant, AllSameManifest

LEMMA OperatorKeeps ==
    ASSUME ProxyInvariant, NEW d, (Admit(d) /\ d \in Digests) \/ Withdraw(d)
    PROVE  ProxyInvariant'
BY DEF Admit, Withdraw, ProxyInvariant, TypeOK, AllSameManifest, AllRemember,
       BlobsBacked

LEMMA ProxyInductive == ProxyInvariant /\ [Next]_vars => ProxyInvariant'
<1> SUFFICES ASSUME ProxyInvariant, [Next]_vars
             PROVE  ProxyInvariant'
    OBVIOUS
<1>1. ASSUME NEW c \in Calls, Handle(c)
      PROVE  ProxyInvariant'
    <2>1. CASE Decide(c) BY <2>1, DecideKeeps
    <2>2. CASE DecideFails(c) BY <2>2, AnswerKeeps DEF DecideFails, Statuses
    <2>3. CASE FetchManifest(c) BY <2>3, FetchManifestKeeps
    <2>4. CASE FetchFails(c) BY <2>4, AnswerKeeps DEF FetchFails, Statuses
    <2>5. CASE RememberBlob(c) BY <2>5, RememberBlobKeeps
    <2>6. CASE ServeManifest(c) BY <2>6, ServeManifestKeeps
    <2>7. CASE CheckBlob(c) BY <2>7, CheckBlobKeeps
    <2>8. CASE ServeBlob(c) BY <2>8, AnswerKeeps DEF ServeBlob, Statuses
    <2> QED
        BY <1>1, <2>1, <2>2, <2>3, <2>4, <2>5, <2>6, <2>7, <2>8 DEF Handle
<1>2. CASE \E c \in Calls : Arrival(c) BY <1>2, ArrivalKeeps
<1>3. CASE Restart BY <1>3, RestartKeeps
<1>4. CASE \E t \in Tags, d \in Digests : MoveTag(t, d) BY <1>4, MoveTagKeeps
<1>5. CASE \/ \E d \in Digests : Admit(d)
           \/ \E d \in Withdrawable : Withdraw(d)
    BY <1>5, OperatorKeeps
<1>6. CASE UNCHANGED vars
    BY <1>6 DEF vars, ProxyInvariant, TypeOK, AllSameManifest, AllRemember,
                BlobsBacked
<1> QED BY <1>1, <1>2, <1>3, <1>4, <1>5, <1>6 DEF Next

LEMMA ProxyInvariantHolds == Spec => []ProxyInvariant
BY ProxyInitially, ProxyInductive, PTL DEF Spec

(* Every variable has the shape the code gives it.                          *)
THEOREM ProxyTypeCorrect == Spec => []TypeOK
BY ProxyInvariantHolds, PTL DEF ProxyInvariant

(* A manifest that was fetched is the one the engine was asked about,       *)
(* unless the tag moved in between.                                         *)
THEOREM ServesWhatWasDecided == Spec => []ServedAsDecided
<1>1. ProxyInvariant => ServedAsDecided
    BY DEF ProxyInvariant, AllSameManifest, SameManifest, ServedAsDecided
<1> QED BY <1>1, ProxyInvariantHolds, PTL

(* A handler of another request leaves this one alone, and only CheckBlob   *)
(* ends the check of a blob.                                                *)
LEMMA OthersWait ==
    ASSUME ProxyInvariant, NEW c \in Calls, call[c].pc = "checkblob",
           NEW b \in Calls, Arrival(b) \/ Handle(b), ~CheckBlob(c)
    PROVE  call'[c] = call[c]
<1>0. call \in [Calls -> Call] BY DEF ProxyInvariant, TypeOK
<1>1. CASE b = c
    <2>1. ~Arrival(c)
        BY DEF Arrival, ManifestRequest, BlobRequest, RefuseRequest, At
    <2>2. ~Decide(c) /\ ~DecideFails(c) /\ ~FetchManifest(c) /\ ~FetchFails(c)
        BY DEF Decide, DecideFails, FetchManifest, FetchFails, At
    <2>3. ~RememberBlob(c) /\ ~ServeManifest(c) /\ ~ServeBlob(c)
        BY DEF RememberBlob, ServeManifest, ServeBlob, At
    <2> QED BY <1>1, <2>1, <2>2, <2>3 DEF Handle
<1>2. CASE b # c
    <2>1. \A k : Becomes(b, k) => call'[c] = call[c]
        BY <1>0, <1>2 DEF Becomes
    <2>2. Arrival(b) => \E k : Becomes(b, k)
        BY DEF Arrival, ManifestRequest, BlobRequest, RefuseRequest, Answer
    <2>3. Decide(b) \/ DecideFails(b) \/ FetchManifest(b) \/ FetchFails(b)
              => \E k : Becomes(b, k)
        BY DEF Decide, DecideFails, FetchManifest, FetchFails, Answer
    <2>4. RememberBlob(b) \/ ServeManifest(b) \/ CheckBlob(b) \/ ServeBlob(b)
              => \E k : Becomes(b, k)
        BY DEF RememberBlob, ServeManifest, CheckBlob, ServeBlob, Answer
    <2> QED BY <2>1, <2>2, <2>3, <2>4 DEF Handle
<1> QED BY <1>1, <1>2

(* How a step may end the check of a blob.                                  *)
LEMMA CheckEnds ==
    ASSUME ProxyInvariant, [Next]_vars, NEW c \in Calls, At(c, "checkblob")
    PROVE  /\ call'[c].pc = "fetchblob" => call[c].blob \in allowedBlobs
           /\ call'[c].status = "403" => call[c].blob \notin allowedBlobs
<1>0. /\ call[c] \in Call /\ call[c].pc = "checkblob" /\ call[c].status = "none"
    BY DEF At, ProxyInvariant, TypeOK, AllRemember, Remembers
<1>1. CASE CheckBlob(c)
    <2>1. call \in [Calls -> Call] BY DEF ProxyInvariant, TypeOK
    <2>2. CASE call[c].blob \in allowedBlobs
        <3>1. call'[c] = [call[c] EXCEPT !.pc = "fetchblob"]
            BY <1>1, <2>1, <2>2 DEF CheckBlob, Becomes
        <3> QED BY <1>0, <2>2, <3>1 DEF Call
    <2>3. CASE call[c].blob \notin allowedBlobs
        <3>1. call'[c] = [call[c] EXCEPT !.pc = "done", !.status = "403"]
            BY <1>1, <2>1, <2>3 DEF CheckBlob, Answer, Becomes
        <3> QED BY <1>0, <2>3, <3>1 DEF Call
    <2> QED BY <2>2, <2>3
<1>2. CASE ~CheckBlob(c) /\ \E b \in Calls : Arrival(b) \/ Handle(b)
    BY <1>0, <1>2, OthersWait
<1>3. CASE Restart
    BY <1>0, <1>3 DEF Restart, Call, Running
<1>4. CASE \E t \in Tags, d \in Digests : MoveTag(t, d)
    BY <1>0, <1>4 DEF MoveTag, Call, At
<1>5. CASE \/ \E d \in Digests : Admit(d)
           \/ \E d \in Withdrawable : Withdraw(d)
    BY <1>0, <1>5 DEF Admit, Withdraw
<1>6. CASE UNCHANGED vars BY <1>0, <1>6 DEF vars
<1> QED BY <1>1, <1>2, <1>3, <1>4, <1>5, <1>6 DEF Next

(* A blob passes the check only on the strength of a manifest this process  *)
(* fetched after an allow, whatever the other handlers do meanwhile.        *)
THEOREM NoBlobWithoutManifest == Spec => BlobNeedsAllowedManifest
<1>1. ProxyInvariant /\ [Next]_vars =>
          [\A c \in Calls : At(c, "checkblob") /\ call'[c].pc = "fetchblob" =>
              \E d \in granted : call[c].blob \in Contents[d]]_vars
    BY CheckEnds DEF ProxyInvariant, BlobsBacked
<1> QED BY <1>1, ProxyInvariantHolds, PTL DEF Spec, BlobNeedsAllowedManifest

(* A blob of a manifest that was shown is not refused while the process     *)
(* lives.                                                                   *)
THEOREM NoShownBlobDenied == Spec => ShownBlobsNotDenied
<1>1. ProxyInvariant /\ [Next]_vars =>
          [\A c \in Calls : At(c, "checkblob") /\ call'[c].status = "403" =>
              ~call[c].owed]_vars
    BY CheckEnds DEF ProxyInvariant, AllRemember, Remembers, At
<1> QED BY <1>1, ProxyInvariantHolds, PTL DEF Spec, ShownBlobsNotDenied
=============================================================================
