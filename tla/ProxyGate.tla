------------------------------ MODULE ProxyGate ------------------------------
(***************************************************************************)
(* The registry proxy (internal/proxy/server.go): manifest requests go      *)
(* through the decision engine and are then fetched upstream, blob requests *)
(* are served when an allowed manifest named the blob.  The handlers run    *)
(* concurrently and share allowedBlobs, which lives in memory.              *)
(*                                                                         *)
(* The engine is seen from outside: it allows a tag for the digest the tag  *)
(* points to when that digest is admissible (aged, approved, not frozen, as *)
(* module Quarantine details), or at first sight where policy says so, and  *)
(* a reference pinned by digest as policy says.  One repository is          *)
(* modelled: the blob keys carry registry and repository.                   *)
(***************************************************************************)
EXTENDS FiniteSets

CONSTANTS
    Tags, Digests, Blobs,
    None,              \* no tag, no digest, no blob
    Contents,          \* Contents[d]: config and layers manifest d names
    Calls,             \* requests to the proxy
    AllowFirstSeen,    \* allow_first_seen_pull
    AllowPinned,       \* digest_pinned_images.action is allow
    Withdrawable       \* digests that may stop being admissible

ASSUME NoneAssumption == None \notin Tags \cup Digests \cup Blobs
ASSUME ContentsAssumption == Contents \in [Digests -> SUBSET Blobs]
ASSUME PolicyAssumption == {AllowFirstSeen, AllowPinned} \subseteq BOOLEAN

VARIABLES
    registry,       \* the digest each tag points to
    admissible,     \* digests the engine allows now
    seen,           \* <<tag, digest>> with an observation row
    allowedBlobs,   \* Server.allowedBlobs
    call,           \* the handlers' local variables
    granted,        \* history: manifests fetched after an allow, this process
    shown           \* history: blobs of manifests answered to a GET, this process

vars == <<registry, admissible, seen, allowedBlobs, call, granted, shown>>

Running == {"decide", "fetch", "remember", "checkblob", "fetchblob"}
Statuses == {"none", "200", "403", "404", "500", "502", "gone"}

Call ==
    [pc : {"new", "done"} \cup Running, get : BOOLEAN,
     tag : Tags \cup {None}, pin : Digests \cup {None},
     blob : Blobs \cup {None}, decided : Digests \cup {None},
     fetched : Digests \cup {None}, unnoted : SUBSET Blobs,
     status : Statuses,
     moved : BOOLEAN,      \* history: the tag moved since the decision
     owed : BOOLEAN]       \* history: the blob had been shown when the call came

NewCall ==
    [pc |-> "new", get |-> TRUE, tag |-> None, pin |-> None, blob |-> None,
     decided |-> None, fetched |-> None, unnoted |-> {}, status |-> "none",
     moved |-> FALSE, owed |-> FALSE]

Init ==
    /\ registry \in [Tags -> Digests]
    /\ admissible \in SUBSET Digests
    /\ seen = {} /\ allowedBlobs = {} /\ granted = {} /\ shown = {}
    /\ call = [c \in Calls |-> NewCall]

At(c, step) == call[c].pc = step
Becomes(c, k) == call' = [call EXCEPT ![c] = k]
Answer(c, status) ==
    Becomes(c, [call[c] EXCEPT !.pc = "done", !.status = status])

-----------------------------------------------------------------------------
(* handleV2: the path names a manifest by tag or by digest, or a blob; any  *)
(* other path or method is refused.                                         *)
ManifestRequest(c, get, tag, pin) ==
    /\ At(c, "new")
    /\ (tag = None) # (pin = None)
    /\ Becomes(c, [NewCall EXCEPT !.pc = "decide", !.get = get,
                                  !.tag = tag, !.pin = pin])
    /\ UNCHANGED <<registry, admissible, seen, allowedBlobs, granted, shown>>

BlobRequest(c, get, blob) ==
    /\ At(c, "new")
    /\ Becomes(c, [NewCall EXCEPT !.pc = "checkblob", !.get = get,
                                  !.blob = blob, !.owed = (blob \in shown)])
    /\ UNCHANGED <<registry, admissible, seen, allowedBlobs, granted, shown>>

RefuseRequest(c) ==
    /\ At(c, "new")
    /\ Answer(c, "404")
    /\ UNCHANGED <<registry, admissible, seen, allowedBlobs, granted, shown>>

-----------------------------------------------------------------------------
(* handleManifest: Engine.Decide of the reference ...                       *)
Verdict(tag, d) ==
    \/ d \in admissible
    \/ AllowFirstSeen /\ <<tag, d>> \notin seen

(* Faulty form of Decide: a pinned reference leaves an observation too.     *)
DecideAndObserve(c) ==
    /\ At(c, "decide")
    /\ LET k == call[c]
           d == IF k.tag = None THEN k.pin ELSE registry[k.tag]
           allowed == IF k.tag = None THEN AllowPinned ELSE Verdict(k.tag, d)
       IN  /\ seen' = seen \cup {<<k.tag, d>>}
           /\ Becomes(c, [k EXCEPT !.pc = IF allowed THEN "fetch" ELSE "done",
                                   !.decided = d,
                                   !.status = IF allowed THEN "none" ELSE "403"])
    /\ UNCHANGED <<registry, admissible, allowedBlobs, granted, shown>>

Decide(c) ==
    /\ At(c, "decide")
    /\ LET k == call[c]
           d == IF k.tag = None THEN k.pin ELSE registry[k.tag]
           allowed == IF k.tag = None THEN AllowPinned ELSE Verdict(k.tag, d)
       IN  /\ seen' = IF k.tag = None THEN seen ELSE seen \cup {<<k.tag, d>>}
           /\ IF allowed
              THEN Becomes(c, [k EXCEPT !.pc = "fetch", !.decided = d])
              ELSE Becomes(c, [k EXCEPT !.pc = "done", !.decided = d,
                                        !.status = "403"])
    /\ UNCHANGED <<registry, admissible, allowedBlobs, granted, shown>>

DecideFails(c) ==
    /\ At(c, "decide")
    /\ Answer(c, "500")
    /\ UNCHANGED <<registry, admissible, seen, allowedBlobs, granted, shown>>

(* Faulty form of FetchManifest: the manifest is served before its blobs    *)
(* are remembered.                                                          *)
FetchAndServe(c) ==
    /\ At(c, "fetch")
    /\ LET k == call[c]
           d == IF k.tag = None THEN k.pin ELSE registry[k.tag]
       IN  /\ Becomes(c, [k EXCEPT !.pc = "remember", !.fetched = d,
                                   !.unnoted = Contents[d], !.status = "200"])
           /\ granted' = granted \cup {d}
           /\ shown' = IF k.get THEN shown \cup Contents[d] ELSE shown
    /\ UNCHANGED <<registry, admissible, seen, allowedBlobs>>

(* Faulty form of FetchManifest: a digest is dropped from the reference,    *)
(* which then names the default tag.                                        *)
FetchByTag(c) ==
    /\ At(c, "fetch")
    /\ LET t == IF call[c].tag = None THEN CHOOSE x \in Tags : TRUE ELSE call[c].tag
       IN  /\ Becomes(c, [call[c] EXCEPT !.pc = "remember", !.fetched = registry[t],
                                         !.unnoted = Contents[registry[t]]])
           /\ granted' = granted \cup {registry[t]}
    /\ UNCHANGED <<registry, admissible, seen, allowedBlobs, shown>>

(* ... then the manifest the same reference names upstream now, by GET      *)
(* whatever the client's method ...                                         *)
FetchManifest(c) ==
    /\ At(c, "fetch")
    /\ LET k == call[c]
           d == IF k.tag = None THEN k.pin ELSE registry[k.tag]
       IN  /\ Becomes(c, [k EXCEPT !.pc = "remember", !.fetched = d,
                                   !.unnoted = Contents[d]])
           /\ granted' = granted \cup {d}
    /\ UNCHANGED <<registry, admissible, seen, allowedBlobs, shown>>

FetchFails(c) ==
    /\ call[c].pc \in {"fetch", "fetchblob"}
    /\ Answer(c, "502")
    /\ UNCHANGED <<registry, admissible, seen, allowedBlobs, granted, shown>>

(* ... whose blobs are remembered, the mutex taken for each ...             *)
RememberBlob(c) ==
    /\ At(c, "remember")
    /\ \E b \in call[c].unnoted :
          /\ allowedBlobs' = allowedBlobs \cup {b}
          /\ Becomes(c, [call[c] EXCEPT !.unnoted = @ \ {b}])
    /\ UNCHANGED <<registry, admissible, seen, granted, shown>>

(* ... before the client sees them.                                         *)
ServeManifest(c) ==
    /\ At(c, "remember") /\ call[c].unnoted = {}
    /\ Answer(c, "200")
    /\ shown' = IF call[c].get THEN shown \cup Contents[call[c].fetched] ELSE shown
    /\ UNCHANGED <<registry, admissible, seen, allowedBlobs, granted>>

-----------------------------------------------------------------------------
(* Faulty form of CheckBlob: any blob of the repository is served.          *)
CheckNothing(c) ==
    /\ At(c, "checkblob")
    /\ Becomes(c, [call[c] EXCEPT !.pc = "fetchblob"])
    /\ UNCHANGED <<registry, admissible, seen, allowedBlobs, granted, shown>>

(* handleBlob.                                                              *)
CheckBlob(c) ==
    /\ At(c, "checkblob")
    /\ IF call[c].blob \in allowedBlobs
       THEN Becomes(c, [call[c] EXCEPT !.pc = "fetchblob"])
       ELSE Answer(c, "403")
    /\ UNCHANGED <<registry, admissible, seen, allowedBlobs, granted, shown>>

ServeBlob(c) ==
    /\ At(c, "fetchblob")
    /\ Answer(c, "200")
    /\ UNCHANGED <<registry, admissible, seen, allowedBlobs, granted, shown>>

-----------------------------------------------------------------------------
(* The proxy process ends, with its handlers and its memory, and is started *)
(* again.                                                                   *)
Restart ==
    /\ allowedBlobs' = {} /\ granted' = {} /\ shown' = {}
    /\ call' = [c \in Calls |->
                  IF call[c].pc \in Running
                  THEN [call[c] EXCEPT !.pc = "done", !.status = "gone"]
                  ELSE call[c]]
    /\ UNCHANGED <<registry, admissible, seen>>

MoveTag(tag, digest) ==
    /\ registry[tag] # digest
    /\ registry' = [registry EXCEPT ![tag] = digest]
    /\ call' = [c \in Calls |->
                  IF call[c].tag = tag /\ At(c, "fetch")
                  THEN [call[c] EXCEPT !.moved = TRUE] ELSE call[c]]
    /\ UNCHANGED <<admissible, seen, allowedBlobs, granted, shown>>

(* A digest ages or is approved; it is frozen.                              *)
Admit(d) ==
    /\ admissible' = admissible \cup {d}
    /\ UNCHANGED <<registry, seen, allowedBlobs, call, granted, shown>>
Withdraw(d) ==
    /\ admissible' = admissible \ {d}
    /\ UNCHANGED <<registry, seen, allowedBlobs, call, granted, shown>>

-----------------------------------------------------------------------------
Arrival(c) ==
    \/ \E get \in BOOLEAN, tag \in Tags \cup {None}, pin \in Digests \cup {None} :
          ManifestRequest(c, get, tag, pin)
    \/ \E get \in BOOLEAN, b \in Blobs : BlobRequest(c, get, b)
    \/ RefuseRequest(c)

Handle(c) ==
    \/ Decide(c) \/ DecideFails(c)
    \/ FetchManifest(c) \/ FetchFails(c) \/ RememberBlob(c) \/ ServeManifest(c)
    \/ CheckBlob(c) \/ ServeBlob(c)

Next ==
    \/ \E c \in Calls : Arrival(c) \/ Handle(c)
    \/ Restart
    \/ \E t \in Tags, d \in Digests : MoveTag(t, d)
    \/ \E d \in Digests : Admit(d)
    \/ \E d \in Withdrawable : Withdraw(d)

Spec == Init /\ [][Next]_vars

-----------------------------------------------------------------------------
TypeOK ==
    /\ registry \in [Tags -> Digests]
    /\ admissible \subseteq Digests
    /\ seen \subseteq Tags \X Digests
    /\ allowedBlobs \subseteq Blobs
    /\ call \in [Calls -> Call]
    /\ granted \subseteq Digests
    /\ shown \subseteq Blobs

(* No blob passes the check of handleBlob unless this very process fetched  *)
(* a manifest that names it after the engine had allowed the request: not   *)
(* one it saw before a restart, nor one whose decision is still running.    *)
BlobNeedsAllowedManifest ==
    [][\A c \in Calls : At(c, "checkblob") /\ call'[c].pc = "fetchblob" =>
          \E d \in granted : call[c].blob \in Contents[d]]_vars

(* A client that was shown a manifest gets its blobs: a blob request that   *)
(* comes after the manifest was answered is not denied while the process    *)
(* lives, because the blobs are remembered before the answer is written.    *)
ShownBlobsNotDenied ==
    [][\A c \in Calls : At(c, "checkblob") /\ call'[c].status = "403" =>
          ~call[c].owed]_vars

(* The manifest served is the one that was decided, unless the tag moved    *)
(* upstream between the decision and the fetch.                             *)
ServedAsDecided ==
    \A c \in Calls :
        call[c].fetched # None /\ ~call[c].moved => call[c].fetched = call[c].decided
=============================================================================
