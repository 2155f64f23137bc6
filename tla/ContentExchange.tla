--------------------------- MODULE ContentExchange ---------------------------
(***************************************************************************)
(* Fetching content from other nodes: the content exchange                 *)
(* (pkg/p2p/bitswap*.go) with its limit on remote fetches, its shared      *)
(* in-memory fetches and its back-off, and the two users of its temp-file  *)
(* fetches: the media prefetcher of the message processor                  *)
(* (pkg/p2p/handlers.go) and the media requests of the API                 *)
(* (pkg/api/handlers/media.go).                                            *)
(*                                                                         *)
(* A thread is a goroutine.  Sections under fetchStateMu or prefetchMu, a  *)
(* channel operation and a file replaced by rename are one step each.  Pin *)
(* state is NodeContent's: here a row of content_access is only a          *)
(* statement that may fail, and the storage manager may delete any file.   *)
(* Removing a temp file does not fail.                                     *)
(***************************************************************************)
EXTENDS Naturals, FiniteSets

CONSTANTS
    Media,          \* media objects, by the CID of their file
    Cid,            \* the CIDs of those files and of their thumbnails
    NoCid,
    Announced,      \* pairs of a media object and its thumbnail, or NoCid
    Thread,         \* goroutines
    NoThread,
    FetchLimit,     \* contentFetchConcurrency
    PrefetchLimit,  \* mediaPrefetchConcurrency
    MaxProviders,   \* maxProviders
    MaxCalls,       \* bound: requests and announced media objects
    MaxFaults       \* bound: failing operations and files deleted under a reader

ASSUME ExchangeAssumption ==
    /\ Media \subseteq Cid /\ NoCid \notin Cid
    /\ Announced \subseteq Media \X (Cid \cup {NoCid})
    /\ IsFiniteSet(Thread) /\ NoThread \notin Thread
    /\ FetchLimit \in Nat \ {0} /\ PrefetchLimit \in Nat \ {0}
    /\ MaxProviders \in Nat /\ MaxCalls \in Nat /\ MaxFaults \in Nat

VARIABLES
    cas,            \* CIDs with a file in the content store
    rows,           \* media objects in media_objects
    thumbs,         \* their thumbnail_cid, NoCid also without a row
    fetched,        \* those with fully_fetched = 1
    thread,         \* what each goroutine is doing
    temps,          \* temp files of fetches, by the goroutine that made them
    permits,        \* tokens in fetchSemaphore
    slots,          \* tokens in prefetchSlots
    prefetching,    \* MessageProcessor.prefetching
    inFlight,       \* fetchInFlight: the goroutine that fetches a CID for all
    backoff,        \* fetchFailures whose time has not come
    evicted,        \* ghost: files the storage manager has deleted
    restated,       \* ghost: rows that have been given another thumbnail
    calls, faults

limits == <<permits, slots, prefetching>>
media == <<cas, rows, thumbs, fetched, restated>>
bounds == <<calls, faults>>
vars == <<cas, rows, thumbs, fetched, thread, temps, permits, slots, prefetching,
          inFlight, backoff, evicted, restated, calls, faults>>

\* "get" serves a media request, "prefetch" is the prefetcher of one media
\* object, "shared" a FetchContent call.
Kinds == {"none", "get", "prefetch", "shared"}

Steps == {"idle", "open", "slot", "has", "local", "join", "wait", "backoff", "acquire", "remote", "release", "record",
          "store", "cache", "reopen", "opentemp", "serve", "track", "mark",
          "unslot", "unlist"}

\* cid is being opened or fetched, next comes after it; ok is the outcome of
\* the fetch, temp whether a temp file is held and call the goroutine whose
\* shared fetch is waited for.
Idle == [kind |-> "none", at |-> "idle", cid |-> NoCid, next |-> NoCid,
         media |-> NoCid, ok |-> FALSE, temp |-> FALSE, call |-> NoThread]

ThreadState ==
    [kind : Kinds, at : Steps, cid : Cid \cup {NoCid}, next : Cid \cup {NoCid},
     media : Media \cup {NoCid}, ok : BOOLEAN, temp : BOOLEAN,
     call : Thread \cup {NoThread}]

At(t, step) == thread[t].at = step

Goto(t, step) == thread' = [thread EXCEPT ![t].at = step]

Kind(t, kind) == thread[t].kind = kind

Return(t) == thread' = [thread EXCEPT ![t] = Idle]

Launch(t, kind, step, c, next, m) ==
    /\ At(t, "idle")
    /\ thread' = [thread EXCEPT ![t] =
                     [Idle EXCEPT !.kind = kind, !.at = step, !.cid = c,
                                  !.next = next, !.media = m]]

Counted ==
    /\ calls < MaxCalls
    /\ calls' = calls + 1

-----------------------------------------------------------------------------
(* The calls.                                                              *)

\* GetMedia, and GetMediaStatus of media without a row: open the file.
GetMedia(t, c) ==
    /\ Counted
    /\ Launch(t, "get", "open", c, NoCid, NoCid)
    /\ UNCHANGED <<media, temps, limits, inFlight, backoff, evicted, faults>>

\* GetMediaThumbnail: open the thumbnail the row names, and else the file.
GetMediaThumbnail(t, m) ==
    /\ Counted
    /\ m \in rows /\ thumbs[m] # NoCid
    /\ Launch(t, "get", "open", thumbs[m], m, NoCid)
    /\ UNCHANGED <<media, temps, limits, inFlight, backoff, evicted, faults>>

\* FetchContent, which the exchange offers for content wanted in memory; the
\* prefetcher and the API use the temp-file variant.
FetchContent(t, c) ==
    /\ Counted
    /\ Launch(t, "shared", "local", c, NoCid, NoCid)
    /\ UNCHANGED <<media, temps, limits, inFlight, backoff, evicted, faults>>

\* handleMediaObject: the row, which a later announcement of the file replaces
\* except for fully_fetched, and a prefetcher if the author is to be pinned
\* (pin) and none is at work on this media object.
HandleMediaObject(t, m, thumb, pin) ==
    /\ Counted
    /\ rows' = rows \cup {m}
    /\ thumbs' = [thumbs EXCEPT ![m] = thumb]
    /\ restated' = IF m \in rows /\ thumbs[m] # thumb THEN restated \cup {m} ELSE restated
    /\ IF pin /\ m \notin prefetching
       THEN /\ prefetching' = prefetching \cup {m}
            /\ Launch(t, "prefetch", "slot", m, thumb, m)
       ELSE UNCHANGED <<prefetching, thread>>
    /\ UNCHANGED <<cas, fetched, temps, permits, slots, inFlight, backoff, evicted,
                   faults>>

-----------------------------------------------------------------------------
(* A remote fetch.                                                         *)

\* What comes of asking a provider: no content (no stream, a length of zero or
\* beyond maxContentSize), a part of it or other content, or the right one.
Answers == {"none", "corrupt", "valid"}

\* An answer is kept if all of it arrives and it hashes to the CID.
Acceptable(answer) == answer = "valid"

\* openContent failed: GetMediaThumbnail goes on with the file itself.
NextSource(s) ==
    IF s.next = NoCid THEN Idle
    ELSE [s EXCEPT !.cid = s.next, !.next = NoCid, !.ok = FALSE, !.at = "open"]

\* Mutant: a failed fetch does not end the prefetch.
PrefetchAnyway(s) ==
    IF s.ok THEN [s EXCEPT !.at = IF s.kind = "get" THEN "cache" ELSE "store"]
    ELSE IF s.kind = "get" THEN NextSource(s) ELSE [s EXCEPT !.at = "track"]

\* How openContent and prefetchMediaContent go on after the fetch.
Fetched(s) ==
    IF s.ok THEN [s EXCEPT !.at = IF s.kind = "get" THEN "cache" ELSE "store"]
    ELSE IF s.kind = "get" THEN NextSource(s) ELSE [s EXCEPT !.at = "unslot"]

\* FetchContentToTempFile refuses a CID that is backed off; nothing is recorded.
CheckBackoff(t) ==
    /\ At(t, "backoff")
    /\ thread' = [thread EXCEPT ![t] =
                     IF thread[t].cid \in backoff
                     THEN Fetched([@ EXCEPT !.ok = FALSE])
                     ELSE [@ EXCEPT !.at = "acquire"]]
    /\ UNCHANGED <<media, temps, limits, inFlight, backoff, evicted, bounds>>

\* FetchContent looks into the local store first.
TryLocal(t) ==
    /\ At(t, "local")
    /\ IF thread[t].cid \in cas THEN Return(t) ELSE Goto(t, "join")
    /\ UNCHANGED <<media, temps, limits, inFlight, backoff, evicted, bounds>>

\* Mutant: the call in flight is not looked up.
LeadAlways(t) ==
    LET c == thread[t].cid IN
    /\ At(t, "join")
    /\ \/ c \in backoff /\ Return(t) /\ UNCHANGED inFlight
       \/ /\ c \notin backoff
          /\ inFlight' = [inFlight EXCEPT ![c] = t]
          /\ Goto(t, "acquire")
    /\ UNCHANGED <<media, temps, limits, backoff, evicted, bounds>>

\* fetchShared under fetchStateMu: refuse, wait for the call in flight, or
\* become that call.
JoinFetch(t) ==
    LET c == thread[t].cid IN
    /\ At(t, "join")
    /\ \/ c \in backoff /\ Return(t) /\ UNCHANGED inFlight
       \/ /\ c \notin backoff /\ inFlight[c] # NoThread
          /\ thread' = [thread EXCEPT ![t] =
                           [@ EXCEPT !.call = inFlight[c], !.at = "wait"]]
          /\ UNCHANGED inFlight
       \/ /\ c \notin backoff /\ inFlight[c] = NoThread
          /\ inFlight' = [inFlight EXCEPT ![c] = t]
          /\ Goto(t, "acquire")
    /\ UNCHANGED <<media, temps, limits, backoff, evicted, bounds>>

\* A token of fetchSemaphore, which runRemoteFetch holds until it returns.
AcquirePermit(t) ==
    /\ At(t, "acquire")
    /\ permits < FetchLimit
    /\ permits' = permits + 1
    /\ Goto(t, "remote")
    /\ UNCHANGED <<media, temps, slots, prefetching, inFlight, backoff, evicted, bounds>>

\* FindProviders, then one provider after the other until one has sent an
\* acceptable answer, in memory or in a temp file; a failed attempt removes
\* its temp file.
FetchRemote(t) ==
    /\ At(t, "remote")
    /\ \E n \in 0..MaxProviders : \E answer \in [1..n -> Answers] :
         LET ok == \E k \in 1..n : Acceptable(answer[k])
             file == ok /\ ~Kind(t, "shared")
         IN /\ thread' = [thread EXCEPT ![t] =
                             [@ EXCEPT !.ok = ok, !.temp = file, !.at = "release"]]
            /\ temps' = IF file THEN temps \cup {t} ELSE temps
    /\ UNCHANGED <<media, limits, inFlight, backoff, evicted, bounds>>

\* Mutant: a failed fetch keeps its token.
ReleaseOnSuccess(t) ==
    /\ At(t, "release")
    /\ permits > 0
    /\ permits' = IF thread[t].ok THEN permits - 1 ELSE permits
    /\ Goto(t, "record")
    /\ UNCHANGED <<media, temps, slots, prefetching, inFlight, backoff, evicted, bounds>>

\* Taking a token out of a channel waits for one to be there.
ReleasePermit(t) ==
    /\ At(t, "release")
    /\ permits > 0
    /\ permits' = permits - 1
    /\ Goto(t, "record")
    /\ UNCHANGED <<media, temps, slots, prefetching, inFlight, backoff, evicted, bounds>>

Recorded(t) == IF thread[t].ok THEN backoff \ {thread[t].cid}
               ELSE backoff \cup {thread[t].cid}

\* FetchContentToTempFile records its outcome and returns.
RecordResult(t) ==
    /\ At(t, "record") /\ ~Kind(t, "shared")
    /\ backoff' = Recorded(t)
    /\ thread' = [thread EXCEPT ![t] = Fetched(@)]
    /\ UNCHANGED <<media, temps, limits, inFlight, evicted, bounds>>

\* Mutant: waiters are woken only with data.
WakeOnSuccess(t) ==
    /\ At(t, "record") /\ Kind(t, "shared")
    /\ backoff' = Recorded(t)
    /\ inFlight' = [inFlight EXCEPT ![thread[t].cid] = NoThread]
    /\ thread' = [u \in Thread |->
                     IF u = t \/ (At(u, "wait") /\ thread[u].call = t /\ thread[t].ok)
                     THEN Idle ELSE thread[u]]
    /\ UNCHANGED <<media, temps, limits, evicted, bounds>>

\* The end of fetchShared under fetchStateMu: the call leaves the map, the
\* outcome is recorded and everybody waiting returns it.
FinishShared(t) ==
    /\ At(t, "record") /\ Kind(t, "shared")
    /\ backoff' = Recorded(t)
    /\ inFlight' = [inFlight EXCEPT ![thread[t].cid] = NoThread]
    /\ thread' = [u \in Thread |->
                     IF u = t \/ (At(u, "wait") /\ thread[u].call = t) THEN Idle
                     ELSE thread[u]]
    /\ UNCHANGED <<media, temps, limits, evicted, bounds>>

\* The caller's context ends while it waits for a token or for an answer: a
\* browser disconnects, or a prefetch has taken too long.
ContextDone(t) ==
    /\ \/ /\ At(t, "acquire")
          /\ thread' = [thread EXCEPT ![t] = [@ EXCEPT !.ok = FALSE, !.at = "record"]]
       \/ At(t, "wait") /\ Return(t)
    /\ UNCHANGED <<media, temps, limits, inFlight, backoff, evicted, bounds>>

-----------------------------------------------------------------------------
(* openContent of a media request.                                         *)

\* openStoredContent, else a remote fetch.
OpenStored(t) ==
    /\ At(t, "open")
    /\ Goto(t, IF thread[t].cid \in cas THEN "serve" ELSE "backoff")
    /\ UNCHANGED <<media, temps, limits, inFlight, backoff, evicted, bounds>>

\* cacheFetchedContent: PutReader from the temp file.
CacheFetched(t) ==
    /\ At(t, "cache")
    /\ cas' = cas \cup {thread[t].cid}
    /\ Goto(t, "reopen")
    /\ UNCHANGED <<rows, thumbs, fetched, restated, temps, limits, inFlight, backoff,
                   evicted, bounds>>

\* Mutant: the stored file is opened and the temp file stays.
ReopenAndKeep(t) ==
    /\ At(t, "reopen")
    /\ IF thread[t].cid \in cas
       THEN thread' = [thread EXCEPT ![t] = [@ EXCEPT !.temp = FALSE, !.at = "serve"]]
       ELSE Goto(t, "opentemp")
    /\ UNCHANGED <<media, temps, limits, inFlight, backoff, evicted, bounds>>

\* The stored file is opened and the temp file removed; if the file has been
\* evicted in the meantime, the temp file is served.
Reopen(t) ==
    /\ At(t, "reopen")
    /\ IF thread[t].cid \in cas
       THEN /\ thread' = [thread EXCEPT ![t] = [@ EXCEPT !.temp = FALSE, !.at = "serve"]]
            /\ temps' = temps \ {t}
       ELSE Goto(t, "opentemp") /\ UNCHANGED temps
    /\ UNCHANGED <<media, limits, inFlight, backoff, evicted, bounds>>

\* The response is written from the stored file, or from the temp file once it
\* is opened, and the source closed, which removes a temp file.
Serve(t) ==
    /\ At(t, "serve") \/ At(t, "opentemp")
    /\ Return(t)
    /\ temps' = temps \ {t}
    /\ UNCHANGED <<media, limits, inFlight, backoff, evicted, bounds>>

\* A file operation of openContent fails.  A failing PutReader may have put
\* the file in place; a temp file that cannot be opened is removed.
GetFails(t) ==
    /\ faults < MaxFaults
    /\ faults' = faults + 1
    /\ \/ At(t, "open") /\ Goto(t, "backoff") /\ UNCHANGED <<cas, temps>>
       \/ /\ At(t, "cache")
          /\ cas' \in {cas, cas \cup {thread[t].cid}}
          /\ Goto(t, "opentemp")
          /\ UNCHANGED temps
       \/ At(t, "reopen") /\ Goto(t, "opentemp") /\ UNCHANGED <<cas, temps>>
       \/ /\ At(t, "opentemp")
          /\ thread' = [thread EXCEPT ![t] = NextSource([@ EXCEPT !.temp = FALSE])]
          /\ temps' = temps \ {t}
          /\ UNCHANGED cas
    /\ UNCHANGED <<rows, thumbs, fetched, restated, limits, inFlight, backoff,
                   evicted, calls>>

-----------------------------------------------------------------------------
(* The prefetcher of a media object.                                       *)

\* A token of prefetchSlots, waited for without a time limit.
AcquireSlot(t) ==
    /\ At(t, "slot")
    /\ slots < PrefetchLimit
    /\ slots' = slots + 1
    /\ Goto(t, "has")
    /\ UNCHANGED <<media, temps, permits, prefetching, inFlight, backoff, evicted, bounds>>

HasFile(t) ==
    /\ At(t, "has")
    /\ Goto(t, IF thread[t].cid \in cas THEN "track" ELSE "backoff")
    /\ UNCHANGED <<media, temps, limits, inFlight, backoff, evicted, bounds>>

\* storeFetchedMediaFile: PutReader, and the temp file is removed.
StoreFetchedMediaFile(t) ==
    /\ At(t, "store")
    /\ cas' = cas \cup {thread[t].cid}
    /\ temps' = temps \ {t}
    /\ thread' = [thread EXCEPT ![t] = [@ EXCEPT !.temp = FALSE, !.at = "track"]]
    /\ UNCHANGED <<rows, thumbs, fetched, restated, limits, inFlight, backoff,
                   evicted, bounds>>

\* TrackContentForMedia, then the thumbnail or the end of the list.
TrackMedia(t) ==
    /\ At(t, "track")
    /\ thread' = [thread EXCEPT ![t] =
                     IF thread[t].next = NoCid THEN [@ EXCEPT !.at = "mark"]
                     ELSE [@ EXCEPT !.cid = thread[t].next, !.next = NoCid,
                                    !.at = "has"]]
    /\ UNCHANGED <<media, temps, limits, inFlight, backoff, evicted, bounds>>

SetMediaFetched(t) ==
    /\ At(t, "mark")
    /\ fetched' = fetched \cup ({thread[t].media} \cap rows)
    /\ Goto(t, "unslot")
    /\ UNCHANGED <<cas, rows, thumbs, restated, temps, limits, inFlight, backoff,
                   evicted, bounds>>

\* The deferred calls: the slot first, then the entry in prefetching.
ReleaseSlot(t) ==
    /\ At(t, "unslot")
    /\ slots > 0
    /\ slots' = slots - 1
    /\ Goto(t, "unlist")
    /\ UNCHANGED <<media, temps, permits, prefetching, inFlight, backoff, evicted, bounds>>

EndPrefetch(t) ==
    /\ At(t, "unlist")
    /\ prefetching' = prefetching \ {thread[t].media}
    /\ Return(t)
    /\ UNCHANGED <<media, temps, permits, slots, inFlight, backoff, evicted, bounds>>

\* An operation of the prefetcher fails: a failing Has counts as absent, any
\* other failure ends the prefetch, and the temp file is removed.
PrefetchFails(t) ==
    /\ faults < MaxFaults
    /\ faults' = faults + 1
    /\ \/ At(t, "has") /\ Goto(t, "backoff") /\ UNCHANGED <<cas, temps>>
       \/ /\ At(t, "store")
          /\ cas' \in {cas, cas \cup {thread[t].cid}}
          /\ temps' = temps \ {t}
          /\ thread' = [thread EXCEPT ![t] = [@ EXCEPT !.temp = FALSE, !.at = "unslot"]]
       \/ /\ At(t, "track") \/ At(t, "mark")
          /\ Goto(t, "unslot")
          /\ UNCHANGED <<cas, temps>>
    /\ UNCHANGED <<rows, thumbs, fetched, restated, limits, inFlight, backoff,
                   evicted, calls>>

-----------------------------------------------------------------------------
(* The environment.                                                        *)

\* contentFetchFailureBackoff has passed.
BackoffEnds(c) ==
    /\ c \in backoff
    /\ backoff' = backoff \ {c}
    /\ UNCHANGED <<media, thread, temps, limits, inFlight, evicted, bounds>>

\* The storage manager deletes a file.
Evict(c) ==
    /\ faults < MaxFaults
    /\ c \in cas
    /\ cas' = cas \ {c}
    /\ evicted' = evicted \cup {c}
    /\ faults' = faults + 1
    /\ UNCHANGED <<rows, thumbs, fetched, restated, thread, temps, limits, inFlight, backoff,
                   calls>>

Init ==
    /\ cas = {} /\ rows = {} /\ fetched = {} /\ temps = {}
    /\ thumbs = [m \in Media |-> NoCid] /\ evicted = {} /\ restated = {}
    /\ thread = [t \in Thread |-> Idle]
    /\ permits = 0 /\ slots = 0 /\ prefetching = {}
    /\ inFlight = [c \in Cid |-> NoThread] /\ backoff = {}
    /\ calls = 0 /\ faults = 0

Call(t) ==
    \/ \E c \in Cid : GetMedia(t, c) \/ FetchContent(t, c)
    \/ \E m \in Media : GetMediaThumbnail(t, m)
    \/ \E a \in Announced, pin \in BOOLEAN : HandleMediaObject(t, a[1], a[2], pin)

Step(t) ==
    \/ CheckBackoff(t) \/ TryLocal(t) \/ JoinFetch(t) \/ AcquirePermit(t)
    \/ FetchRemote(t) \/ ReleasePermit(t) \/ RecordResult(t)
    \/ FinishShared(t)
    \/ OpenStored(t) \/ CacheFetched(t) \/ Reopen(t)
    \/ Serve(t)
    \/ AcquireSlot(t) \/ HasFile(t) \/ StoreFetchedMediaFile(t) \/ TrackMedia(t)
    \/ SetMediaFetched(t) \/ ReleaseSlot(t) \/ EndPrefetch(t)

Next ==
    \/ \E t \in Thread : Call(t) \/ Step(t) \/ ContextDone(t) \/ GetFails(t)
                         \/ PrefetchFails(t)
    \/ \E c \in Cid : BackoffEnds(c) \/ Evict(c)

\* Goroutines are scheduled fairly, and a remote attempt ends: the lookup, the
\* stream and the whole fetch have deadlines.  Nobody's context needs to end.
Fairness == \A t \in Thread : WF_vars(Step(t))

Spec == Init /\ [][Next]_vars /\ Fairness

-----------------------------------------------------------------------------

Fetching == {"remote", "release"}
Leading == {"acquire", "remote", "release", "record"}

\* Every variable has its type; a busy goroutine has a CID, a prefetcher a
\* media object.
ExchangeTypeOK ==
    /\ cas \subseteq Cid /\ rows \subseteq Media /\ fetched \subseteq Media
    /\ thumbs \in [Media -> Cid \cup {NoCid}] /\ restated \subseteq Media
    /\ thread \in [Thread -> ThreadState]
    /\ \A t \in Thread :
         /\ ~At(t, "idle") => thread[t].cid \in Cid
         /\ Kind(t, "prefetch") => thread[t].media \in Media
    /\ temps \subseteq Thread
    /\ permits \in Nat /\ slots \in Nat
    /\ prefetching \subseteq Media
    /\ inFlight \in [Cid -> Thread \cup {NoThread}]
    /\ backoff \subseteq Cid /\ evicted \subseteq Cid
    /\ calls \in Nat /\ faults \in Nat

\* No temp file outlives the request or prefetch it was fetched for: whatever
\* fails, is cancelled or is evicted on the way, each one has exactly one
\* goroutine that still holds it and will remove it.
TempFilesOwned == temps = {t \in Thread : thread[t].temp}

\* The limits hold and no token is lost: there are as many tokens in the two
\* channels as goroutines between taking and giving back, on every error path,
\* and a media object has one prefetcher at most while it is listed.
Slotted == {t \in Thread : Kind(t, "prefetch") /\ thread[t].at \notin {"slot", "unlist"}}
Prefetchers == {t \in Thread : Kind(t, "prefetch")}

LimitsKept ==
    /\ permits = Cardinality({t \in Thread : thread[t].at \in Fetching})
    /\ permits <= FetchLimit
    /\ slots = Cardinality(Slotted)
    /\ slots <= PrefetchLimit
    /\ prefetching = {thread[t].media : t \in Prefetchers}
    /\ \A t, u \in Prefetchers : thread[t].media = thread[u].media => t = u

\* Concurrent FetchContent calls of one CID cause one remote fetch, and nobody
\* waits for a call that is not in flight any more.
OneSharedFetch ==
    /\ \A t \in Thread : Kind(t, "shared") /\ thread[t].at \in Leading
                         => inFlight[thread[t].cid] = t
    /\ \A c \in Cid : inFlight[c] # NoThread =>
          /\ Kind(inFlight[c], "shared") /\ thread[inFlight[c]].at \in Leading
          /\ thread[inFlight[c]].cid = c
    /\ \A t \in Thread : At(t, "wait") => inFlight[thread[t].cid] = thread[t].call
                                          /\ thread[t].call # NoThread

\* A media object marked as fully fetched has been stored with its thumbnail:
\* whatever of it is missing was evicted afterwards, unless a later announcement
\* has given the row another thumbnail.
FetchedMediaStored ==
    \A m \in fetched :
       /\ m \in cas \cup evicted
       /\ m \in restated \/ {thumbs[m]} \subseteq cas \cup evicted \cup {NoCid}

\* Every request, prefetch and shared fetch comes to an end, also when its
\* caller never gives up: nobody waits for ever for a token or for an answer.
CallsEnd == \A t \in Thread : ~At(t, "idle") ~> At(t, "idle")
=============================================================================
