----------------------------- MODULE NodeConfig -----------------------------
(***************************************************************************)
(* The running configuration and what hangs on it: PUT /api/node/config    *)
(* (pkg/api/handlers/node.go) and the storage contribution of the          *)
(* onboarding page (pkg/web/onboarding.go), which copy, save and assign    *)
(* one shared Config without a lock; the storage limit of the replicator;  *)
(* and the indexer client (pkg/indexer/client.go) with its list of         *)
(* indexers, which discovery adds to, and its cache of answers.  The       *)
(* assignment of the struct is not atomic: a copy that is made meanwhile   *)
(* has new and old fields.  The switches of the API section lie in one     *)
(* word and are read and written together.                                 *)
(***************************************************************************)
EXTENDS Naturals, FiniteSets

CONSTANTS
    Editor,         \* requests that change the configuration
    Searcher,       \* requests that query indexers
    Indexer,        \* base URLs
    Query,          \* searches, and trending lists
    Trending,       \* the queries of trending lists
    Storage,        \* values of storage_limit_gb
    MinStorage,     \* MinRequiredStorageGBForMode
    Initial,        \* what config.toml may hold at the first start
    Loopback,       \* api.listen_address is a loopback address
    TokenConfigured,
    CacheTTL, MaxCacheEntries,
    MaxUpdates,     \* bound: changes of the configuration
    MaxQueries,     \* bound: queries
    MaxFailures,    \* bound: failing saves, and restarts
    MaxTicks        \* bound: clock ticks

ASSUME ConfigAssumption ==
    /\ Storage \subseteq Nat /\ MinStorage \in Nat
    /\ Loopback \in BOOLEAN /\ TokenConfigured \in BOOLEAN
    /\ Trending \subseteq Query
    /\ Initial \subseteq [storage : Storage, web : [ui : BOOLEAN, remote : BOOLEAN],
                           indexers : SUBSET Indexer]
    /\ CacheTTL \in Nat \ {0} /\ MaxCacheEntries \in Nat \ {0}
    /\ {MaxUpdates, MaxQueries, MaxFailures, MaxTicks} \subseteq Nat

VARIABLES
    file,       \* config.toml
    cfg,        \* the shared Config
    limit,      \* Replicator's storage limit
    known,      \* IndexerClient.knownIndexers
    edit,       \* the change each request is making
    cache,      \* IndexerClient.cache
    search,     \* the query each searcher is making
    clock,
    reached,    \* history: when an indexer was last known or in a running query
    serial,     \* history: no two changes overlapped, no directory sync failed
    updates, queries, failures

node == <<file, cfg, limit, edit, serial, updates, failures>>
client == <<cache, search, reached, queries>>
configVars == <<node, client, known, clock>>

WebUI == [ui : BOOLEAN, remote : BOOLEAN]
Config == [storage : Storage, web : WebUI, indexers : SUBSET Indexer]

NoChange == [at |-> "idle", next |-> [storage |-> 0], refresh |-> FALSE]
NoEntry == [until |-> 0, sources |-> {}]
NoSearch == [at |-> "idle", query |-> "none", left |-> 0, snapshot |-> {}, sources |-> {}]

\* validateWebUIExposure of the start-up
StartsWith(c) ==
    ~c.web.ui \/ Loopback \/ (TokenConfigured /\ c.web.remote)

\* validateWebUIConfig
ValidWebUI(c) == ~c.web.ui \/ Loopback \/ (TokenConfigured /\ c.web.remote)

\* ValidateStorageLimit
ValidStorage(c) == c.storage >= MinStorage

-----------------------------------------------------------------------------
\* Changes of the configuration.

\* next is saved, then assigned, then passed on.
Begin(r, next, refresh) ==
    /\ edit[r] = NoChange
    /\ updates < MaxUpdates
    /\ updates' = updates + 1
    /\ edit' = [edit EXCEPT ![r] = [at |-> "save", next |-> next, refresh |-> refresh]]
    /\ serial' = (serial /\ \A q \in Editor : edit[q] = NoChange)
    /\ UNCHANGED <<file, cfg, limit, known, client, clock, failures>>

\* Mutant of Accepted: the web UI is not checked.
AcceptedUnchecked(c) == ValidStorage(c)

Accepted(c) == ValidWebUI(c) /\ ValidStorage(c)

\* normalizeIndexerURLs: a list without blanks and duplicates.
normalizeIndexerURLs == SUBSET Indexer

\* A copy of the configuration with one of its fields given, the indexers or
\* another; those left out are single words that nothing here depends on.
Edited(refresh) ==
    IF refresh THEN {[cfg EXCEPT !.indexers = l] : l \in normalizeIndexerURLs}
    ELSE {[cfg EXCEPT !.storage = s] : s \in Storage} \cup {[cfg EXCEPT !.web = w] : w \in WebUI}

\* PUT /api/node/config
UpdateNodeConfig(r) ==
    \E refresh \in BOOLEAN : \E next \in Edited(refresh) :
        /\ Accepted(next)
        /\ Begin(r, next, refresh)

\* The onboarding page checks the storage contribution only.
saveOnboardingStorageContribution(r) ==
    \E s \in Storage :
        LET next == [cfg EXCEPT !.storage = s] IN
        /\ ValidStorage(next)
        /\ Begin(r, next, FALSE)

EditStep(r, from, to) ==
    /\ edit[r].at = from
    /\ edit' = [edit EXCEPT ![r] = IF to = "idle" THEN NoChange ELSE [@ EXCEPT !.at = to]]
    /\ UNCHANGED <<updates, cache, search, queries, clock>>

\* Config.Save replaces the file by a rename.
Save(r) ==
    /\ EditStep(r, "save", "storage")
    /\ file' = edit[r].next
    /\ UNCHANGED <<cfg, limit, known, reached, serial, failures>>

\* A save that fails ends the request.  When it is the sync of the directory
\* that fails, the file has been replaced.
SaveFails(r) ==
    /\ failures < MaxFailures
    /\ failures' = failures + 1
    /\ EditStep(r, "save", "idle")
    /\ \/ UNCHANGED <<file, serial>>
       \/ file' = edit[r].next /\ serial' = FALSE
    /\ UNCHANGED <<cfg, limit, known, reached>>

\* *h.cfg = *next
AssignStorage(r) ==
    /\ EditStep(r, "storage", "web")
    /\ cfg' = [cfg EXCEPT !.storage = edit[r].next.storage]
    /\ UNCHANGED <<file, limit, known, reached, serial, failures>>

\* Mutant of AssignWeb: the section is left out.
AssignNothing(r) ==
    /\ EditStep(r, "web", "indexers")
    /\ UNCHANGED <<file, cfg, limit, known, reached, serial, failures>>

AssignWeb(r) ==
    /\ EditStep(r, "web", "indexers")
    /\ cfg' = [cfg EXCEPT !.web = edit[r].next.web]
    /\ UNCHANGED <<file, limit, known, reached, serial, failures>>

AssignIndexers(r) ==
    /\ EditStep(r, "indexers", IF edit[r].refresh THEN "refresh" ELSE "limit")
    /\ cfg' = [cfg EXCEPT !.indexers = edit[r].next.indexers]
    /\ UNCHANGED <<file, limit, known, reached, serial, failures>>

Learn(urls) == [i \in Indexer |-> IF i \in urls THEN clock ELSE reached[i]]

\* SetIndexers, which drops the indexers that discovery found.
SetIndexers(r) ==
    /\ EditStep(r, "refresh", "limit")
    /\ known' = edit[r].next.indexers
    /\ reached' = Learn(edit[r].next.indexers)
    /\ UNCHANGED <<file, cfg, limit, serial, failures>>

SetStorageLimit(r) ==
    /\ EditStep(r, "limit", "idle")
    /\ limit' = edit[r].next.storage
    /\ UNCHANGED <<file, cfg, known, reached, serial, failures>>

-----------------------------------------------------------------------------
\* The indexer client.

\* discoverIndexersPeriodically: AddIndexer for one more URL.
AddIndexer(i) ==
    /\ known' = known \cup {i}
    /\ reached' = Learn({i})
    /\ UNCHANGED <<node, cache, search, queries, clock>>

Live(q) == cache[q] # NoEntry /\ clock <= cache[q].until

\* Mutant of Hit: an answer that is used lives on.
HitAndRenew(q) == [cache EXCEPT ![q].until = clock + CacheTTL]

\* getFromCache, when there is a live entry.
Hit(q) == cache

\* A query starts: an entry that expired is deleted.
Lookup(s, q) ==
    /\ search[s] = NoSearch
    /\ queries < MaxQueries
    /\ queries' = queries + 1
    /\ IF Live(q) THEN cache' = Hit(q) /\ UNCHANGED search
       ELSE /\ cache' = [cache EXCEPT ![q] = NoEntry]
            /\ search' = [search EXCEPT ![s] =
                  [NoSearch EXCEPT !.at = "copy", !.query = q,
                                   !.left = IF q \in Trending THEN 2 ELSE 1]]
    /\ UNCHANGED <<node, known, clock, reached>>

\* SearchPosts, SearchUsers and GetExplorePublishers have one form; a
\* trending list is put together from two queries.
SearchPosts(s, q) == q \notin Trending /\ Lookup(s, q)
GetTrending(s, q) == q \in Trending /\ Lookup(s, q)

\* queryIndexer copies the list ...
CopyIndexers(s) ==
    /\ search[s].at = "copy" /\ known # {}
    /\ search' = [search EXCEPT ![s].snapshot = known, ![s].at = "ask"]
    /\ UNCHANGED <<node, known, clock, cache, reached, queries>>

\* One of the queries that x is made of is over.
Ended(x) ==
    [x EXCEPT !.snapshot = {}, !.left = x.left - 1,
              !.at = IF x.left = 1 THEN "store" ELSE "copy"]

\* ... and takes the first answer ...
Answered(s) ==
    /\ search[s].at = "ask"
    /\ \E i \in search[s].snapshot :
          search' = [search EXCEPT ![s] = [Ended(@) EXCEPT !.sources = search[s].sources \cup {i}]]
    /\ UNCHANGED <<node, known, clock, cache, reached, queries>>

\* ... or fails, which a trending list passes over.
Failed(s) ==
    /\ search[s].at = "ask" \/ (search[s].at = "copy" /\ known = {})
    /\ search' = [search EXCEPT ![s] = IF @.query \in Trending THEN Ended(@) ELSE NoSearch]
    /\ UNCHANGED <<node, known, clock, cache, reached, queries>>

Cleaned == [q \in Query |-> IF Live(q) THEN cache[q] ELSE NoEntry]
Entries == {q \in Query : Cleaned[q] # NoEntry}

\* putInCache.  A trending list is stored although no indexer answered.
PutInCache(s) ==
    LET q == search[s].query
        entry == [until |-> clock + CacheTTL, sources |-> search[s].sources] IN
    /\ search[s].at = "store"
    /\ \/ /\ q \in Entries \/ Cardinality(Entries) < MaxCacheEntries
          /\ cache' = [Cleaned EXCEPT ![q] = entry]
       \/ /\ q \notin Entries /\ Cardinality(Entries) >= MaxCacheEntries
          /\ \E old \in Entries :
                /\ \A e \in Entries : cache[old].until <= cache[e].until
                /\ cache' = [Cleaned EXCEPT ![old] = NoEntry, ![q] = entry]
    /\ search' = [search EXCEPT ![s] = NoSearch]
    /\ UNCHANGED <<node, known, clock, reached, queries>>

\* evictExpiredEntries
CleanCache ==
    /\ cache' = Cleaned
    /\ UNCHANGED <<node, known, clock, search, reached, queries>>

Reachable == known \cup UNION {search[s].snapshot \cup search[s].sources : s \in Searcher}

ClockTick ==
    /\ clock < MaxTicks
    /\ clock' = clock + 1
    /\ reached' = [i \in Indexer |-> IF i \in Reachable THEN clock + 1 ELSE reached[i]]
    /\ UNCHANGED <<node, known, cache, search, queries>>

\* The node starts with what the file says; the queries are gone.
RestartNode ==
    /\ failures < MaxFailures
    /\ failures' = failures + 1
    /\ StartsWith(file)
    /\ cfg' = file /\ limit' = file.storage /\ known' = file.indexers
    /\ edit' = [r \in Editor |-> NoChange]
    /\ cache' = [q \in Query |-> NoEntry]
    /\ search' = [s \in Searcher |-> NoSearch]
    /\ reached' = Learn(file.indexers)
    /\ serial' = TRUE
    /\ UNCHANGED <<file, clock, updates, queries>>

\* The node runs, so it started with its file; the storage limit of a file
\* that a user wrote is not checked.
ConfigInit ==
    /\ file \in {c \in Initial : StartsWith(c)}
    /\ cfg = file /\ limit = file.storage /\ known = file.indexers
    /\ edit = [r \in Editor |-> NoChange]
    /\ cache = [q \in Query |-> NoEntry]
    /\ search = [s \in Searcher |-> NoSearch]
    /\ clock = 0 /\ reached = [i \in Indexer |-> 0]
    /\ serial = TRUE
    /\ updates = 0 /\ queries = 0 /\ failures = 0

Change(r) ==
    \/ UpdateNodeConfig(r) \/ saveOnboardingStorageContribution(r)
    \/ Save(r) \/ SaveFails(r)
    \/ AssignStorage(r) \/ AssignWeb(r) \/ AssignIndexers(r)
    \/ SetIndexers(r) \/ SetStorageLimit(r)

Searching(s) == (\E q \in Query : SearchPosts(s, q) \/ GetTrending(s, q)) \/ CopyIndexers(s) \/ Answered(s) \/ Failed(s) \/ PutInCache(s)

ConfigNext ==
    \/ \E r \in Editor : Change(r)
    \/ \E s \in Searcher : Searching(s)
    \/ \E i \in Indexer : AddIndexer(i)
    \/ CleanCache \/ ClockTick \/ RestartNode

ConfigSpec == ConfigInit /\ [][ConfigNext]_configVars

-----------------------------------------------------------------------------

Edits ==
    [at : {"save", "storage", "web", "indexers", "refresh", "limit"},
     next : Config, refresh : BOOLEAN]

Searches ==
    [at : {"idle", "copy", "ask", "store"}, query : Query \cup {"none"}, left : 0..2,
     snapshot : SUBSET Indexer, sources : SUBSET Indexer]

\* Configuration, requests, queries and cache keep their types.
ConfigTypeOK ==
    /\ file \in Config /\ cfg \in Config /\ limit \in Storage
    /\ known \subseteq Indexer
    /\ edit \in [Editor -> {NoChange} \cup Edits]
    /\ search \in [Searcher -> Searches]
    /\ \A s \in Searcher : ~(search[s].at = "idle") => search[s].query \in Query
    /\ \A s \in Searcher : search[s].at \in {"copy", "ask"} => search[s].left > 0
    /\ cache \in [Query -> [until : Nat, sources : SUBSET Indexer]]
    /\ clock \in 0..MaxTicks /\ reached \in [Indexer -> 0..MaxTicks]
    /\ serial \in BOOLEAN
    /\ updates \in Nat /\ queries \in Nat /\ failures \in Nat

\* The node starts again after a crash at any point: whatever was copied while
\* another request assigned the configuration field by field, and although the
\* onboarding page checks one field of what it saves, the file passes the
\* check of the web UI's exposure that ends the start-up with an error.
SavedConfigStarts == StartsWith(file)

\* After changes that did not overlap, with saves that failed and crashes
\* between their steps, the file, the configuration and the storage limit
\* agree, and every indexer of the configuration is queried.
ChangesAgree ==
    serial /\ (\A r \in Editor : edit[r] = NoChange) =>
        /\ file = cfg
        /\ limit = cfg.storage
        /\ cfg.indexers \subseteq known

\* Answers of an indexer that was removed from the configuration are gone one
\* lifetime of the cache after the last query that may have reached it: "It
\* ... caches responses for 60 seconds" (pkg/indexer/client.go).
AnswersExpire ==
    \A q \in Query : \A i \in cache[q].sources : cache[q].until <= reached[i] + CacheTTL
=============================================================================
