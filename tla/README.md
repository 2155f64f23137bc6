# TLA+ verification of xleaks

xleaks is a peer-to-peer social network node written in Go: posts, reactions,
direct messages, profiles and media are signed, content-addressed, spread over
GossipSub topics and kept in a file store beside a SQLite database.  This
directory models its core as TLA+ state machines, checks them with TLC on small
instances and proves the main invariants with TLAPS for all instances.

All paths below are relative to the repository (`src/`).  `PROJECT.json` holds
the exact map from definitions to source lines, the runs, their mutants, the
hazards and the theorems.

## 1. Inventory

### The parts, their state and their operations

| Part | State | Operations | What makes it correct |
|---|---|---|---|
| Message processor, `pkg/p2p/handlers.go` | none of its own but `prefetching` and `prefetchSlots`; writes store and tables | `HandleMessage` and one handler per message type; `scheduleMediaPrefetch` | a message handled without error is stored; nothing is notified twice; slots come back |
| Local services, `pkg/social` | none; writes store and tables, publishes | `CreatePost`, `CreateRepost`, `CreateReaction`, `SendDM`, `UpdateProfile`, follow and unfollow | what was announced can be served |
| Content store, `pkg/content/store.go` | one file per CID | `Put`, `PutReader`, `Get`, `Open`, `Has`, `Delete` | a file appears or disappears as a whole |
| Pin policy, `pkg/storage/content_access_repo.go` | `content_access` | `Track*`, `ShouldPin*`, `SetPinnedForAuthor`, `GetLRUContent` | own and followed content is pinned |
| Storage manager, `pkg/feed/replicator.go` | a batch of CIDs while it runs | `checkAndEvict` | only unpinned content goes |
| Reaction counts, `pkg/storage/reactions_repo.go` | `reaction_counts` | `UpdateReactionCount`, `UpdateReactionCountTx` | counts equal the tables |
| Topic table, `pkg/p2p/pubsub.go` | map of joined topics, read loops | `Subscribe`, `EnsureSubscribed`, `Unsubscribe`, `Publish` | one read loop per subscribed topic, no forgotten join |
| Feed manager, `pkg/feed/manager.go` | cache of the active identity's publishers, `subscriptions` | `Follow`, `Unfollow`, `ReloadSubscriptions` | table, cache and topics agree |
| Identity syncer, `cmd/xleaks/main.go` | current direct-message topic | `newIdentityRuntimeSyncer` | only the active identity's messages are read |
| Profiles, `pkg/social/profile.go`, `pkg/storage/profiles_repo.go` | `profiles`, a blob under the author's key | edit, handle, fallback of the JSON API | versions order the profiles, on every node |
| Content exchange, `pkg/p2p/bitswap*.go` | `fetchInFlight`, `fetchFailures`, `fetchSemaphore` | `FetchContent`, `FetchContentToTempFile`, serving | one fetch per CID, bounded fetches, no temp file left |
| Media requests, `pkg/api/handlers/media.go` | temp files, `media_objects` | upload, `GetMedia`, `GetMediaThumbnail`, `GetMediaStatus` | a fetched flag that can be trusted; no temp file left |
| Follow graph, `pkg/storage/subscriptions_repo.go`, `pkg/social/follows.go` | `follow_events`, follower counts | `handleFollow`, `InsertFollowEvent`, `UpdateFollowerCount` | the newest event wins; counts equal the events |
| Identity holder, `pkg/identity`, `pkg/api/handlers/identity.go`, `pkg/web/onboarding.go` | key files, active file, `identities`, the key pair in memory and its copies in handlers, services and sessions | create, import, unlock, switch, lock, migrate | no key is lost, a file is named after its key, one identity is active |
| Sessions, tickets and limits, `pkg/api/browser_auth.go`, `ws_ticket.go`, `middleware` | tables of tokens with deadlines, windows with counts | log in, validate, slide, revoke, issue, consume, allow | a logout lasts, a ticket admits once, a limit is a limit |
| Host, discovery, bootstrap fallback, relay, `pkg/p2p`, `cmd/xleaks/bootstrap_fallback.go` | libp2p host, peers, errors of a round of dials | bootstrap, ask manifests and node APIs, retry, connect to relays | the start ends, and a stale list does not leave the node alone |
| Replay cache and rate limiter of the host, `pkg/p2p/seencache.go`, `ratelimit.go` | maps with clocks | allow, add, clean up | bounded |
| Configuration, `pkg/config`, `pkg/api/handlers/node.go` | one shared struct, `config.toml`, the storage limit | change, save, assign | file, struct and limit agree; the file starts the node |
| Indexer client, `pkg/indexer/client.go` | known indexers, cache of answers | set, add, search, trending | a failing indexer is passed over, old answers go |
| Indexer service, `pkg/indexer` | index tables | index, search, rank | - |
| Timeline and listings, `pkg/feed/timeline.go`, `pkg/web/partials.go`, `pkg/api/handlers` | `read` flags | page through feeds, notifications and conversations; mark | nothing twice, nothing forgotten, read only by the addressee |
| Synchroniser, `pkg/feed/sync.go` | none | fetch what is missing | retries end |
| WebSocket hub, `pkg/api/ws.go` | clients, pending slots, channels | reserve, register, broadcast, drop, shut down | a slow client is dropped and blocks nobody, no channel is closed twice, pumps end |
| Validators, `pkg/content/validator*.go` | none | one check per message type | what they accept keeps the limits of the protocol |
| Database, migration, backup, `pkg/storage` | the SQLite file | open, migrate, back up | a migration can be repeated |
| Web pages, logging, metrics, generated protobuf | none of interest | - | - |

### How they interact

A topic's read loop hands each message to `HandleMessage`, which calls the
repositories, the content store and the notifier one statement after the other.
An API or web request calls the same repositories through a local service and
ends with a publish on the topic table.  A follow goes through the feed manager
(row, cache, topic) and then the pin policy.  The storage manager runs on a
timer against the same `content_access` table.  A media object starts a
prefetch goroutine, which uses the content exchange, as media requests do.  An
identity switch calls the syncer, which reloads the feed manager and changes the
direct-message topic; before that the holder has replaced the key files and the
pair in memory, and the handlers, the services and the browser's session each
take a copy.  A request to the API passes session, token, guard and rate limit
before its handler; a WebSocket handshake spends a ticket and reserves a slot of
the hub, to which handlers and services broadcast.  Changing the configuration
reaches the storage manager and the indexer client.

### What is hard

* No lock covers a handler: statements of different handlers, requests and the
  storage manager interleave freely.  Tests run one handler at a time.
* A handler is several statements and a file; each may fail, and the process
  may stop between any two.  What a second delivery then finds decides whether
  a message is lost.
* GossipSub repeats, reorders and loses messages.
* Values are read, a lock or a statement ends, and they are used later: pin
  policies, counts, profile versions, eviction batches, topic handles.
* The topic table, the cache, the subscriptions table and the active identity
  are four places for one fact.
* Fetches are shared, limited, cancelled and backed off, and carry temp files.
* Content is its own name: two uploads share chunks, all videos a thumbnail, and
  another author may announce one's own file.
* Renames, removals and copies of key files are steps between which another
  request or a crash may fall.
* Sessions slide while they are revoked, tickets are raced for, slots are
  reserved before they are used, and a broadcast gives its lock back before it
  drops the clients it found slow.
* The configuration is one struct without a lock.
* Listings page by time while rows with equal and older times arrive.
* A follow changes five places (subscription, cache, topic, event, counts), and
  the events of other people change two of them at the same time.
* The start depends on addresses that may be stale, malformed or the node's own.

`PROJECT.json` lists each of these as a hazard at its line, with the property
that would catch it or the reason why none does yet.

## 2. Modules

| Module | Models | State ↔ code |
|---|---|---|
| `NodeContent` | message processor, local services, pins, storage manager, counts, crash and restart of one node | `cas` = files; `rows` = `posts`, `reactions`, `direct_messages`; `access` = `content_access`; `counts` = `reaction_counts`; `notes` = notifications; `subs` = followed publishers; `job`, `follow`, `evict` = the program counters of handlers, follow requests and `checkAndEvict` |
| `TopicHost` | `pkg/p2p/pubsub.go` | `handle` = the topic map (absent, publish-only, read); `joined` = GossipSub joins; `loops` = read loops; `op` = calls in progress |
| `FeedRuntime` | feed manager and identity syncer over `TopicHost`, which it extends | `subs` = `subscriptions`; `cache` = `Manager.subscribers`; `active`, `dm` = the syncer's identity and topic; `call` = requests, of which one with kind `switch` holds the syncer's mutex and one with kind `await` waits for it |
| `ProfileStore` | profile edits and their delivery between nodes | `row` = `profiles`; `blob` = file under the author's key; `sent` = published; `job` = goroutines |
| `ContentExchange` | content exchange, prefetcher, media requests | `permits` = `fetchSemaphore`; `slots` = `prefetchSlots`; `prefetching`; `inFlight` = `fetchInFlight`; `backoff` = `fetchFailures`; `temps` = temp files; `thumbs`, `fetched` = columns of `media_objects` |
| `MediaUpload` | uploads, reads, chunk messages and announcements, follows, eviction and restart over media | `cas`, `pinned`, `tracked` = files and `content_access`; `rows` = `media_objects`; `temps` = staged files; `job` = requests and handlers; content is a sequence of blocks and its own CID |
| `IdentityHolder` | `pkg/identity` with the handlers and pages that call it | `legacy`, `keyFile`, `active` = files; `row` = `identities`; `kp` = `Holder`'s pair; `apiKp`, `svcKp`, `session` = its copies; `sessionMu` = the mutex of the web sessions |
| `WebAccess` | the middlewares of the API server | `sessions`, `tickets` = deadlines per token; `visits` = the limiters' windows; `cookie` = the browser's; `request` = where each request is |
| `OneTimeTicket` | what `WSTicketManager` promises, the abstract specification that `WebAccess` is checked to implement | `status`, `deadline` |
| `RealtimeHub` | `pkg/api/ws.go` | `clients`, `pending`; `send` = channels; `writer`, `reader` = pumps; `cast` = broadcasts and the lock they hold; `gauge` = the metric |
| `NodeConfig` | configuration changes, storage limit, indexer client | `file`, `cfg`, `limit`; `known` = indexers; `cache`; `edit`, `search` = requests; `clock` |
| `FeedPages` | listings and read marks | `stored`, `read`, `follows` = rows; `walk` = what a reader asked for, has and was shown |
| `FollowGraph` | `handleFollow`, `changeFollowState`, `InsertFollowEvent`, `UpdateFollowerCount`, `ReloadSubscriptions` | `rows` = `follow_events`; `counts` = `follower_counts`; `notified` = notifications; `subs`, `cache` = one identity's `subscriptions` and `Manager.subscribers`; `reload` = rows the syncer has loaded and not yet put in place; `sent` = published events; `job` = read loops and requests |
| `NetworkStart` | the bootstrap goroutine of `setupP2P`, `Bootstrap`, `discoverBootstrapFallbackPeers`, `ConnectToRelays`, mDNS | `peers`, `indexers` = configuration; `boot` = the goroutine, with the dials and errors of its round and the sources still to be asked; `relay` = the next relay; `up`, `conns` = peers that can be reached and that are connected |
| `*Proofs` | theorems about the module they extend; `ApiServerProofs` holds those of `WebAccess`, `RealtimeHub`, `NodeConfig` and `MediaUpload`, the parts behind the API server, `ContentExchangeProofs` also those of `NetworkStart` | |
| `MC*` | small worlds for TLC | |

One action is one statement, one transaction, one section under a lock, one
channel operation or one file replaced by rename.  In `NodeContent` the order of
the statements of a call is a relation (`handlePost`, `handleReaction`, ...,
`createPost`), and each action performs the statement its call is at and moves
on along that relation; an error either ends the call (`FailAndReturn`) or is
logged and passed over (`FailAndContinue`), as in the code.  Ghost variables
(`created`, `published`, `handled`, `evicted`, `orderly`, `promised`,
`restated`, `contested`, `revoked`, `ticketLog`, `missed`, `reached`, `serial`,
`history`, `blurred`, `mine`, `raced`, `echoed`, `agreed`, and the fields `shown`, `due` and `cut`
of a walk, `clean` of a recount and `won` of a round) record history for the
properties and guard no action, except that the network delivers own items once
they are `published`.

Abstractions: an item stands for its CID; messages have passed validation, which
precedes every read and write; objects have one size; the LRU order of
`GetLRUContent` is any order of unpinned rows; signatures, encryption, text and
timestamps are left out.  In `FeedPages`, where order matters, a timestamp is a
number.  Files not under `src/` are GossipSub (delivery) and the
Go scheduler (fairness), browsers, clocks and other nodes, marked external.  In
`NodeContent` media and thumbnails are left to `MediaUpload`.  In `ContentExchange` pins are left to `NodeContent`: tracking is a
statement that may fail, and the storage manager may delete any file.
`handleMediaObject` is one step there: its policy read is an input (`pin`), and
nothing between its two effects reads both.  Remote attempts are one step whose
outcome is any sequence of provider answers.  `FetchContent` has no caller in
the program at present; it is modelled as what the exchange offers.
In `IdentityHolder` a file is the key it decrypts to, because encrypting the same
key again gives other bytes but the same key; copying the old file is two steps,
between which the request carries what it has read (`data`).  In `WebAccess` a token is drawn
once.  In `RealtimeHub` a broadcast holds the read lock during its loop, so that
the critical sections of writers wait for it; everything else under the lock is
one step.  In `NodeConfig` the assignment of the struct is three steps (storage,
web switches, indexers), and a copy made in between sees some of each.  In
`FeedPages` SQLite may return rows of one time in any order, and a reader keeps
the identity it started with.  In `FollowGraph` the read loop of an author's topic
handles one message at a time, and other loops and requests overlap; timestamps,
which no statement looks at, are left out; the subscriptions are followed for one identity, and
of the requests of the others only what they do to the shared cache is kept.  An
event of that identity may arrive from a peer: the read loop skips only what the
node itself sent.  In `MediaUpload` a fetch of a read either caches the file or
not; its temp file is `ContentExchange`'s.  In `NetworkStart` an address is the peer it names,
the node itself or nothing; a document is the set of addresses it yields; a dial
of a peer that is connected succeeds, one of the node itself fails.  The DHT's
own `Bootstrap`, called after the dials of a round, is a library call that has no
error to return; it is not modelled, and `RoundJudged` would have to except it if
it had.

## 3. Runs

All configurations but `FP_pages` say `CHECK_DEADLOCK FALSE`: requests,
deliveries, failures and crashes are bounded by constants, and a node to which
nothing more happens stops.  What must not stop is stated as liveness.  (In
`FP_pages` a reader can always start again.)

| Run | Shows |
|---|---|
| `NC_ingest` | two worlds over a store that overflows, one at a time (`OneWorld`): an own post, a reply and a like of it, the answers delivered up to twice to two handlers, with one failure; or a post of a followed author, an own like and an own DM with two follow changes and a crash: `OwnContentKept`, `PostNotifiedOnce`, `HandledPostStored`, `CountsNeverOverstate`, `FollowedPostsPinned` |
| `FR_runtime` | two concurrent requests out of three (follow, unfollow, switch, post, DM) of two identities, one failure, switches that wait for one another: `OneReadLoop`, `JoinsAccounted`, `OnlyActiveDMRead`, `RuntimeMatchesTable` |
| `PS_profiles` | two edits, two nodes, a failure, a crash, deliveries in any order: `ProfilesAgree` |
| `CE_fetch` | two goroutines, three calls, one fetch token, one prefetch slot, one failure or eviction: `TempFilesOwned`, `LimitsKept`, `OneSharedFetch`, `FetchedMediaStored`, `CallsEnd` |
| `MU_media` | two uploads out of a file of one full chunk and one with an equal chunk and a rest, a message of another author about the same contents or a read of a file or thumbnail, a follow change, evictions, a failure or restart: `OwnUploadsKept`, `PublishedChunksAssemble`, `StagedFilesOwned` |
| `ID_identity` | an API client and a browser, three calls, two keys, all layouts of old key files, one failing step, one crash: `NamesHonest`, `OneActiveRow`, `KeyKept` |
| `WA_access` | two requests at a time of one browser, four in all, three tokens for a table of two sessions, one ticket, small windows, two ticks: `LoggedOutStaysOut`, `SessionsKept`, the refinement `TicketsOneTime` |
| `WH_hub` | two handshakes for one slot, two broadcasting goroutines, three events, channels of one message, lost connections, shutdown: `SlotsAccounted`, `NoPanic`, `MissedAreDropped`, `PumpsEnd` |
| `CF_config` | two overlapping changes, one indexer, two queries over a cache of one entry, a failing save or restart: `SavedConfigStarts`, `ChangesAgree`, `AnswersExpire` |
| `FP_pages` | one reader with a browser tab and an API client, two identities, pages of two entries, three posts with two of them of one time, two messages of one identity to the other, a notification, three changes of the rows: `NothingShownTwice`, `WalksComplete`, `ReadByAddressee` |
| `FG_follows` | three people, any of whom the node may have as an identity, two goroutines, two events or requests, a delivery, a reload of the cache for this or another identity, a failure or restart for one of them: `CountsHeal`, `OwnFollowRecorded` |
| `NS_start` | every list out of four addresses (of a stable peer, of one that comes and goes, of the node itself, malformed), a manifest that may fail, a node API that answers and an indexer's that may not, three relays of which none is a stable peer, one change of configuration or peers, cancellation: `BootstrapEnds`, `StaleListRecovered`, `RoundJudged` |

Why the bounds are enough to be interesting: every race in the list of hazards
is between two actors, so two goroutines of a kind meet every order of their
steps; one failure suffices to leave any call half done, and a second delivery or
call to meet what it left; stores hold two or three objects so that the limit is
reached; one token, slot, ticket or cache entry of each kind makes every
second call wait or evict, and two sessions leave an eviction something to choose
from; pages of two entries are cut between and within the three posts' times, and a
mark may fail after another one of its page; a deadline of
one or two ticks is met before, at and after it; files of two and three blocks
with chunks of two have a full, a short and a repeated chunk; two events and a
delivery are enough for an own request to meet the event of another one, an older
one included, and for two recounts to overtake each other.  The invariants
that matter most do not depend on the bounds, because they are proved as well.
Symmetry is used for sets whose members are interchangeable and that no property
tells apart (workers, requests, keys, tokens); no run with a liveness property uses symmetry.  Each
property of a passing run has a mutant of the code's behaviour (a dropped guard,
a swapped order, a lost release) under which TLC finds it violated.

Fairness: `CallsEnd` assumes weak fairness of each goroutine's
next step, which is the Go scheduler's; statements return, channels with a free
place accept, and remote attempts end because the provider lookup, the stream
and the whole fetch have deadlines (`pkg/p2p/bitswap.go`).  No context needs to
end, no failure and no back-off expiry needs to happen.  `PumpsEnd` assumes the
same of handshakes, broadcasts and pumps; the ping of a write loop is due every
`wsPingPeriod` and fails on a lost connection.  The removal of a client by its
read loop has strong fairness, because it needs the write lock: `sync.RWMutex`
keeps new readers out while a writer waits, so that broadcasts, which hold the
read lock for a moment each, cannot keep it out for ever.  The two liveness
properties of `NetworkStart` assume weak fairness of the bootstrap goroutine, its
dials included, and of the relay loop: libp2p's dials and the HTTP client of the
fallback have timeouts.  No peer but the stable ones, and no source but the
reliable ones, needs to answer.  The safety runs need no
fairness.

Conditions in properties that are not obvious: `FollowedPostsPinned` speaks of
states with nothing in progress and nothing failed (a failed pin update is only
logged), and of posts that no eviction has taken.  The run has one follow thread;
the theorem allows any number of them as long as the requests for one author do
not overlap (`RequestsApart`): two that do can leave the older decision in the
table (see the hazards).  `RuntimeMatchesTable` is for requests that come one at a time from
the active identity: a reload that overlaps a follow may drop its cache entry
until the next reload.  `ProfilesAgree` is for edits that do not overlap;
overlapping ones publish two profiles under one version (section 5).
`OwnUploadsKept` leaves out contents that another author sent as well: an
announcement replaces the author of the row, and the pins follow it (section 5).
It leaves out what was read before it was pinned: `openContent` tracks whatever is
stored without a pin, so that a read of a file whose upload is still running, or
stopped half way before, offers it to the storage manager (section 5).
It leaves out the thumbnail of such a file too, which an attempt to prove less
brought up: all videos share one placeholder thumbnail, an own upload of the
foreign file tracks it under the foreign row and therefore unpinned, the storage
manager may take it into a batch, and it deletes it after the upload of another
own video has pinned it.  TLC shows that behaviour in an instance with two videos
when `contested` holds only the announced file.
`StagedFilesOwned` counts the files that a body refused after its file part
leaves behind (`pkg/api/handlers/media.go:242`); no other way out may leave one.
`KeyKept` is checked with six steps able to fail (`Fallible` of
`ID_identity.cfg`): removing the old file, writing the active file after a rename,
removing a duplicate, saving a new key, counting the rows and activating one.  The
copy of the old key file (`copy`, `write`) is not among them: if it fails,
`migrateIfNeeded` goes on and a later migration under a name that exists removes
the only file.  The theorem has
any number of requests, and there the write of the active file after a rename
(`adopt`) has to succeed as well.  Three unlocks and one such failure suffice to
lose a key, as TLC shows with three API clients: one unlock has read the old file;
a second migrates it and renames it to its key, and its write of the active file
fails; the first now writes what it has read to the placeholder; a third finds two
equal files and is about to remove the placeholder as a duplicate; the second's
roll-back renames its file back onto the placeholder, and the third removes it.
With two requests, as in the run, this cannot happen.  (The model is coarser
than the code in one respect: two encryptions of one key compare as equal.)
`OneActiveRow` is for states
with no request in progress and no failure before.  `ChangesAgree` is for changes
that do not overlap: of two that do, one is lost in memory and kept in the file.
`WalksComplete` excepts entries that carry the time at which a page was cut:
`timestamp < before` skips the rest of a tie.  `ReadByAddressee` excepts messages
that an API request had marked when a later mark of the same request failed.
`CountsHeal` excepts people whose last recount failed, was lost in a crash or was
overtaken by another row (`blurred`), and demands that the next undisturbed event
about them puts the counts right.  `OwnFollowRecorded` is for requests that
returned nil.  It leaves out people (`raced`) about whom two requests overlapped,
a request met a reload (which drops its cache entry) or a cache that was not the
identity's own, or whom another identity put into the cache: these may leave
subscription, cache and event apart, and the property demands that the next quiet
reload or restart for the identity makes subscription and cache agree again.  While
the cache is another identity's it says nothing of the cache, and of the event
nothing once a message has rewritten the row (`echoed`).  `SessionsKept` speaks of
the step that takes a session; that the table was full then counts only sessions
that have time left, because expired ones are removed first.  The rate limiters'
windows are modelled because they decide which requests get through; no property
is about them.  `NoPanic` is about the hub's channels; gorilla's own panic on
concurrent writes to one connection (`pkg/api/ws.go:140` against 192 and 199) lies
in the library and is not covered.  `StaleListRecovered` is for a list with
at least one well-formed address, and the instance has a reliable source that
knows a stable peer: for an empty or wholly malformed list `Bootstrap` returns no
error, and `setupP2P` then does not ask the fallback sources at all.

## 4. Proofs

| Theorem | Says | Inductive invariant and why |
|---|---|---|
| `TypeCorrect` | types of `NodeContent` | inductive as it stands |
| `OwnContentKeptTheorem` | what was announced stays | no own item's row is ever "loose", none is in an eviction batch, no call is about to write a loose row for one, and a local call past its file write has the file: only loose rows reach a batch, and only batches delete |
| `PostsNotifiedOnce`, `HandledPostStoredTheorem` | `PostNotifiedOnce` and `HandledPostStored` | the primary key lets one worker past the insert of a post, so at most one is between insert and notification, and none before has notified |
| `FollowedPostsPinnedTheorem` | `FollowedPostsPinned`, if requests for one author do not overlap | `PinInv`: a stored, unevicted post of a followed author is pinned, or a follow request or the post's handler is still to pin it; what a request decided is still what `subs` says, and what a handler read of the policy is either current or will be corrected by the request that changed it |
| `CountsNeverOverstateTheorem` | racing recounts stay below the tables | what a worker has seen is bounded by the rows, and rows only grow |
| `HostInvariant`, `JoinsAccountedTheorem` | one read loop per read topic; every join is in the map or in the hands of one publish | types and read loops together, because an `Unsubscribe` takes a loop away; then, for joins, each goroutine between its join and the map |
| `RuntimeTopics` | one read loop per topic and joins accounted for in the feed runtime | each of its steps is a step of the topic table or leaves it alone (`RuntimeUsesTopicHost`, a lemma), so that the table's invariants carry over |
| `OnlyActiveDMReadTheorem` | `OnlyActiveDMRead` | `WorkInv` ties a request to the call it has in the topic table and lets one switch hold the syncer's mutex at a time; `DMInv`: a direct-message topic is read only if it is the recorded one, or by the switch that has just subscribed to it and has yet to record it |
| `RuntimeMatchesTableTheorem` | `RuntimeMatchesTable` | `TableInv`: with orderly requests and no failure, the step of the one request in progress says how far table, cache and topics have moved (`Together`); a publish that joins meanwhile is accounted for by `JoinsAccounted` |
| `ProfilesCorrect` | `HandledProfileKept`, `AuthorLeads`, `ProfilesAgree` | what each worker knows at its step: after the upsert the row has its version or a later one; an orderly edit's version is above everything published; a handler's profile was published |
| `ExchangeTypes`, `TempFilesOwnedTheorem`, `OneSharedFetchTheorem` | section 2 of `ContentExchange` | which steps each kind of call can be at, that a temp file exists only between a successful fetch and its removal, and how a goroutine stands to `fetchInFlight` |
| `LimitsKeptTheorem` | limits hold, no token is lost | the number of tokens is the number of goroutines between taking and giving back, by adding and removing one element of a finite set |
| `FetchedMediaStoredTheorem` | `FetchedMediaStored` | `MediaInv`: what a prefetcher or request has stored by the step it is at (`StoredIn`), unless the row was restated under it |
| `PagesCorrect`, `NothingShownTwiceTheorem` | `NothingShownTwice`, `WalksComplete` | the cursor separates what was shown from what a page holds; what was due is shown, on the page, below the cursor or tied with a cut; each step of a walk keeps that because a page is the newest below the cursor |
| `ReadByAddresseeTheorem`, `ReadForGoodTheorem` | who marks, and that marks stay | a page being marked holds messages of the conversation its reader asked for, with the reader's identity |
| `HubNoPanic`, `SlotsAccountedTheorem`, `MissedAreDroppedTheorem` | `NoPanic`, `SlotsAccounted`, `MissedAreDropped` | a broadcast in its loop holds the read lock, so that what it still has to serve is registered, and what is registered is open; reserved slots are the handshakes that hold one |
| `LoggedOutStaysOutTheorem`, `SessionsKeptTheorem` | sessions | a token is drawn once; a request past the middlewares carries a token that was drawn; what slides is in the table; a login removes nothing with time left unless the table is full, and then the entry nearest its end |
| `TicketsOneTimeTheorem` | `WebAccess` implements `OneTimeTicket` | the log of each ticket agrees with the table: issued and unspent tickets are entries with their deadline, and there are finitely many |
| `ConfigTypes` | types of `NodeConfig` | inductive as it stands |
| `SavedConfigStartsTheorem` | `SavedConfigStarts` | `WebSafe`: the file, the struct and every copy a request has made pass the start-up check, half-assigned ones included, because the web switches are assigned together and no other part decides the check |
| `ChangesAgreeTheorem` | `ChangesAgree` | `AgreeInv`: of a request that overlapped no other, its step says which of file, struct, limit and indexers carry the change; a crash takes the file's side |
| `AnswersExpireTheorem` | `AnswersExpire` | `ReachedInv`: whoever can be asked, or is being asked by a query, counts as reached now, so that no cached answer is younger than the last time its indexer could be reached |
| `MediaTypes` | types of `MediaUpload` | inductive as it stands |
| `OwnUploadsKeptTheorem` | `OwnUploadsKept` | `JobsSound`, `RowsSound`, `PinsSound`, `UploadsSound`: only contested CIDs, sent by another author or read unpinned, are tracked unpinned or in a batch, a row of another author is contested with its chunks and thumbnail, and the CIDs of a running upload are stored, pinned or still to be tracked, up to contested ones |
| `PublishedChunksAssembleTheorem` | `PublishedChunksAssemble` | `CutInv`: the chunks an upload has cut are numbered and are the first reads of its file, and past the loop they reach its end; a published object has the chunks of such an upload.  That appending them gives the file back, in whatever order they come, is an induction along the file: the least number of chunks after which the assembled bytes differ cannot exist (`LeastNumber`, from the well-foundedness of the natural numbers) |
| `StagedFilesOwnedTheorem` | `StagedFilesOwned` | the staged files are as many as the goroutines between staging and removal, by adding and removing one element of a finite set |
| `NamesHonestTheorem` | `NamesHonest` | `HolderInv`: a request that will name a file knows the key the file holds (`JobSound`), the old files, and what was read of them and is yet to be written, hold one key, and while there is an old file, a name under which a migration may come to write it is taken or is its key's own (`UsedStored`) |
| `KeyKeptTheorem` | `KeyKept`, if the copy of the old file and the write of the active file after a rename succeed | `KeyInv`: until the old key is copied nobody is past the migration (`NobodyPast`), and who is about to remove a duplicate has the other file (`DuplicateKept`) |
| `OneActiveRowTheorem` | `OneActiveRow` | `OneRowComing`: without failures, one row is active or some request is still to run the transaction that leaves one |
| `CountsHealTheorem` | `CountsHeal` | an undisturbed recount has read what the rows hold (`ReadsExact`); inserting a row disturbs exactly the recounts of the two people it concerns, and leaves the inserter owing their counts |
| `RoundJudgedTheorem` | `ErrorsFit` and `RoundJudged` of `NetworkStart`: no dial waits to hand over its error, and a round is given up only when none of its dials worked | `StartInv`: while dials are under way, errors and open dials together are at most the valid addresses (so the channel has room), and fewer exactly when a dial has worked; by counting a finite set |
| `OwnFollowRecordedTheorem` | `OwnFollowRecorded` | `AgreeInv`: while nothing has raced about a person, how far the one request in progress has come (`Progress`) says which of subscription, cache and event are changed already (`Settled`), and what a reload has loaded is what the table says of everybody no request has touched since (`Loaded`) |

The theorems hold for all values of the constants that satisfy the modules'
assumptions (`ConstantsAssumption`, `HostAssumption`, `RuntimeAssumption`,
`ProfileAssumption`, `ExchangeAssumption`, `PagesAssumption`, `HubAssumption`,
`AccessAssumption`, `GraphAssumption`, `HolderAssumption`, `ConfigAssumption`,
`MediaAssumption`, `StartAssumption`): functions have their domains, bounds are natural numbers,
placeholders are no members, topics of different people have different names,
contents are non-empty sequences of blocks (`ValidateMediaChunk` and
`ValidateMediaObject` refuse empty ones), items, addresses or goroutines are finitely
many where they are counted.  TLC evaluates them in every run.

The inductive invariants were checked with TLC, on the instances of the runs,
before they were proved.  The type invariants (`TypeOK`, `IdentityTypeOK`,
`ConfigTypeOK`, `MediaTypeOK`, `StartTypeOK`), `HandledProfileKept`, `AuthorLeads`,
`ReadForGood` and `ErrorsFit` are proved and not part of a run; TLC
agrees with them on the runs' instances.

Only model-checked: the liveness properties `CallsEnd`, `PumpsEnd`,
`BootstrapEnds` and `StaleListRecovered`, because liveness under
fairness is outside what the prover handles.  (Of `BootstrapEnds` the part that
could go wrong, a dial stuck on a full channel, is safety and proved as
`ErrorsFit`.)  Every other property of a run has a theorem.  No module declares a
`RECURSIVE` operator; assembling chunks is a recursive function.

## 5. Where code and documents differ

These were met while modelling; no run of the project expects a violation.  A property that is named
states the document's sentence in its module, and TLC refutes it when it is added to a
configuration with the items or requests concerned; elsewhere the definition that
shows what the code does is named.

| Where | What the code does | What a document or comment says |
|---|---|---|
| `HandledDMStored`, `NodeContent` | a DM whose insert failed is taken for a duplicate for ever, because the duplicate test looks at the file, which was written before | `docs/ARCHITECTURE.md:373` |
| `WithEvent`, `FollowGraph` | the follow event that is handled last wins, whatever its time: an unfollow that arrives before the follow it revokes is undone | `docs/PROTOCOL.md:742` |
| `CountsExactWhenQuiet`, `NodeContent` | two recounts of one post interleave and the older numbers are written last | `pkg/storage/reactions_repo.go:72` |
| `FollowedNeverEvicted`, `NodeContent` | a batch read before a follow is deleted after it | `docs/PROTOCOL.md:487` |
| `LikeNotifiedOnce`, `NodeContent` | a second like under another CID is not stored but notified | `docs/PROTOCOL.md:137` |
| `FollowSubscribesOwner`, `FeedRuntime` | a follow by a second identity is skipped because the active one's cache has it | `pkg/feed/manager.go:78` |
| `DMTopicRead`, `FeedRuntime` | a publish-only handle is taken for a subscription | `pkg/p2p/pubsub.go:74` |
| `VersionsIncrease`, `ProfileStore` | concurrent edits publish two profiles under one version | `docs/PROTOCOL.md:736` |
| `MediaUpload`, `contested` | another author's announcement of an own file takes over its row and with it its pin, and may take the placeholder thumbnail of all videos with it | `docs/ARCHITECTURE.md:484`: own content is never evicted |
| `MediaUpload`, `TrackAccess` | a file that an upload has stored and not yet pinned is tracked unpinned by a read, may get into an eviction batch, and is deleted after the upload has pinned it and answered 201 (`pkg/api/handlers/media.go:610`, 690) | `docs/ARCHITECTURE.md:484`: own content is never evicted |
| `ContentExchange`, `Fetched` | the prefetcher sets `fully_fetched` once file and thumbnail are stored, and asks for no chunk | `pkg/storage/media_repo.go:71`: "all chunks stored locally" |
| `MediaUpload`, `HandleMediaChunk` | the parent of a chunk is not looked up before the chunk is stored | `docs/PROTOCOL.md:289` |

Behaviour without a document against it, kept in the models: a switch through a
web page that meets a lock creates a session of a nil key pair and panics with
the session mutex held (`pkg/web/session.go:70`, `sessionMu`); a handshake that is
refused after its ticket was checked has spent it; a client that registers after
the hub's `Close` stays until its connection ends; a trending list is cached
although every indexer failed; replacing the configured indexers drops the
discovered ones until the next discovery; a save that fails after its rename
leaves a file that the running configuration does not know; three unlocks of an
old installation at once, one of which cannot write the active file, may remove
the only key file (`pkg/identity/holder.go`, `fixMigratedKeyName`; section 3).

## 6. Plan

Done: `NodeContent`, then `TopicHost` under `FeedRuntime`, `ProfileStore`,
`ContentExchange`, each with its proofs; `MediaUpload`, `IdentityHolder`,
`WebAccess` with `OneTimeTicket`, `RealtimeHub`, `NodeConfig`, `FeedPages`,
`FollowGraph`, `NetworkStart`; proofs for `FeedPages`, `RealtimeHub`, `WebAccess`,
`FollowGraph`, `IdentityHolder`, `NodeConfig` and `MediaUpload`, and for the
invariants of `NodeContent`, `FeedRuntime` and `ContentExchange` that had none;
the assembly of chunks and the safety of `NetworkStart`.

Next: further modules, when they are worth their runs: migration and backup of the database, the
validators as operators against the limits in `docs/PROTOCOL.md`.

## 7. Not modelled, and why

Cryptography, protobuf encoding, thumbnail pixels, text search and ranking,
HTML, logging and metrics are computations without the state the properties are
about.  libp2p's own protocols (DHT, NAT, relay) are outside the repository.
`SubscribeWithFilter`, the seen cache and the p2p rate limiter are not wired into
the running node.  `Replicator.EvictStaleContent` and `fetchAndStore` have no
callers with a fetch function set.  `feed.NewSyncer` is called by
tests only.  The indexer service reads and ranks rows.  Indexers'
advertisements in the DHT go through validators of the DHT library, and the
construction of the host is configuration of libp2p.
