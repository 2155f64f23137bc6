----------------------------- MODULE NodeContent -----------------------------
(***************************************************************************)
(* The content of one xleaks node: what the inbound message processor      *)
(* (pkg/p2p/handlers.go), the local services (pkg/social), the follow      *)
(* service with its pin policy (pkg/storage/content_access_repo.go) and    *)
(* the storage manager (pkg/feed/replicator.go) do to the content store    *)
(* (pkg/content/store.go) and to the SQLite tables, one statement at a     *)
(* time.  Every topic has its own read loop and every API request its own  *)
(* goroutine, and no lock covers a whole handler, so the statements of     *)
(* different handlers interleave freely.  A statement, a transaction and a *)
(* file replaced by rename are each atomic.                                *)
(*                                                                         *)
(* Messages here have passed validation: content.ValidatePost and its      *)
(* siblings run before the first read or write of a handler, so a rejected *)
(* message changes nothing.  An item stands for its CID.                   *)
(***************************************************************************)
EXTENDS Naturals, FiniteSets

CONSTANTS
    Person,         \* public keys
    Local,          \* the identities stored on this node
    Item,           \* posts, replies, reposts, likes and DMs, by CID
    NoItem,         \* the item of an idle worker
    KindOf,         \* what each item is
    AuthorOf,       \* who signed it
    TargetOf,       \* the post a reply, repost or like is about
    RecipientOf,    \* whom a DM is for
    Worker,         \* goroutines running a handler or a local service call
    FollowThread,   \* goroutines running FollowService.changeFollowState
    Limit,          \* maximum number of stored objects (objects of one size)
    LowWater,       \* evictionTarget * Limit
    BatchSize,      \* rows asked of GetLRUContent
    MaxDeliveries,  \* bound: how often the network delivers one item
    MaxFaults,      \* bound: failing statements and file operations
    MaxCrashes,     \* bound: process crashes
    MaxChanges      \* bound: follow and unfollow requests

PostKinds == {"post", "reply", "repost"}
Kinds == PostKinds \cup {"like", "dm"}

ASSUME ConstantsAssumption ==
    /\ Local \subseteq Person
    /\ IsFiniteSet(Item) /\ NoItem \notin Item
    /\ KindOf \in [Item -> Kinds]
    /\ AuthorOf \in [Item -> Person]
    /\ TargetOf \in [Item -> Item]
    /\ RecipientOf \in [Item -> Person]
    /\ LowWater \in Nat /\ Limit \in Nat /\ BatchSize \in Nat
    /\ MaxDeliveries \in Nat /\ MaxFaults \in Nat
    /\ MaxCrashes \in Nat /\ MaxChanges \in Nat

VARIABLES
    cas,        \* CIDs with a file in the content store
    rows,       \* CIDs with a row in posts, reactions or direct_messages
    counts,     \* reaction_counts: post -> materialized counts
    access,     \* content_access: "none" (no row), "loose" or "pinned"
    notes,      \* number of notification rows an item gave rise to
    subs,       \* the publishers in the subscriptions table
    created,    \* local items a service call was started for
    published,  \* local items handed to GossipSub
    handled,    \* items for which some HandleMessage call returned nil
    evicted,    \* items whose file the storage manager has deleted
    job,        \* what each worker is doing
    follow,     \* what each follow thread is doing
    evict,      \* what the storage manager is doing
    delivered, faults, crashes, changes     \* the bounded environment

store == <<cas, rows, counts, access, notes>>
ghosts == <<created, published, handled, evicted>>
env == <<delivered, faults, crashes, changes>>
vars == <<cas, rows, counts, access, notes, subs, created, published, handled,
          evicted, job, follow, evict, delivered, faults, crashes, changes>>

Origins == {"remote", "local"}
Access == {"none", "loose", "pinned"}
Responses == {"like", "reply", "repost"}    \* what reaction_counts counts
Tally == [Responses -> Nat]
ZeroTally == [k \in Responses |-> 0]

-----------------------------------------------------------------------------
(* The order of the steps of every handler and service call, as a relation *)
(* between a step and the next one.  "done" is the final return.           *)

Steps == {"idle", "check", "put", "insert", "policy", "target", "track",
          "notify", "likes", "replies", "reposts", "upsert", "publish", "done"}

\* What every call has in common.
Store == {<<"put", "insert">>, <<"insert", "policy">>}

\* UpdateReactionCount outside a transaction: three queries and an upsert.
UpdateReactionCount ==
    {<<"likes", "replies">>, <<"replies", "reposts">>, <<"reposts", "upsert">>}

handlePost ==
    Store \cup {<<"check", "put">>, <<"policy", "track">>, <<"track", "done">>}

\* handlePost of a post with reply_to or repost_of: notify, then recount.
handleResponse ==
    Store \cup UpdateReactionCount
    \cup {<<"check", "put">>, <<"policy", "track">>, <<"track", "notify">>,
          <<"notify", "likes">>, <<"upsert", "done">>}

\* handleReaction recounts first and notifies last.
handleReaction ==
    Store \cup UpdateReactionCount
    \cup {<<"check", "put">>, <<"policy", "target">>, <<"target", "track">>,
          <<"track", "likes">>, <<"upsert", "notify">>, <<"notify", "done">>}

handleDM ==
    Store \cup {<<"check", "put">>, <<"policy", "track">>,
                <<"track", "notify">>, <<"notify", "done">>}

\* The local services: no dedup check, publish last.  "insert" is their
\* transaction.  Only replies and reposts notify.
createPost ==
    Store \cup {<<"policy", "track">>, <<"track", "notify">>,
                <<"notify", "publish">>, <<"publish", "done">>}

createReaction ==
    Store \cup {<<"policy", "target">>, <<"target", "track">>,
                <<"track", "publish">>, <<"publish", "done">>}

sendDM ==
    Store \cup {<<"policy", "track">>, <<"track", "publish">>,
                <<"publish", "done">>}

\* s is followed by t in the call that handles or creates item i.
Leads(i, origin, s, t) ==
    \/ /\ origin = "local"
       /\ \/ KindOf[i] \in PostKinds /\ <<s, t>> \in createPost
          \/ KindOf[i] = "like" /\ <<s, t>> \in createReaction
          \/ KindOf[i] = "dm" /\ <<s, t>> \in sendDM
    \/ /\ origin = "remote"
       /\ \/ KindOf[i] = "post" /\ <<s, t>> \in handlePost
          \/ KindOf[i] \in {"reply", "repost"} /\ <<s, t>> \in handleResponse
          \/ KindOf[i] = "like" /\ <<s, t>> \in handleReaction
          \/ KindOf[i] = "dm" /\ <<s, t>> \in handleDM


-----------------------------------------------------------------------------
(* What the statements read.                                               *)

IsPost(i) == KindOf[i] \in PostKinds

\* The rows about post p of one kind, and the three COUNT(*) queries.
About(R, kind, p) == {i \in R : KindOf[i] = kind /\ TargetOf[i] = p}

Count(R, p) == [k \in Responses |-> Cardinality(About(R, k, p))]

\* INSERT OR IGNORE INTO reactions under UNIQUE(author, target, reaction_type).
SameReaction(i, R) ==
    \E j \in R : /\ KindOf[j] = "like"
                 /\ AuthorOf[j] = AuthorOf[i] /\ TargetOf[j] = TargetOf[i]

InsertIgnoring(i, R) ==
    IF KindOf[i] = "like" /\ SameReaction(i, R) THEN R ELSE R \cup {i}

\* Mutant: the node's own identities are forgotten.
PinFollowedOnly(a) == a \in subs

ShouldPinAuthor(a) == a \in Local \/ a \in subs

ShouldPinDM(i) == AuthorOf[i] \in Local \/ RecipientOf[i] \in Local

\* The author looked up for a like's target, when the post is stored.
TargetPinned(i) ==
    /\ TargetOf[i] \in rows /\ IsPost(TargetOf[i])
    /\ ShouldPinAuthor(AuthorOf[TargetOf[i]])

\* ownerForPost finds an author other than the actor; a DM has a recipient.
HasOwner(i) ==
    IF KindOf[i] = "dm" THEN RecipientOf[i] # AuthorOf[i]
    ELSE /\ KindOf[i] # "post"
         /\ TargetOf[i] \in rows /\ IsPost(TargetOf[i])
         /\ AuthorOf[TargetOf[i]] # AuthorOf[i]

\* Mutant: ON CONFLICT takes the new pin, as SetContentPinned does.
OverwritePin(old, pin) == IF pin THEN "pinned" ELSE "loose"

\* TrackContentAccess raises a pin and never clears one.
TrackContentAccess(old, pin) ==
    IF pin \/ old = "pinned" THEN "pinned" ELSE "loose"

\* One INSERT ... SELECT ... ON CONFLICT DO UPDATE of SetPinnedForAuthor.
SetPinned(acc, sel, pin) ==
    [i \in Item |-> IF i \in sel THEN IF pin THEN "pinned" ELSE "loose"
                    ELSE acc[i]]

PostsBy(R, a) == {i \in R : IsPost(i) /\ AuthorOf[i] = a}
LikesBy(R, a) == {i \in R : KindOf[i] = "like" /\ AuthorOf[i] = a}

-----------------------------------------------------------------------------
(* Workers.                                                                *)

IdleJob == [step |-> "idle", item |-> NoItem, origin |-> "remote",
            pin |-> FALSE, seen |-> ZeroTally]

Job == [step : Steps, item : Item \cup {NoItem}, origin : Origins,
        pin : BOOLEAN, seen : Tally]

\* The step after step s of worker w's call.
After(w, s) == {t \in Steps : Leads(job[w].item, job[w].origin, s, t)}

At(w, step) == job[w].step = step

Goto(w, step) == job' = [job EXCEPT ![w].step = step]

Advance(w) == \E t \in After(w, job[w].step) : Goto(w, t)

Stop(w) == job' = [job EXCEPT ![w] = IdleJob]

Start(w, i, origin, step) ==
    job' = [job EXCEPT ![w] = [IdleJob EXCEPT !.step = step, !.item = i,
                                              !.origin = origin]]

\* What the network can deliver: a remote item at any time, a local one once
\* it is published, and something about a local post once that is published
\* (nobody else can name its CID before).
OnNetwork(i) ==
    /\ AuthorOf[i] \in Local => i \in published
    /\ KindOf[i] \notin {"post", "dm"} /\ AuthorOf[TargetOf[i]] \in Local
       => TargetOf[i] \in published

\* readLoop hands a message to HandleMessage.
HandleMessage(w, i) ==
    /\ At(w, "idle")
    /\ delivered[i] < MaxDeliveries
    /\ OnNetwork(i)
    /\ Start(w, i, "remote", "check")
    /\ delivered' = [delivered EXCEPT ![i] = @ + 1]
    /\ UNCHANGED <<store, subs, ghosts, follow, evict, faults, crashes, changes>>

\* CreatePost, CreateRepost, CreateReaction, SendDM: sign a new item.  A
\* repost is refused unless the original is stored.
CreateLocal(w, i) ==
    /\ At(w, "idle")
    /\ AuthorOf[i] \in Local /\ i \notin created
    /\ KindOf[i] = "repost" => TargetOf[i] \in rows /\ IsPost(TargetOf[i])
    /\ Start(w, i, "local", "put")
    /\ created' = created \cup {i}
    /\ UNCHANGED <<store, subs, published, handled, evicted, follow, evict, env>>

\* Mutant: every handler tests the content store.
DuplicateInStore(i) == i \in cas

\* PostExists for posts, cas.Has for reactions and DMs; a duplicate ends the
\* handler with nil.
Duplicate(i) == IF IsPost(i) THEN i \in rows ELSE i \in cas

DedupCheck(w) ==
    /\ At(w, "check")
    /\ IF Duplicate(job[w].item)
       THEN Goto(w, "done")
       ELSE Advance(w)
    /\ UNCHANGED <<store, subs, ghosts, follow, evict, env>>

CasPut(w) ==
    /\ At(w, "put")
    /\ cas' = cas \cup {job[w].item}
    /\ Advance(w)
    /\ UNCHANGED <<rows, counts, access, notes, subs, ghosts, follow, evict, env>>

\* Mutant: posts are inserted with OR IGNORE too.
InsertOrIgnorePost(i) == TRUE

\* A second INSERT INTO posts of one CID breaks the primary key: the handler
\* returns the error.  Reactions and DMs are inserted with OR IGNORE.
PrimaryKeyFree(i) == IsPost(i) => i \notin rows

InsertRow(w) ==
    /\ At(w, "insert") /\ job[w].origin = "remote"
    /\ IF PrimaryKeyFree(job[w].item)
       THEN /\ rows' = InsertIgnoring(job[w].item, rows)
            /\ Advance(w)
       ELSE Stop(w) /\ UNCHANGED rows
    /\ UNCHANGED <<cas, counts, access, notes, subs, ghosts, follow, evict, env>>

\* The local services insert and recount in one transaction.
InsertTx(w) ==
    LET i == job[w].item IN
    /\ At(w, "insert") /\ job[w].origin = "local"
    /\ IF PrimaryKeyFree(i)
       THEN /\ rows' = InsertIgnoring(i, rows)
            /\ counts' = IF KindOf[i] \in Responses
                         THEN [counts EXCEPT ![TargetOf[i]] =
                                   Count(InsertIgnoring(i, rows), TargetOf[i])]
                         ELSE counts
            /\ Advance(w)
       ELSE Stop(w) /\ UNCHANGED <<rows, counts>>
    /\ UNCHANGED <<cas, access, notes, subs, ghosts, follow, evict, env>>

\* The reads of TrackContentForAuthor, TrackReactionContent, TrackContentForDM.
ReadPolicy(w) ==
    LET i == job[w].item
        pin == IF KindOf[i] = "dm" THEN ShouldPinDM(i)
               ELSE ShouldPinAuthor(AuthorOf[i])
    IN
    /\ At(w, "policy")
    /\ \E t \in IF pin THEN {"track"} ELSE After(w, "policy") :
          job' = [job EXCEPT ![w] = [@ EXCEPT !.pin = pin, !.step = t]]
    /\ UNCHANGED <<store, subs, ghosts, follow, evict, env>>

\* TrackReactionContent looks at the target's author only when the actor is
\* neither local nor followed.
ReadTargetPolicy(w) ==
    /\ At(w, "target")
    /\ \E t \in After(w, "target") :
          job' = [job EXCEPT ![w] =
                      [@ EXCEPT !.pin = TargetPinned(job[w].item), !.step = t]]
    /\ UNCHANGED <<store, subs, ghosts, follow, evict, env>>

Track(w) ==
    /\ At(w, "track")
    /\ access' = [access EXCEPT ![job[w].item] =
                      TrackContentAccess(@, job[w].pin)]
    /\ Advance(w)
    /\ UNCHANGED <<cas, rows, counts, notes, subs, ghosts, follow, evict, env>>

\* One COUNT(*) query of UpdateReactionCount.
Observed(w, kind) ==
    [job[w].seen EXCEPT ![kind] =
        Cardinality(About(rows, kind, TargetOf[job[w].item]))]

ReadCount(w, step, kind) ==
    /\ At(w, step)
    /\ \E t \in After(w, step) :
          job' = [job EXCEPT ![w] =
                      [@ EXCEPT !.seen = Observed(w, kind), !.step = t]]
    /\ UNCHANGED <<store, subs, ghosts, follow, evict, env>>

ReadLikes(w) == ReadCount(w, "likes", "like")
ReadReplies(w) == ReadCount(w, "replies", "reply")
ReadReposts(w) == ReadCount(w, "reposts", "repost")

\* Mutant: the count is incremented and not taken from the tables.
IncrementCount(w) ==
    /\ At(w, "upsert")
    /\ counts' = [counts EXCEPT ![TargetOf[job[w].item]] =
                      [@ EXCEPT ![KindOf[job[w].item]] = @ + 1]]
    /\ Advance(w)
    /\ UNCHANGED <<cas, rows, access, notes, subs, ghosts, follow, evict, env>>

UpsertCounts(w) ==
    /\ At(w, "upsert")
    /\ counts' = [counts EXCEPT ![TargetOf[job[w].item]] = job[w].seen]
    /\ Advance(w)
    /\ UNCHANGED <<cas, rows, access, notes, subs, ghosts, follow, evict, env>>

\* NotifyLike, NotifyReply, NotifyRepost, NotifyDM.  The owner lookup and the
\* insert are one step: rows are never deleted and nobody reads notes.
Notify(w) ==
    LET i == job[w].item IN
    /\ At(w, "notify")
    /\ notes' = IF HasOwner(i) THEN [notes EXCEPT ![i] = @ + 1] ELSE notes
    /\ Advance(w)
    /\ UNCHANGED <<cas, rows, counts, access, subs, ghosts, follow, evict, env>>

Publish(w) ==
    /\ At(w, "publish")
    /\ published' = published \cup {job[w].item}
    /\ Advance(w)
    /\ UNCHANGED <<store, subs, created, handled, evicted, follow, evict, env>>

Return(w) ==
    /\ At(w, "done")
    /\ handled' = IF job[w].origin = "remote"
                  THEN handled \cup {job[w].item} ELSE handled
    /\ Stop(w)
    /\ UNCHANGED <<store, subs, created, published, evicted, follow, evict, env>>

\* A statement or file operation fails and the handler returns the error.
FatalSteps == {"put", "insert", "policy", "target", "track"}

FailAndReturn(w) ==
    /\ faults < MaxFaults
    /\ job[w].step \in FatalSteps
    /\ Stop(w)
    /\ faults' = faults + 1
    /\ UNCHANGED <<store, subs, ghosts, follow, evict, delivered, crashes, changes>>

\* A failing recount, notification or publish is logged and the handler goes
\* on after that call.  An existence test that fails counts as absent.
RecountSteps == {"likes", "replies", "reposts", "upsert"}

FailAndContinue(w) ==
    /\ faults < MaxFaults
    /\ \/ job[w].step \in {"check", "notify", "publish"} /\ Advance(w)
       \/ /\ job[w].step \in RecountSteps
          /\ \E t \in After(w, "upsert") : Goto(w, t)
    /\ faults' = faults + 1
    /\ UNCHANGED <<store, subs, ghosts, follow, evict, delivered, crashes, changes>>

WorkerStep(w) ==
    \/ DedupCheck(w) \/ CasPut(w) \/ InsertRow(w) \/ InsertTx(w)
    \/ ReadPolicy(w) \/ ReadTargetPolicy(w) \/ Track(w)
    \/ ReadLikes(w) \/ ReadReplies(w) \/ ReadReposts(w) \/ UpsertCounts(w)
    \/ Notify(w) \/ Publish(w) \/ Return(w)

-----------------------------------------------------------------------------
(* FollowService.changeFollowState for the active identity, whose          *)
(* subscriptions subs is: the subscriptions row, then the pin              *)
(* policy, then one UPDATE per table.  (The profile blob and the media of  *)
(* the author are pinned by further statements of the same form.)          *)

IdleFollow == [step |-> "idle", who |-> NoItem, add |-> FALSE, pin |-> FALSE]

FollowSteps == {"idle", "subscribe", "policy", "posts", "likes"}

FollowJob == [step : FollowSteps, who : Person \cup {NoItem},
              add : BOOLEAN, pin : BOOLEAN]

FollowGoto(f, step) == follow' = [follow EXCEPT ![f].step = step]

ChangeFollow(f, p, add) ==
    /\ follow[f].step = "idle"
    /\ changes < MaxChanges
    /\ \E k \in Local : k # p           \* nobody follows himself
    /\ follow' = [follow EXCEPT ![f] = [step |-> "subscribe", who |-> p,
                                        add |-> add, pin |-> FALSE]]
    /\ changes' = changes + 1
    /\ UNCHANGED <<store, subs, ghosts, job, evict, delivered, faults, crashes>>

Subscribe(f) ==
    /\ follow[f].step = "subscribe"
    /\ subs' = IF follow[f].add THEN subs \cup {follow[f].who}
               ELSE subs \ {follow[f].who}
    /\ FollowGoto(f, "policy")
    /\ UNCHANGED <<store, ghosts, job, evict, env>>

RecomputePin(f) ==
    /\ follow[f].step = "policy"
    /\ follow' = [follow EXCEPT ![f].pin = ShouldPinAuthor(follow[f].who),
                                ![f].step = "posts"]
    /\ UNCHANGED <<store, subs, ghosts, job, evict, env>>

PinPosts(f) ==
    /\ follow[f].step = "posts"
    /\ access' = SetPinned(access, PostsBy(rows, follow[f].who), follow[f].pin)
    /\ FollowGoto(f, "likes")
    /\ UNCHANGED <<cas, rows, counts, notes, subs, ghosts, job, evict, env>>

PinLikes(f) ==
    /\ follow[f].step = "likes"
    /\ access' = SetPinned(access, LikesBy(rows, follow[f].who), follow[f].pin)
    /\ follow' = [follow EXCEPT ![f] = IdleFollow]
    /\ UNCHANGED <<cas, rows, counts, notes, subs, ghosts, job, evict, env>>

\* Any statement, or the topic callback after the subscriptions row, fails.
FollowFails(f) ==
    /\ faults < MaxFaults
    /\ follow[f].step # "idle"
    /\ follow' = [follow EXCEPT ![f] = IdleFollow]
    /\ faults' = faults + 1
    /\ UNCHANGED <<store, subs, ghosts, job, evict, delivered, crashes, changes>>

FollowStep(f) == Subscribe(f) \/ RecomputePin(f) \/ PinPosts(f) \/ PinLikes(f)

-----------------------------------------------------------------------------
(* checkAndEvict: while above the target, read a batch of unpinned CIDs,   *)
(* then delete each one's file and its content_access row.  The LRU order  *)
(* is abstracted to an arbitrary choice of the batch.                      *)

IdleEvict == [step |-> "idle", batch |-> {}, cur |-> NoItem, size |-> 0]

EvictSteps == {"idle", "batch", "delete", "forget", "resize"}

EvictJob == [step : EvictSteps, batch : SUBSET Item,
             cur : Item \cup {NoItem}, size : Nat]

Loose == {i \in Item : access[i] = "loose"}

\* A batch is as many of the unpinned rows as the LIMIT admits.
Batches ==
    {B \in SUBSET Loose :
        Cardinality(B) = IF Cardinality(Loose) < BatchSize
                         THEN Cardinality(Loose) ELSE BatchSize}

EvictStart ==
    /\ evict.step = "idle"
    /\ Cardinality(cas) > Limit
    /\ evict' = [IdleEvict EXCEPT !.step = "batch", !.size = Cardinality(cas)]
    /\ UNCHANGED <<store, subs, ghosts, job, follow, env>>

EvictBatch ==
    /\ evict.step = "batch"
    /\ \/ /\ evict.size > LowWater
          /\ Loose # {}
          /\ \E B \in Batches : evict' = [evict EXCEPT !.step = "delete",
                                                       !.batch = B]
       \/ /\ evict.size <= LowWater \/ Loose = {}
          /\ evict' = IdleEvict
    /\ UNCHANGED <<store, subs, ghosts, job, follow, env>>

\* cas.Delete of the next CID of the batch; its error is ignored.
EvictDelete ==
    /\ evict.step = "delete"
    /\ \E i \in evict.batch :
         /\ evict' = [evict EXCEPT !.step = "forget", !.cur = i,
                                   !.batch = @ \ {i}]
         /\ \/ /\ cas' = cas \ {i} /\ evicted' = evicted \cup {i}
               /\ UNCHANGED faults
            \/ /\ faults < MaxFaults
               /\ faults' = faults + 1
               /\ UNCHANGED <<cas, evicted>>
    /\ UNCHANGED <<rows, counts, access, notes, subs, created, published, handled,
                   job, follow, delivered, crashes, changes>>

\* DeleteContentAccess of the CID just deleted.
EvictForget ==
    /\ evict.step = "forget"
    /\ access' = [access EXCEPT ![evict.cur] = "none"]
    /\ evict' = [evict EXCEPT !.cur = NoItem,
                   !.step = IF evict.batch = {} THEN "resize" ELSE "delete"]
    /\ UNCHANGED <<cas, rows, counts, notes, subs, ghosts, job, follow, env>>

\* Measure again; stop when the batch brought no progress.
EvictResize ==
    /\ evict.step = "resize"
    /\ evict' = IF Cardinality(cas) >= evict.size THEN IdleEvict
                ELSE [evict EXCEPT !.step = "batch", !.size = Cardinality(cas)]
    /\ UNCHANGED <<store, subs, ghosts, job, follow, env>>

\* A failing query or directory walk ends the round; a failing delete of the
\* content_access row is ignored.
EvictFails ==
    /\ faults < MaxFaults
    /\ \/ evict.step \in {"batch", "resize"} /\ evict' = IdleEvict
       \/ /\ evict.step = "forget"
          /\ evict' = [evict EXCEPT !.cur = NoItem,
                         !.step = IF evict.batch = {} THEN "resize" ELSE "delete"]
    /\ faults' = faults + 1
    /\ UNCHANGED <<store, subs, ghosts, job, follow, delivered, crashes, changes>>

EvictStep ==
    \/ EvictStart \/ EvictBatch \/ EvictDelete \/ EvictForget \/ EvictResize
    \/ EvictFails

-----------------------------------------------------------------------------
(* A crash loses the goroutines; files and tables survive.  The restart    *)
(* runs backfillPinnedContent before any other goroutine is started.       *)

Backfilled(acc) ==
    [i \in Item |-> IF i \in rows /\ KindOf[i] # "dm"
                       /\ ShouldPinAuthor(AuthorOf[i])
                    THEN "pinned" ELSE acc[i]]

CrashAndRestart ==
    /\ crashes < MaxCrashes
    /\ crashes' = crashes + 1
    /\ job' = [w \in Worker |-> IdleJob]
    /\ follow' = [f \in FollowThread |-> IdleFollow]
    /\ evict' = IdleEvict
    /\ access' = Backfilled(access)
    /\ UNCHANGED <<cas, rows, counts, notes, subs, ghosts,
                   delivered, faults, changes>>

-----------------------------------------------------------------------------

Init ==
    /\ cas = {} /\ rows = {} /\ subs = {}
    /\ counts = [p \in Item |-> ZeroTally]
    /\ access = [i \in Item |-> "none"]
    /\ notes = [i \in Item |-> 0]
    /\ created = {} /\ published = {} /\ handled = {} /\ evicted = {}
    /\ job = [w \in Worker |-> IdleJob]
    /\ follow = [f \in FollowThread |-> IdleFollow]
    /\ evict = IdleEvict
    /\ delivered = [i \in Item |-> 0]
    /\ faults = 0 /\ crashes = 0 /\ changes = 0

Next ==
    \/ \E w \in Worker, i \in Item : HandleMessage(w, i) \/ CreateLocal(w, i)
    \/ \E w \in Worker : WorkerStep(w) \/ FailAndReturn(w) \/ FailAndContinue(w)
    \/ \E f \in FollowThread, p \in Person, add \in BOOLEAN : ChangeFollow(f, p, add)
    \/ \E f \in FollowThread : FollowStep(f) \/ FollowFails(f)
    \/ EvictStep
    \/ CrashAndRestart

Spec == Init /\ [][Next]_vars

-----------------------------------------------------------------------------
(* Properties.                                                             *)

\* Every variable has its type; a busy worker has an item, a busy follow
\* thread a person and the storage manager a CID to forget.
TypeOK ==
    /\ cas \subseteq Item /\ rows \subseteq Item /\ subs \subseteq Person
    /\ counts \in [Item -> Tally]
    /\ access \in [Item -> Access]
    /\ notes \in [Item -> Nat]
    /\ created \subseteq Item /\ published \subseteq Item
    /\ handled \subseteq Item /\ evicted \subseteq Item
    /\ job \in [Worker -> Job]
    /\ \A w \in Worker : ~At(w, "idle") => job[w].item \in Item
    /\ follow \in [FollowThread -> FollowJob]
    /\ \A f \in FollowThread : follow[f].step # "idle" => follow[f].who \in Person
    /\ evict \in EvictJob
    /\ evict.step = "forget" => evict.cur \in Item
    /\ delivered \in [Item -> Nat]
    /\ faults \in Nat /\ crashes \in Nat /\ changes \in Nat

Quiet ==
    /\ \A w \in Worker : At(w, "idle")
    /\ \A f \in FollowThread : follow[f].step = "idle"
    /\ evict.step = "idle"

\* Whatever this node has announced under its own identity it can serve:
\* eviction, crashes, failing statements and follow changes never remove the
\* file of a published post, reply, repost, like or DM.
OwnContentKept == published \subseteq cas

\* A stored post, reply or repost never gives rise to two notifications,
\* although the PostExists test of handlePost and its INSERT are separate
\* statements and several read loops may handle copies of one post.
PostNotifiedOnce == \A i \in Item : IsPost(i) => notes[i] <= 1

\* When handlePost returns nil the post is stored: the dedup test consults the
\* table that the handler fills, so a copy that arrives after a failed or
\* crashed attempt is stored and not dropped.
HandledPostStored == \A i \in handled : IsPost(i) => i \in rows

\* The materialized counts of a post never exceed what the tables hold, even
\* when recounts race with inserts: rows only grow.
CountsNeverOverstate ==
    \A p \in Item : \A k \in Responses : counts[p][k] <= Count(rows, p)[k]

\* Once a follow has gone through, every stored post of the followed author is
\* pinned, unless the storage manager had chosen it for deletion before: a post
\* that arrives while the follow is in progress is caught either by
\* SetPinnedForAuthor or by the handler's own policy read, and a crash between
\* the subscription and its pins is made good by backfillPinnedContent.
FollowedPostsPinned ==
    faults = 0 /\ Quiet =>
        \A i \in rows \ evicted :
            IsPost(i) /\ AuthorOf[i] \in subs => access[i] = "pinned"

\* With nothing in progress the materialized counts of a post are the counts
\* of the tables.
CountsExactWhenQuiet ==
    faults = 0 /\ crashes = 0 /\ Quiet =>
        \A p \in Item : counts[p] = Count(rows, p)

\* The storage manager never deletes the file of a post whose author is
\* followed, once the follow request has been carried out.
FollowedNeverEvicted ==
    [][\A i \in cas \ cas' :
          IsPost(i) /\ (\A f \in FollowThread : follow[f].step = "idle")
          => AuthorOf[i] \notin subs]_vars

\* Two likes of one post by one author cause at most one notification.
LikeNotifiedOnce ==
    \A i, j \in Item :
        /\ KindOf[i] = "like" /\ KindOf[j] = "like"
        /\ AuthorOf[i] = AuthorOf[j] /\ TargetOf[i] = TargetOf[j]
        => IF i = j THEN notes[i] <= 1 ELSE notes[i] + notes[j] <= 1

\* When HandleMessage returns nil for a DM the DM is in direct_messages.
HandledDMStored == \A i \in handled : KindOf[i] = "dm" => i \in rows

=============================================================================
