----------------------------- MODULE FeedPages -----------------------------
(***************************************************************************)
(* What the readers of a node get to see: the home feed, the feed of       *)
(* everything and the posts of one author, page by page, through the web   *)
(* pages and through the JSON API; the notifications; and the              *)
(* conversations, whose messages become read while they are listed.        *)
(*                                                                         *)
(* All listings page by time: a request asks for what is older than a      *)
(* cursor, newest first, up to a limit, and the next request takes the     *)
(* time of the last entry it got for its cursor.  Between two statements   *)
(* of a request, and between two pages, posts arrive with any time,        *)
(* follows change, the clock moves and other readers mark messages.        *)
(*                                                                         *)
(* SQLite leaves the order of rows with equal times open, so that a limit  *)
(* may cut anywhere among them.  Texts, profiles and reaction counts that  *)
(* an entry is enriched with are left out.                                 *)
(***************************************************************************)
EXTENDS Integers, FiniteSets

CONSTANTS
    Browsers, Clients,  \* browser tabs, and clients of the JSON API
    Own,        \* the identities of this node
    Posts,
    Messages,
    Notices,    \* rows of the notifications table
    By,         \* author of a post, sender of a message or notice
    To,         \* addressee of a message or notice
    TimeOf,     \* the timestamp an item carries
    PageSize,   \* posts on a page
    MaxTime,    \* bound: the clock stops here
    MaxChanges  \* bound: what happens to the rows besides the readers' requests,
                \* and statements that fail

Readers == Browsers \cup Clients

Items == Posts \cup Messages \cup Notices

ASSUME PagesAssumption ==
    /\ PageSize \in Nat \ {0}
    /\ MaxTime \in Nat \ {0}
    /\ MaxChanges \in Nat
    /\ TimeOf \in [Items -> 1 .. MaxTime]
    /\ IsFiniteSet(Items)
    /\ Own # {}
    /\ Posts \cap (Messages \cup Notices) = {}
    /\ Messages \cap Notices = {}

Authors == {By[i] : i \in Items} \cup Own

WebViews == {"home", "all", "author"}

FeedViews == WebViews \cup {"feed", "user"}

Views == FeedViews \cup {"notes", "chat", "talk"}

\* chat is the conversation page, talk the conversation of the API.
Offered(r) ==
    {view \in Views :
        IF view \in WebViews \cup {"chat"} THEN r \in Browsers ELSE r \in Clients}

\* The views that name somebody.
Peered == {"author", "user", "chat", "talk"}

Steps == {"idle", "subs", "query", "global", "mark", "respond", "offered"}

Walk ==
    [view : Views, as : Own, peer : Authors, before : 0 .. MaxTime, step : Steps,
     authors : SUBSET Authors, page : SUBSET Items, unread : SUBSET Items,
     shown : SUBSET Items, due : SUBSET Items, cut : SUBSET (1 .. MaxTime)]

VARIABLES
    now,
    stored,     \* the rows of posts, direct_messages and notifications
    read,       \* the rows with read = 1
    follows,    \* subscriptions: <<owner, author>>
    walk,       \* what each reader is doing
    history,    \* for the properties: who asked to mark notifications, which
                \* messages their addressee was shown, and which were marked by
                \* a request that then failed
    changes     \* how often something happened to the rows, or failed

vars == <<now, stored, read, follows, walk, history, changes>>

NoWalk ==
    [view |-> "home", as |-> CHOOSE v \in Own : TRUE, peer |-> CHOOSE a \in Authors : TRUE,
     before |-> 0, step |-> "idle", authors |-> {}, page |-> {}, unread |-> {},
     shown |-> {}, due |-> {}, cut |-> {}]

At(r, view, step) == walk[r].view \in view /\ walk[r].step = step

Set(r, change) == walk' = [walk EXCEPT ![r] = change]

Changed == changes < MaxChanges /\ changes' = changes + 1

-----------------------------------------------------------------------------
(* The queries.                                                            *)

UpTo(t) == {i \in stored : IF t = 0 THEN TimeOf[i] <= now ELSE TimeOf[i] <= t}

\* Pass 0 for before to start from the most recent.
Below(t) == {i \in stored : IF t = 0 THEN TimeOf[i] <= now ELSE TimeOf[i] < t}

\* The pages ORDER BY timestamp DESC LIMIT n may return: nothing left out is newer
\* than anything returned.
Newest(rows, n) ==
    {p \in SUBSET rows :
        /\ Cardinality(p) = IF Cardinality(rows) < n THEN Cardinality(rows) ELSE n
        /\ \A i \in p, j \in rows \ p : TimeOf[j] <= TimeOf[i]}

GetFeed(authors, before) == {p \in Below(before) \cap Posts : By[p] \in authors}

GetAllPosts(before) == Below(before) \cap Posts

GetNotifications(v, before) == {n \in Below(before) \cap Notices : To[n] = v}

GetConversation(v, peer, before) ==
    {m \in Below(before) \cap Messages : {By[m], To[m]} = {v, peer}}

Followed(v) == {a \in Authors : <<v, a>> \in follows}

\* What a walk that starts now has to show: history, for the properties only.
Due(view, v, peer) ==
    CASE view \in {"home", "feed"} -> GetFeed(Followed(v) \cup {v}, 0)
      [] view = "all" -> GetAllPosts(0)
      [] view \in {"author", "user"} -> GetFeed({peer}, 0)
      [] view = "notes" -> GetNotifications(v, 0)
      [] OTHER -> GetConversation(v, peer, 0)

-----------------------------------------------------------------------------
(* A reader opens a listing.  feedPartial, GetFeed and GetUserPosts,       *)
(* GetNotifications, conversationPage (chat) and GetConversation (talk).   *)

Open(r, view, v, peer) ==
    /\ walk[r].step = "idle"
    /\ Set(r, [NoWalk EXCEPT
                  !.view = view, !.as = v, !.peer = peer,
                  !.step = IF view \in {"home", "feed"} THEN "subs" ELSE "query",
                  !.due = Due(view, v, peer)])
    /\ UNCHANGED <<now, stored, read, follows, history, changes>>

\* GetFeedForPubkey: the subscriptions of the viewer, and the viewer.
GetSubscriptions(r) ==
    /\ At(r, Views, "subs")
    /\ LET w == walk[r]
       IN Set(r, [w EXCEPT !.authors = Followed(w.as) \cup {w.as}, !.step = "query"])
    /\ UNCHANGED <<now, stored, read, follows, history, changes>>

LimitExact(view) == PageSize

\* One entry more than fits tells the web page whether there is a next one.
Limit(view) == IF view \in WebViews THEN PageSize + 1 ELSE PageSize

Rows(w) ==
    CASE w.view \in {"home", "feed"} -> GetFeed(w.authors, w.before)
      [] w.view = "all" -> GetAllPosts(w.before)
      [] w.view \in {"author", "user"} -> GetFeed({w.peer}, w.before)
      [] w.view = "notes" -> GetNotifications(w.as, w.before)
      [] OTHER -> GetConversation(w.as, w.peer, w.before)

UnreadOnPage(v, p) == (p \cap Messages) \ read

\* The messages to the viewer that the query returned unread.
Unread(v, p) == {m \in (p \cap Messages) \ read : To[m] = v}

\* An empty home feed falls back to the feed of everything.
Query(r) ==
    /\ At(r, Views, "query")
    /\ LET w == walk[r]
       IN \E p \in Newest(Rows(w), Limit(w.view)) :
            Set(r, [w EXCEPT
                !.page = p,
                !.step = CASE w.view = "home" /\ p = {} -> "global"
                           [] w.view \in {"chat", "talk"} -> "mark"
                           [] OTHER -> "respond",
                !.unread = Unread(w.as, p)])
    /\ UNCHANGED <<now, stored, read, follows, history, changes>>

QueryAll(r) ==
    /\ At(r, {"home"}, "global")
    /\ LET w == walk[r]
       IN \E p \in Newest(GetAllPosts(w.before), Limit("all")) :
            Set(r, [w EXCEPT !.view = "all", !.page = p, !.step = "respond"])
    /\ UNCHANGED <<now, stored, read, follows, history, changes>>

-----------------------------------------------------------------------------
(* Listing a conversation marks its messages, one statement each.          *)

MarkDMRead(r) ==
    /\ At(r, {"chat", "talk"}, "mark")
    /\ \E m \in walk[r].unread :
         /\ read' = read \cup {m}
         /\ Set(r, [walk[r] EXCEPT !.unread = @ \ {m}])
    /\ UNCHANGED <<now, stored, follows, history, changes>>

\* The web page logs a failed mark and goes on, the API answers with an error.
MarkFails(r) ==
    /\ At(r, {"chat", "talk"}, "mark")
    /\ Changed
    /\ LET w == walk[r]
       IN \E m \in w.unread :
            \/ /\ w.view = "chat"
               /\ Set(r, [w EXCEPT !.unread = @ \ {m}])
               /\ UNCHANGED history
            \/ /\ w.view = "talk"
               /\ Set(r, NoWalk)
               /\ history' = [history EXCEPT !.blind = @ \cup (w.page \cap read)]
    /\ UNCHANGED <<now, stored, read, follows>>

Marked(r) ==
    /\ At(r, {"chat", "talk"}, "mark")
    /\ walk[r].unread = {}
    /\ Set(r, [walk[r] EXCEPT !.step = "respond"])
    /\ UNCHANGED <<now, stored, read, follows, history, changes>>

-----------------------------------------------------------------------------
(* The response, and the cursor of the next request.                       *)

\* The time of the last entry sent.
Cursor(sent) == {TimeOf[i] : i \in {j \in sent : \A k \in sent : TimeOf[j] <= TimeOf[k]}}

\* A web page shows a page and, when the query returned more, a button for the
\* next one; an API client asks again until a page is empty.
More(w) ==
    CASE w.view \in WebViews -> Cardinality(w.page) > PageSize
      [] w.view = "chat" -> FALSE
      [] OTHER -> w.page # {}

Respond(r) ==
    /\ At(r, Views, "respond")
    /\ LET w == walk[r]
       IN \E sent \in Newest(w.page, PageSize) :
          /\ \/ /\ More(w)
                /\ \E t \in Cursor(sent) :
                     Set(r, [w EXCEPT !.shown = @ \cup sent, !.before = t,
                                      !.cut = @ \cup {t}, !.page = {}, !.step = "offered"])
             \/ /\ ~More(w)
                /\ Set(r, NoWalk)
          /\ history' = [history EXCEPT !.seen = @ \cup
                            {m \in sent \cap Messages : To[m] = w.as}]
    /\ UNCHANGED <<now, stored, read, follows, changes>>

LoadMore(r) ==
    /\ At(r, Views, "offered")
    /\ Set(r, [walk[r] EXCEPT
                  !.step = IF walk[r].view \in {"home", "feed"} THEN "subs" ELSE "query"])
    /\ UNCHANGED <<now, stored, read, follows, history, changes>>

Leave(r) ==
    /\ At(r, Views, "offered")
    /\ Set(r, NoWalk)
    /\ UNCHANGED <<now, stored, read, follows, history, changes>>

\* A failing query answers with an error and shows nothing.
QueryFails(r) ==
    /\ walk[r].step \in {"subs", "query", "global"}
    /\ Changed
    /\ Set(r, NoWalk)
    /\ UNCHANGED <<now, stored, read, follows, history>>

-----------------------------------------------------------------------------
(* What changes under the readers.                                         *)

MarkAllRead(v) ==
    /\ read' = read \cup {n \in stored \cap Notices : To[n] = v}
    /\ history' = [history EXCEPT !.asked = @ \cup {v}]
    /\ Changed
    /\ UNCHANGED <<now, stored, follows, walk>>

\* WHERE owner_pubkey = ? AND id = ?
MarkRead(v, n) ==
    /\ n \in stored
    /\ read' = read \cup {k \in {n} : To[k] = v}
    /\ history' = [history EXCEPT !.asked = @ \cup {v}]
    /\ Changed
    /\ UNCHANGED <<now, stored, follows, walk>>

\* INSERT for posts and notifications, INSERT OR IGNORE for messages, which may be
\* delivered again.
InsertRow(i) == stored' = stored \cup {i} /\ read' = read

\* An item is stored with the time its author gave it.
Arrives(i) ==
    /\ i \in stored => i \in Messages
    /\ InsertRow(i)
    /\ Changed
    /\ UNCHANGED <<now, follows, walk, history>>

Follow(v, a) ==
    /\ <<v, a>> \notin follows
    /\ follows' = follows \cup {<<v, a>>}
    /\ Changed
    /\ UNCHANGED <<now, stored, read, walk, history>>

\* Who unfollows an author while walking the home feed need not see the author's posts.
Unfollow(v, a) ==
    /\ <<v, a>> \in follows
    /\ follows' = follows \ {<<v, a>>}
    /\ walk' = [r \in Readers |->
                  IF walk[r].view \in {"home", "feed"} /\ walk[r].as = v /\ a # v
                    THEN [walk[r] EXCEPT !.due = {i \in @ : By[i] # a}]
                    ELSE walk[r]]
    /\ Changed
    /\ UNCHANGED <<now, stored, read, history>>

Tick ==
    /\ now < MaxTime
    /\ now' = now + 1
    /\ Changed
    /\ UNCHANGED <<stored, read, follows, walk, history>>

-----------------------------------------------------------------------------
Init ==
    /\ now \in 1 .. MaxTime
    /\ stored \in SUBSET Posts
    /\ read = {}
    /\ follows \in SUBSET (Own \X (Authors \ Own))
    /\ walk = [r \in Readers |-> NoWalk]
    /\ history = [asked |-> {}, seen |-> {}, blind |-> {}]
    /\ changes = 0

Reading(r) ==
    \/ \E view \in Offered(r), v \in Own :
          \E peer \in IF view \in Peered THEN Authors ELSE {v} : Open(r, view, v, peer)
    \/ GetSubscriptions(r)
    \/ Query(r)
    \/ QueryAll(r)
    \/ QueryFails(r)
    \/ MarkDMRead(r)
    \/ MarkFails(r)
    \/ Marked(r)
    \/ Respond(r)
    \/ LoadMore(r)
    \/ Leave(r)

Changes ==
    \/ \E v \in Own : MarkAllRead(v)
    \/ \E v \in Own, n \in Notices : MarkRead(v, n)
    \/ \E i \in Items : Arrives(i)
    \/ \E v \in Own, a \in Authors : Follow(v, a)
    \/ \E v \in Own, a \in Authors : Unfollow(v, a)
    \/ Tick

Next == (\E r \in Readers : Reading(r)) \/ Changes

Spec == Init /\ [][Next]_vars
-----------------------------------------------------------------------------
(* Properties.                                                             *)

\* The variables stay in their sets and a walk has a cursor only after a page.
PagesTypeOK ==
    /\ now \in 1 .. MaxTime
    /\ stored \subseteq Items
    /\ read \subseteq stored
    /\ follows \subseteq Own \X Authors
    /\ walk \in [Readers -> Walk]
    /\ history \in [asked : SUBSET Own, seen : SUBSET Messages, blind : SUBSET Items]
    /\ changes \in 0 .. MaxChanges

\* No post, notification or message is sent twice to a reader who pages through a
\* listing (feedPartial, parsePagination, timestamp < before), whatever arrives,
\* is followed or falls back to the feed of everything between two pages.
NothingShownTwice ==
    \A r \in Readers : walk[r].step \in {"mark", "respond"} => walk[r].page \cap walk[r].shown = {}

\* A reader who pages to the end has been shown everything that was there when the
\* walk began and stayed in its scope, except what carries the very time at which
\* a page was cut: "timestamp < before" skips the rest of a tie.
WalksComplete ==
    \A r \in Readers :
        walk[r].step = "respond" /\ walk[r].view # "chat" /\ ~More(walk[r]) =>
            \A i \in walk[r].due : i \in walk[r].shown \cup walk[r].page \/ TimeOf[i] \in walk[r].cut

\* A message is read only once a response to its addressee contains it, and a
\* notification once its owner asked: two identities of one node share the rows of
\* what they write to each other.  The one exception is an API request that marked
\* some messages of a page and failed at the next.
ReadByAddressee ==
    /\ \A n \in read \cap Notices : To[n] \in history.asked
    /\ \A m \in read \cap Messages :
         \/ m \in history.seen \cup history.blind
         \/ \E r \in Readers : m \in walk[r].page /\ walk[r].as = To[m]

\* What is read stays read, also when the network delivers the message again.
ReadForGood == [][read \subseteq read']_vars
=============================================================================
