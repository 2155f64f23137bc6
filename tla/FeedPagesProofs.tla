-------------------------- MODULE FeedPagesProofs --------------------------
(***************************************************************************)
(* Proofs about FeedPages for any readers, rows, times, page sizes and     *)
(* bounds.  What a reader has and was shown is related to the cursor: all  *)
(* that was shown is at or above it, a page is below it, and what was due  *)
(* at or above it was shown or tied with a cut.  A page leaves out only    *)
(* what is no newer than everything on it, and only when it is full.       *)
(***************************************************************************)
EXTENDS FeedPages, FiniteSetTheorems, TLAPS

\* The steps at which a reader holds no page.
Empty == {"idle", "subs", "query", "global", "offered"}

\* A page is of rows, and of as many as its view asks for; only conversations
\* mark, and only what is addressed to their reader.
Paged(w, s) ==
    /\ w.page \subseteq s
    /\ w.step \in Empty => w.page = {}
    /\ w.view \in WebViews => w.page \cap Messages = {}
    /\ w.view \notin WebViews => Cardinality(w.page) <= PageSize
    /\ w.unread \subseteq {m \in w.page \cap Messages : To[m] = w.as}
    /\ w.step # "mark" => w.unread = {}
    /\ w.step = "global" => w.view = "home"

\* The cursor separates what was shown from what is on the page.
Ordered(w) ==
    /\ w.before = 0 => w.shown = {}
    /\ w.before # 0 => /\ \A i \in w.shown : TimeOf[i] >= w.before
                       /\ \A i \in w.page : TimeOf[i] < w.before

\* What is due is stored, has come and belongs to the view; the authors that were
\* read for the home feed include those of everything due.
Scoped(w, n, s, f) ==
    \A i \in w.due :
        /\ i \in s /\ TimeOf[i] <= n
        /\ w.view \in FeedViews => i \in Posts
        /\ w.view \in {"home", "feed"} => <<w.as, By[i]>> \in f \/ By[i] = w.as
        /\ w.view \in {"home", "feed"} /\ w.step = "query" => By[i] \in w.authors
        /\ w.view \in {"author", "user"} => By[i] = w.peer
        /\ w.view = "notes" => i \in Notices /\ To[i] = w.as
        /\ w.view \in {"chat", "talk"} => i \in Messages /\ {By[i], To[i]} = {w.as, w.peer}

\* What was due at or above the cursor was shown, or tied with a cut.
Covered(w) ==
    w.before # 0 =>
        \A i \in w.due : TimeOf[i] >= w.before => i \in w.shown \/ TimeOf[i] \in w.cut

\* What is due below the cursor is on the page, or the page is full of newer entries.
Complete(w) ==
    w.step \in {"mark", "respond"} =>
        \A i \in w.due :
            \/ w.before # 0 /\ TimeOf[i] >= w.before
            \/ i \in w.page
            \/ /\ Cardinality(w.page) = Limit(w.view)
               /\ \A j \in w.page : TimeOf[i] <= TimeOf[j]

Sound(w, n, s, f) ==
    Paged(w, s) /\ Ordered(w) /\ Scoped(w, n, s, f) /\ Covered(w) /\ Complete(w)

WalksSound == \A r \in Readers : Sound(walk[r], now, stored, follows)

PagesInv == PagesTypeOK /\ WalksSound /\ ReadByAddressee

-----------------------------------------------------------------------------
(* The queries.                                                            *)

LEMMA Finite == ASSUME NEW p \in SUBSET Items PROVE IsFiniteSet(p) /\ Cardinality(p) \in Nat
BY FS_Subset, FS_CardinalityType, PagesAssumption

LEMMA Times == \A i \in Items : TimeOf[i] \in 1 .. MaxTime /\ TimeOf[i] \in Nat /\ TimeOf[i] # 0
BY PagesAssumption

\* A page ordered by time and cut at n is of n rows, or of all.
LEMMA NewestPages ==
    ASSUME NEW rows \in SUBSET Items, NEW n \in Nat, NEW p \in Newest(rows, n)
    PROVE  /\ p \subseteq rows
           /\ Cardinality(p) <= n
           /\ \A i \in rows : \/ i \in p
                              \/ Cardinality(p) = n /\ \A j \in p : TimeOf[i] <= TimeOf[j]
<1>1. p \subseteq rows /\ \A i \in p, j \in rows \ p : TimeOf[j] <= TimeOf[i]
  BY DEF Newest
<1>2. Cardinality(p) = IF Cardinality(rows) < n THEN Cardinality(rows) ELSE n
  BY DEF Newest
<1>3. IsFiniteSet(rows) /\ Cardinality(rows) \in Nat
  BY Finite
<1>4. Cardinality(p) <= n
  BY <1>2, <1>3
<1>5. CASE Cardinality(rows) < n
  <2>1. Cardinality(p) = Cardinality(rows)
    BY <1>2, <1>5
  <2>2. p = rows
    BY <2>1, <1>1, <1>3, FS_Subset
  <2> QED BY <2>2, <1>4
<1>6. CASE ~(Cardinality(rows) < n)
  BY <1>1, <1>2, <1>4, <1>6
<1> QED BY <1>5, <1>6

LEMMA LimitType == ASSUME NEW view PROVE Limit(view) \in Nat /\ Limit(view) >= PageSize
BY PagesAssumption DEF Limit

\* A reader who pages to the end, and what is on a page, as the runs check them.
LEMMA SoundWalks ==
    ASSUME PagesTypeOK, WalksSound PROVE NothingShownTwice /\ WalksComplete
<1> SUFFICES ASSUME NEW r \in Readers
             PROVE  /\ walk[r].page \cap walk[r].shown = {}
                    /\ walk[r].step = "respond" /\ walk[r].view # "chat" /\ ~More(walk[r]) =>
                         \A i \in walk[r].due :
                            i \in walk[r].shown \cup walk[r].page \/ TimeOf[i] \in walk[r].cut
  BY Zenon DEF NothingShownTwice, WalksComplete
<1> DEFINE w == walk[r]
<1>1. w \in Walk /\ Sound(w, now, stored, follows)
  BY DEF PagesTypeOK, WalksSound
<1> HIDE DEF w
<1>t. w.page \subseteq Items /\ w.shown \subseteq Items /\ w.due \subseteq Items /\ w.before \in Nat
  BY <1>1 DEF Walk
<1>2. w.page \cap w.shown = {}
  <2>1. CASE w.before = 0
    BY <2>1, <1>1 DEF Sound, Ordered
  <2>2. CASE w.before # 0
    BY <2>2, <1>1, <1>t, Times DEF Sound, Ordered
  <2> QED BY <2>1, <2>2
<1>3. ASSUME w.step = "respond", w.view # "chat", ~More(w), NEW i \in w.due
      PROVE  i \in w.shown \cup w.page \/ TimeOf[i] \in w.cut
  <2>1. \/ w.before # 0 /\ TimeOf[i] >= w.before
        \/ i \in w.page
        \/ Cardinality(w.page) = Limit(w.view)
    BY <1>1, <1>3 DEF Sound, Complete
  <2>2. w.before # 0 /\ TimeOf[i] >= w.before => i \in w.shown \/ TimeOf[i] \in w.cut
    BY <1>1, <1>3 DEF Sound, Covered
  <2>3. Cardinality(w.page) # Limit(w.view)
    <3>1. Cardinality(w.page) \in Nat /\ Cardinality({}) = 0
      BY <1>t, Finite, FS_EmptySet
    <3>2. CASE w.view \in WebViews
      BY <3>1, <3>2, <1>3, PagesAssumption DEF More, Limit
    <3>3. CASE w.view \notin WebViews
      BY <3>1, <3>3, <1>3, PagesAssumption DEF More, Limit
    <3> QED BY <3>2, <3>3
  <2> QED BY <2>1, <2>2, <2>3
<1> QED BY <1>2, <1>3 DEF w

-----------------------------------------------------------------------------
(* Steps of readers.                                                       *)

LEMMA NoWalkSound ==
    /\ NoWalk \in Walk
    /\ \A n, s, f : Sound(NoWalk, n, s, f)
    /\ NoWalk.page = {}
<1>1. (CHOOSE v \in Own : TRUE) \in Own /\ (CHOOSE a \in Authors : TRUE) \in Authors
  BY PagesAssumption DEF Authors
<1>2. NoWalk \in Walk
  BY <1>1, PagesAssumption DEF NoWalk, Walk, Views, FeedViews, WebViews, Steps
<1>3. /\ NoWalk.page = {} /\ NoWalk.unread = {} /\ NoWalk.shown = {} /\ NoWalk.due = {}
      /\ NoWalk.before = 0 /\ NoWalk.step = "idle" /\ NoWalk.view = "home"
  BY DEF NoWalk
<1>4. ASSUME NEW n, NEW s, NEW f PROVE Sound(NoWalk, n, s, f)
  <2>1. Cardinality({}) = 0 /\ PageSize >= 0
    BY FS_EmptySet, PagesAssumption
  <2>2. Paged(NoWalk, s)
    BY <1>3, <2>1 DEF Paged, WebViews
  <2> QED BY <2>2, <1>3 DEF Sound, Ordered, Scoped, Covered, Complete
<1> QED BY <1>2, <1>3, <1>4

\* A step of one reader keeps the others as they are.
LEMMA ReaderStep ==
    ASSUME PagesInv, NEW r \in Readers, NEW c \in Walk, Set(r, c),
           Sound(c, now, stored, follows), UNCHANGED <<now, stored, follows>>
    PROVE  walk' \in [Readers -> Walk] /\ WalksSound'
<1>1. walk \in [Readers -> Walk] /\ walk' = [walk EXCEPT ![r] = c]
  BY DEF PagesInv, PagesTypeOK, Set
<1>2. \A q \in Readers : walk'[q] = IF q = r THEN c ELSE walk[q]
  BY <1>1
<1>3. walk' \in [Readers -> Walk]
  BY <1>1
<1>4. ASSUME NEW q \in Readers PROVE Sound(walk'[q], now', stored', follows')
  <2>1. Sound(walk[q], now, stored, follows)
    BY DEF PagesInv, WalksSound
  <2>2. now' = now /\ stored' = stored /\ follows' = follows
    OBVIOUS
  <2>3. CASE q = r
    BY <2>2, <2>3, <1>2
  <2>4. CASE q # r
    BY <2>1, <2>2, <2>4, <1>2
  <2> QED BY <2>3, <2>4
<1> QED BY <1>3, <1>4 DEF WalksSound

\* Messages are read as before if the reader keeps its page, and its identity, or
\* had no page.
LEMMA MarksStay ==
    ASSUME PagesInv, NEW r \in Readers, NEW c \in Walk, Set(r, c),
           UNCHANGED <<read, history>>,
           walk[r].page = {} \/ (c.page = walk[r].page /\ c.as = walk[r].as)
    PROVE  ReadByAddressee'
<1>1. walk \in [Readers -> Walk] /\ walk' = [walk EXCEPT ![r] = c]
  BY DEF PagesInv, PagesTypeOK, Set
<1>2. \A q \in Readers : walk'[q] = IF q = r THEN c ELSE walk[q]
  BY <1>1
<1>3. read' = read /\ history' = history
  OBVIOUS
<1>4. ASSUME NEW m \in read \cap Messages, NEW q \in Readers, m \in walk[q].page, walk[q].as = To[m]
      PROVE  m \in walk'[q].page /\ walk'[q].as = To[m]
  <2>1. CASE q = r
    BY <2>1, <1>2, <1>4
  <2>2. CASE q # r
    BY <2>2, <1>2, <1>4
  <2> QED BY <2>1, <2>2
<1>5. ReadByAddressee
  BY DEF PagesInv
<1>6. \A n \in read' \cap Notices : To[n] \in history'.asked
  BY <1>3, <1>5 DEF ReadByAddressee
<1>7. ASSUME NEW m \in read' \cap Messages
      PROVE  \/ m \in history'.seen \cup history'.blind
             \/ \E q \in Readers : m \in walk'[q].page /\ walk'[q].as = To[m]
  <2>1. m \in read \cap Messages
    BY <1>3
  <2>2. \/ m \in history.seen \cup history.blind
        \/ \E q \in Readers : m \in walk[q].page /\ walk[q].as = To[m]
    BY <2>1, <1>5 DEF ReadByAddressee
  <2> QED BY <2>1, <2>2, <1>3, <1>4
<1> QED BY <1>6, <1>7 DEF ReadByAddressee

LEMMA OpenStep ==
    ASSUME PagesInv, NEW r \in Readers, NEW view \in Views, NEW v \in Own, NEW peer \in Authors,
           Open(r, view, v, peer)
    PROVE  PagesInv'
<1> DEFINE step == IF view \in {"home", "feed"} THEN "subs" ELSE "query"
           c == [NoWalk EXCEPT !.view = view, !.as = v, !.peer = peer, !.step = step,
                               !.due = Due(view, v, peer)]
<1>0. Set(r, c) /\ walk[r].step = "idle" /\ UNCHANGED <<now, stored, read, follows, history, changes>>
  BY DEF Open
<1>1. NoWalk \in Walk
  BY NoWalkSound
<1>2. /\ NoWalk.page = {} /\ NoWalk.unread = {} /\ NoWalk.shown = {} /\ NoWalk.before = 0
  BY DEF NoWalk
<1>3. step \in {"subs", "query"} /\ (view \in {"home", "feed"} => step = "subs")
  OBVIOUS
<1>i. \A i \in Due(view, v, peer) : i \in Items
  <2>1. Posts \subseteq Items /\ Notices \subseteq Items /\ Messages \subseteq Items
    BY DEF Items
  <2> QED BY <2>1 DEF Due, GetFeed, GetAllPosts, GetNotifications, GetConversation
<1> HIDE DEF step
<1>4. /\ c \in Walk /\ c.view = view /\ c.as = v /\ c.peer = peer /\ c.step = step
      /\ c.due = Due(view, v, peer) /\ c.page = {} /\ c.unread = {} /\ c.shown = {} /\ c.before = 0
  BY <1>1, <1>2, <1>3, <1>i DEF Walk, Steps
<1> HIDE DEF c
<1>5. Sound(c, now, stored, follows)
  <2>1. Cardinality({}) = 0 /\ PageSize >= 0
    BY FS_EmptySet, PagesAssumption
  <2>2. Paged(c, stored)
    BY <1>4, <1>3, <2>1 DEF Paged, Empty
  <2>3. ASSUME NEW i \in Due(view, v, peer)
        PROVE  /\ i \in stored /\ TimeOf[i] <= now
               /\ view \in FeedViews => i \in Posts
               /\ view \in {"home", "feed"} => <<v, By[i]>> \in follows \/ By[i] = v
               /\ view \in {"author", "user"} => By[i] = peer
               /\ view = "notes" => i \in Notices /\ To[i] = v
               /\ view \in {"chat", "talk"} => i \in Messages /\ {By[i], To[i]} = {v, peer}
    BY <2>3 DEF Due, GetFeed, GetAllPosts, GetNotifications, GetConversation, Below, Followed,
                FeedViews, WebViews, Views
  <2>4. Scoped(c, now, stored, follows)
    BY <2>3, <1>3, <1>4 DEF Scoped
  <2> QED BY <2>2, <2>4, <1>3, <1>4 DEF Sound, Ordered, Covered, Complete
<1>6. walk[r].page = {}
  BY <1>0 DEF PagesInv, WalksSound, Sound, Paged, Empty
<1>7. walk' \in [Readers -> Walk] /\ WalksSound'
  BY <1>0, <1>4, <1>5, ReaderStep
<1>8. ReadByAddressee'
  BY <1>0, <1>4, <1>6, MarksStay
<1> QED BY <1>0, <1>7, <1>8 DEF PagesInv, PagesTypeOK

LEMMA GetSubscriptionsStep ==
    ASSUME PagesInv, NEW r \in Readers, GetSubscriptions(r) PROVE PagesInv'
<1> DEFINE w == walk[r]
           c == [w EXCEPT !.authors = Followed(w.as) \cup {w.as}, !.step = "query"]
<1>0. Set(r, c) /\ w.step = "subs" /\ UNCHANGED <<now, stored, read, follows, history, changes>>
  BY DEF GetSubscriptions, At
<1>1. w \in Walk /\ Sound(w, now, stored, follows)
  BY DEF PagesInv, PagesTypeOK, WalksSound
<1> HIDE DEF w
<1>2. Followed(w.as) \cup {w.as} \in SUBSET Authors
  BY <1>1 DEF Walk, Followed, Authors
<1>3. /\ c \in Walk /\ c.step = "query" /\ c.authors = Followed(w.as) \cup {w.as}
      /\ c.view = w.view /\ c.as = w.as /\ c.peer = w.peer /\ c.before = w.before /\ c.page = w.page
      /\ c.unread = w.unread /\ c.shown = w.shown /\ c.due = w.due /\ c.cut = w.cut
  BY <1>1, <1>2 DEF Walk, Steps
<1> HIDE DEF c
<1>4. Sound(c, now, stored, follows)
  <2>1. Paged(c, stored)
    BY <1>0, <1>1, <1>3 DEF Sound, Paged, Empty
  <2>2. Ordered(c) /\ Covered(c) /\ Complete(c)
    BY <1>1, <1>3 DEF Sound, Ordered, Covered, Complete
  <2>3. \A i \in w.due : i \in Items
    BY <1>1 DEF Walk
  <2>4. \A i \in w.due : By[i] \in Authors
    BY <2>3 DEF Authors
  <2>5. Scoped(c, now, stored, follows)
    BY <1>1, <1>3, <2>4 DEF Sound, Scoped, Followed
  <2> QED BY <2>1, <2>2, <2>5 DEF Sound
<1>5. w.page = {}
  BY <1>0, <1>1 DEF Sound, Paged, Empty
<1>7. walk' \in [Readers -> Walk] /\ WalksSound'
  BY <1>0, <1>3, <1>4, ReaderStep
<1>8. ReadByAddressee'
  BY <1>0, <1>3, <1>5, MarksStay DEF w
<1> QED BY <1>0, <1>7, <1>8 DEF PagesInv, PagesTypeOK

\* The entries a query of a walk returns are below the cursor, and what is due
\* below the cursor is among them.
LEMMA RowsOfWalk ==
    ASSUME NEW w \in Walk, w.step = "query", Scoped(w, now, stored, follows), PagesTypeOK
    PROVE  /\ Rows(w) \subseteq Below(w.before)
           /\ Rows(w) \subseteq Items
           /\ w.view \notin {"chat", "talk"} => Rows(w) \cap Messages = {}
           /\ \A i \in w.due : (w.before = 0 \/ TimeOf[i] < w.before) => i \in Rows(w)
<1>1. /\ w.view \in Views /\ w.before \in 0 .. MaxTime /\ w.due \subseteq Items
  BY DEF Walk
<1>2. Posts \cap Messages = {} /\ Messages \cap Notices = {} /\ Posts \subseteq Items /\ Notices \subseteq Items /\ Messages \subseteq Items
  BY PagesAssumption DEF Items
<1>3. Rows(w) \subseteq Below(w.before) /\ Rows(w) \subseteq Items
  BY <1>2 DEF Rows, GetFeed, GetAllPosts, GetNotifications, GetConversation
<1>4. w.view \notin {"chat", "talk"} => Rows(w) \cap Messages = {}
  BY <1>1, <1>2 DEF Rows, GetFeed, GetAllPosts, GetNotifications, Views, FeedViews, WebViews
<1>5. ASSUME NEW i \in w.due, w.before = 0 \/ TimeOf[i] < w.before PROVE i \in Rows(w)
  <2>1. i \in Below(w.before)
    BY <1>5 DEF Scoped, Below
  <2>2. CASE w.view \in {"home", "feed"}
    BY <2>1, <2>2, <1>5 DEF Scoped, Rows, GetFeed, FeedViews, WebViews
  <2>3. CASE w.view = "all"
    BY <2>1, <2>3, <1>5 DEF Scoped, Rows, GetAllPosts, FeedViews, WebViews
  <2>4. CASE w.view \in {"author", "user"}
    BY <2>1, <2>4, <1>5 DEF Scoped, Rows, GetFeed, FeedViews, WebViews
  <2>5. CASE w.view = "notes"
    BY <2>1, <2>5, <1>5 DEF Scoped, Rows, GetNotifications
  <2>6. CASE w.view \in {"chat", "talk"}
    BY <2>1, <2>6, <1>5 DEF Scoped, Rows, GetConversation
  <2> QED BY <1>1, <2>2, <2>3, <2>4, <2>5, <2>6 DEF Views, FeedViews, WebViews
<1> QED BY <1>3, <1>4, <1>5

\* A page that a query returned is sound.
LEMMA PageSound ==
    ASSUME NEW w \in Walk, NEW c \in Walk, PagesTypeOK, Sound(w, now, stored, follows),
           NEW rows \in SUBSET Items, rows \subseteq Below(w.before), rows \subseteq stored,
           \A i \in w.due : (w.before = 0 \/ TimeOf[i] < w.before) => i \in rows,
           c.page \in Newest(rows, Limit(c.view)),
           c.view \in WebViews => rows \cap Messages = {},
           c.unread \subseteq {m \in c.page \cap Messages : To[m] = c.as},
           c.step # "mark" => c.unread = {},
           c.step = "global" => c.view = "home",
           c.step \in {"global", "mark", "respond"},
           c.step = "global" => c.page = {},
           c.before = w.before, c.shown = w.shown, c.due = w.due, c.cut = w.cut,
           Scoped(c, now, stored, follows)
    PROVE  Sound(c, now, stored, follows)
<1>1. /\ c.page \subseteq rows
      /\ Cardinality(c.page) <= Limit(c.view)
      /\ \A i \in rows : \/ i \in c.page
                         \/ Cardinality(c.page) = Limit(c.view) /\ \A j \in c.page : TimeOf[i] <= TimeOf[j]
  <2>1. Limit(c.view) \in Nat
    BY LimitType
  <2> QED BY <2>1, NewestPages
<1>2. Paged(c, stored)
  BY <1>1 DEF Paged, Empty, Limit
<1>3. Ordered(c)
  <2>1. \A i \in c.page : w.before # 0 => TimeOf[i] < w.before
    BY <1>1 DEF Below
  <2> QED BY <2>1 DEF Sound, Ordered
<1>4. Covered(c)
  BY DEF Sound, Covered
<1>5. Complete(c)
  <2> SUFFICES ASSUME NEW i \in w.due, ~(w.before # 0 /\ TimeOf[i] >= w.before)
               PROVE  \/ i \in c.page
                      \/ /\ Cardinality(c.page) = Limit(c.view)
                         /\ \A j \in c.page : TimeOf[i] <= TimeOf[j]
    BY DEF Complete
  <2>1. i \in Items /\ w.before \in Nat
    BY DEF Walk
  <2>2. w.before = 0 \/ TimeOf[i] < w.before
    BY <2>1, Times
  <2>3. i \in rows
    BY <2>2
  <2> QED BY <2>3, <1>1
<1> QED BY <1>2, <1>3, <1>4, <1>5 DEF Sound

LEMMA QueryStep ==
    ASSUME PagesInv, NEW r \in Readers, Query(r) PROVE PagesInv'
<1> DEFINE w == walk[r]
           Step(p) == CASE w.view = "home" /\ p = {} -> "global"
                        [] w.view \in {"chat", "talk"} -> "mark"
                        [] OTHER -> "respond"
           C(p) == [w EXCEPT !.page = p, !.step = Step(p), !.unread = Unread(w.as, p)]
<1>0. PICK p \in Newest(Rows(w), Limit(w.view)) : Set(r, C(p))
  BY DEF Query
<1>u. w.step = "query" /\ UNCHANGED <<now, stored, read, follows, history, changes>>
  BY DEF Query, At
<1>1. w \in Walk /\ Sound(w, now, stored, follows)
  BY DEF PagesInv, PagesTypeOK, WalksSound
<1> HIDE DEF w
<1>2. /\ Rows(w) \subseteq Below(w.before) /\ Rows(w) \subseteq Items
      /\ w.view \notin {"chat", "talk"} => Rows(w) \cap Messages = {}
      /\ \A i \in w.due : (w.before = 0 \/ TimeOf[i] < w.before) => i \in Rows(w)
  BY <1>1, <1>u, RowsOfWalk DEF Sound, PagesInv
<1>3. p \in SUBSET Items /\ p \subseteq Rows(w)
  BY <1>2 DEF Newest
<1>4. /\ Step(p) \in {"global", "mark", "respond"}
      /\ Step(p) = "global" => w.view = "home" /\ p = {}
      /\ Step(p) # "mark" => w.view \notin {"chat", "talk"}
  OBVIOUS
<1>5. Unread(w.as, p) \subseteq {m \in p \cap Messages : To[m] = w.as}
  BY DEF Unread
<1> DEFINE c == C(p)
<1> HIDE DEF Step
<1>6. /\ c \in Walk /\ c.page = p /\ c.step = Step(p) /\ c.unread = Unread(w.as, p)
      /\ c.view = w.view /\ c.as = w.as /\ c.peer = w.peer /\ c.before = w.before
      /\ c.shown = w.shown /\ c.due = w.due /\ c.cut = w.cut
  BY <1>1, <1>3, <1>4, <1>5 DEF Walk, Steps
<1>s. Set(r, c)
  BY <1>0
<1> HIDE DEF c, C
<1>7. Scoped(c, now, stored, follows)
  <2>1. c.step # "query"
    BY <1>4, <1>6
  <2> QED BY <1>1, <1>6, <2>1 DEF Sound, Scoped
<1>8. Sound(c, now, stored, follows)
  <2>1. Rows(w) \subseteq stored
    BY <1>2 DEF Below
  <2>2. c.page \in Newest(Rows(w), Limit(c.view))
    BY <1>6
  <2>3. c.unread \subseteq {m \in c.page \cap Messages : To[m] = c.as}
    BY <1>5, <1>6
  <2>4. c.step \in {"global", "mark", "respond"} /\ (c.step = "global" => c.view = "home" /\ c.page = {})
    BY <1>4, <1>6
  <2>5. PagesTypeOK
    BY DEF PagesInv
  <2>6. c.step # "mark" => c.unread = {}
    BY <1>2, <1>3, <1>4, <1>5, <1>6
  <2>7. c.view \in WebViews => Rows(w) \cap Messages = {}
    BY <1>2, <1>6 DEF WebViews
  <2> QED BY <1>1, <1>2, <1>6, <1>7, <2>1, <2>2, <2>3, <2>4, <2>5, <2>6, <2>7, PageSound
<1>9. w.page = {}
  BY <1>1, <1>u DEF Sound, Paged, Empty
<1>10. walk' \in [Readers -> Walk] /\ WalksSound'
  BY <1>s, <1>u, <1>6, <1>8, ReaderStep
<1>11. ReadByAddressee'
  BY <1>s, <1>u, <1>6, <1>9, MarksStay DEF w
<1> QED BY <1>u, <1>10, <1>11 DEF PagesInv, PagesTypeOK

LEMMA QueryAllStep ==
    ASSUME PagesInv, NEW r \in Readers, QueryAll(r) PROVE PagesInv'
<1> DEFINE w == walk[r]
           C(p) == [w EXCEPT !.view = "all", !.page = p, !.step = "respond"]
           rows == GetAllPosts(w.before)
<1>0. PICK p \in Newest(rows, Limit("all")) : Set(r, C(p))
  BY DEF QueryAll
<1>u. w.step = "global" /\ w.view = "home" /\ UNCHANGED <<now, stored, read, follows, history, changes>>
  BY DEF QueryAll, At
<1>1. w \in Walk /\ Sound(w, now, stored, follows) /\ PagesTypeOK
  BY DEF PagesInv, PagesTypeOK, WalksSound
<1> HIDE DEF w
<1>2. rows \subseteq Below(w.before) /\ rows \subseteq Items /\ rows \cap Messages = {} /\ rows \subseteq stored
  BY PagesAssumption DEF GetAllPosts, Items, Below
<1>3. \A i \in w.due : (w.before = 0 \/ TimeOf[i] < w.before) => i \in rows
  BY <1>1, <1>u DEF Sound, Scoped, Below, GetAllPosts, FeedViews, WebViews
<1> HIDE DEF rows
<1>4. p \in SUBSET Items
  BY <1>2 DEF Newest
<1> DEFINE c == C(p)
<1>6. /\ c \in Walk /\ c.page = p /\ c.step = "respond" /\ c.unread = w.unread
      /\ c.view = "all" /\ c.as = w.as /\ c.peer = w.peer /\ c.before = w.before
      /\ c.shown = w.shown /\ c.due = w.due /\ c.cut = w.cut
  BY <1>1, <1>4 DEF Walk, Steps, Views, FeedViews, WebViews
<1>s. Set(r, c)
  BY <1>0
<1> HIDE DEF c, C
<1>7. Scoped(c, now, stored, follows)
  BY <1>1, <1>u, <1>6 DEF Sound, Scoped, FeedViews, WebViews
<1>8. w.page = {} /\ w.unread = {}
  BY <1>1, <1>u DEF Sound, Paged, Empty
<1>9. Sound(c, now, stored, follows)
  <2>1. c.page \in Newest(rows, Limit(c.view))
    BY <1>6
  <2>2. c.unread \subseteq {m \in c.page \cap Messages : To[m] = c.as}
    BY <1>8, <1>6
  <2>3. c.step \in {"global", "mark", "respond"} /\ c.step # "global" /\ c.unread = {}
    BY <1>6, <1>8
  <2> QED BY <1>1, <1>2, <1>3, <1>6, <1>7, <2>1, <2>2, <2>3, PageSound
<1>10. walk' \in [Readers -> Walk] /\ WalksSound'
  BY <1>s, <1>u, <1>6, <1>9, ReaderStep
<1>11. ReadByAddressee'
  BY <1>s, <1>u, <1>6, <1>8, MarksStay DEF w
<1> QED BY <1>u, <1>10, <1>11 DEF PagesInv, PagesTypeOK

\* What a reader that stays where it is, but for its step and its unread messages,
\* needs to remain sound.
LEMMA SameWalk ==
    ASSUME NEW w \in Walk, NEW c \in Walk, Sound(w, now, stored, follows),
           c.view = w.view, c.as = w.as, c.peer = w.peer, c.before = w.before, c.page = w.page,
           c.shown = w.shown, c.due = w.due, c.cut = w.cut, c.authors = w.authors,
           c.unread \subseteq w.unread, c.step # "mark" => c.unread = {},
           \/ w.step = "mark" /\ c.step \in {"mark", "respond"}
           \/ /\ w.step = "offered"
              /\ c.step = IF w.view \in {"home", "feed"} THEN "subs" ELSE "query"
    PROVE  Sound(c, now, stored, follows)
<1>1. Paged(c, stored)
  BY DEF Sound, Paged, Empty
<1>2. Ordered(c) /\ Covered(c)
  BY DEF Sound, Ordered, Covered
<1>3. Scoped(c, now, stored, follows)
  <2>1. ~(c.view \in {"home", "feed"} /\ c.step = "query")
    OBVIOUS
  <2> QED BY <2>1 DEF Sound, Scoped
<1>4. Complete(c)
  BY DEF Sound, Complete
<1> QED BY <1>1, <1>2, <1>3, <1>4 DEF Sound

LEMMA MarkDMReadStep ==
    ASSUME PagesInv, NEW r \in Readers, MarkDMRead(r) PROVE PagesInv'
<1> DEFINE w == walk[r]
           C(m) == [w EXCEPT !.unread = @ \ {m}]
<1>0. PICK m \in w.unread : read' = read \cup {m} /\ Set(r, C(m))
  BY DEF MarkDMRead
<1>u. w.step = "mark" /\ UNCHANGED <<now, stored, follows, history, changes>>
  BY DEF MarkDMRead, At
<1>1. w \in Walk /\ Sound(w, now, stored, follows)
  BY DEF PagesInv, PagesTypeOK, WalksSound
<1> HIDE DEF w
<1> DEFINE c == C(m)
<1>2. /\ c \in Walk /\ c.unread = w.unread \ {m} /\ c.step = w.step /\ c.authors = w.authors
      /\ c.view = w.view /\ c.as = w.as /\ c.peer = w.peer /\ c.before = w.before /\ c.page = w.page
      /\ c.shown = w.shown /\ c.due = w.due /\ c.cut = w.cut
  BY <1>1 DEF Walk
<1>s. Set(r, c)
  BY <1>0
<1> HIDE DEF c, C
<1>3. Sound(c, now, stored, follows)
  <2>1. c.unread \subseteq w.unread /\ c.step \in {"mark", "respond"}
    BY <1>2, <1>u
  <2>2. c.step = "mark"
    BY <1>2, <1>u
  <2> QED BY <1>1, <1>2, <1>u, <2>1, <2>2, SameWalk
<1>4. walk' \in [Readers -> Walk] /\ WalksSound'
  BY <1>s, <1>u, <1>2, <1>3, ReaderStep
<1>5. m \in Messages /\ m \in w.page /\ To[m] = w.as /\ m \in stored
  BY <1>1 DEF Sound, Paged
<1>6. read' \subseteq stored'
  BY <1>0, <1>5, <1>u DEF PagesInv, PagesTypeOK
<1>7. ReadByAddressee'
  <2>1. walk \in [Readers -> Walk] /\ walk' = [walk EXCEPT ![r] = c] /\ history' = history
    BY <1>s, <1>u DEF PagesInv, PagesTypeOK, Set
  <2>2. \A q \in Readers : walk'[q].page = walk[q].page /\ walk'[q].as = walk[q].as
    BY <2>1, <1>2 DEF w
  <2>3. walk'[r].page = w.page /\ walk'[r].as = w.as
    BY <2>2 DEF w
  <2>4. m \notin Notices
    BY <1>5, PagesAssumption
  <2>5. ReadByAddressee
    BY DEF PagesInv
  <2>6. \A n \in read' \cap Notices : To[n] \in history'.asked
    BY <2>1, <2>4, <2>5, <1>0 DEF ReadByAddressee
  <2>7. ASSUME NEW k \in read' \cap Messages
        PROVE  \/ k \in history'.seen \cup history'.blind
               \/ \E q \in Readers : k \in walk'[q].page /\ walk'[q].as = To[k]
    <3>1. CASE k = m
      BY <3>1, <2>3, <1>5
    <3>2. CASE k # m
      <4>1. k \in read \cap Messages
        BY <3>2, <1>0
      <4>2. \/ k \in history.seen \cup history.blind
            \/ \E q \in Readers : k \in walk[q].page /\ walk[q].as = To[k]
        BY <4>1, <2>5 DEF ReadByAddressee
      <4> QED BY <4>2, <2>1, <2>2
    <3> QED BY <3>1, <3>2
  <2> QED BY <2>6, <2>7 DEF ReadByAddressee
<1> QED BY <1>u, <1>4, <1>6, <1>7 DEF PagesInv, PagesTypeOK

LEMMA MarkFailsStep ==
    ASSUME PagesInv, NEW r \in Readers, MarkFails(r) PROVE PagesInv'
<1> DEFINE w == walk[r]
           C(m) == [w EXCEPT !.unread = @ \ {m}]
<1>u. /\ w.step = "mark" /\ UNCHANGED <<now, stored, read, follows>>
      /\ changes' \in 0 .. MaxChanges
  BY PagesAssumption DEF MarkFails, At, Changed, PagesInv, PagesTypeOK
<1>0. PICK m \in w.unread :
          \/ w.view = "chat" /\ Set(r, C(m)) /\ history' = history
          \/ /\ w.view = "talk" /\ Set(r, NoWalk)
             /\ history' = [history EXCEPT !.blind = @ \cup (w.page \cap read)]
  BY DEF MarkFails
<1>1. w \in Walk /\ Sound(w, now, stored, follows)
  BY DEF PagesInv, PagesTypeOK, WalksSound
<1>h. history \in [asked : SUBSET Own, seen : SUBSET Messages, blind : SUBSET Items]
  BY DEF PagesInv, PagesTypeOK
<1>2. CASE w.view = "chat" /\ Set(r, C(m)) /\ history' = history
  <2> HIDE DEF w
  <2> DEFINE c == C(m)
  <2>2. /\ c \in Walk /\ c.unread = w.unread \ {m} /\ c.step = w.step /\ c.authors = w.authors
        /\ c.view = w.view /\ c.as = w.as /\ c.peer = w.peer /\ c.before = w.before /\ c.page = w.page
        /\ c.shown = w.shown /\ c.due = w.due /\ c.cut = w.cut
    BY <1>1 DEF Walk
  <2>s. Set(r, c)
    BY <1>2
  <2> HIDE DEF c, C
  <2>3. Sound(c, now, stored, follows)
    <3>1. c.unread \subseteq w.unread /\ c.step \in {"mark", "respond"}
      BY <2>2, <1>u
    <3>2. c.step = "mark"
      BY <2>2, <1>u
    <3> QED BY <1>1, <2>2, <1>u, <3>1, <3>2, SameWalk
  <2>4. walk' \in [Readers -> Walk] /\ WalksSound'
    BY <2>s, <1>u, <2>2, <2>3, ReaderStep
  <2>5. ReadByAddressee'
    BY <2>s, <1>u, <1>2, <2>2, MarksStay DEF w
  <2> QED BY <1>u, <1>2, <1>h, <2>4, <2>5 DEF PagesInv, PagesTypeOK
<1>3. CASE /\ w.view = "talk" /\ Set(r, NoWalk)
           /\ history' = [history EXCEPT !.blind = @ \cup (w.page \cap read)]
  <2>1. walk' \in [Readers -> Walk] /\ WalksSound'
    BY <1>u, <1>3, NoWalkSound, ReaderStep
  <2>2. /\ history' \in [asked : SUBSET Own, seen : SUBSET Messages, blind : SUBSET Items]
        /\ history'.asked = history.asked /\ history'.seen = history.seen
        /\ history'.blind = history.blind \cup (w.page \cap read)
    BY <1>3, <1>h, <1>1 DEF Walk
  <2>3. \A q \in Readers : q # r => walk'[q] = walk[q]
    BY <1>3 DEF Set, PagesInv, PagesTypeOK
  <2>4. ReadByAddressee /\ read' = read
    BY <1>u DEF PagesInv
  <2>5. \A n \in read' \cap Notices : To[n] \in history'.asked
    BY <2>2, <2>4 DEF ReadByAddressee
  <2>6. ASSUME NEW k \in read' \cap Messages
        PROVE  \/ k \in history'.seen \cup history'.blind
               \/ \E q \in Readers : k \in walk'[q].page /\ walk'[q].as = To[k]
    <3>1. \/ k \in history.seen \cup history.blind
          \/ \E q \in Readers : k \in walk[q].page /\ walk[q].as = To[k]
      BY <2>4 DEF ReadByAddressee
    <3>2. CASE k \in history.seen \cup history.blind
      BY <3>2, <2>2
    <3>3. CASE \E q \in Readers : k \in walk[q].page /\ walk[q].as = To[k]
      <4>1. PICK q \in Readers : k \in walk[q].page /\ walk[q].as = To[k]
        BY <3>3
      <4>2. CASE q = r
        BY <4>1, <4>2, <2>2, <2>4
      <4>3. CASE q # r
        BY <4>1, <4>3, <2>3
      <4> QED BY <4>2, <4>3
    <3> QED BY <3>1, <3>2, <3>3
  <2>7. ReadByAddressee'
    BY <2>5, <2>6 DEF ReadByAddressee
  <2> QED BY <1>u, <2>1, <2>2, <2>7 DEF PagesInv, PagesTypeOK
<1> QED BY <1>0, <1>2, <1>3

LEMMA MoveStep ==
    ASSUME PagesInv, NEW r \in Readers, Marked(r) \/ LoadMore(r) PROVE PagesInv'
<1> DEFINE w == walk[r]
           step == IF w.step = "mark" THEN "respond"
                   ELSE IF w.view \in {"home", "feed"} THEN "subs" ELSE "query"
           c == [w EXCEPT !.step = step]
<1>0. /\ w.step \in {"mark", "offered"} /\ Set(r, c)
      /\ UNCHANGED <<now, stored, read, follows, history, changes>>
  BY DEF Marked, LoadMore, At
<1>n. w.step = "mark" => w.unread = {}
  BY DEF Marked, LoadMore, At
<1>1. w \in Walk /\ Sound(w, now, stored, follows)
  BY DEF PagesInv, PagesTypeOK, WalksSound
<1> HIDE DEF w
<1>2. /\ c \in Walk /\ c.unread = w.unread /\ c.step = step /\ c.authors = w.authors
      /\ c.view = w.view /\ c.as = w.as /\ c.peer = w.peer /\ c.before = w.before /\ c.page = w.page
      /\ c.shown = w.shown /\ c.due = w.due /\ c.cut = w.cut
  BY <1>1 DEF Walk, Steps
<1> HIDE DEF c
<1>3. Sound(c, now, stored, follows)
  <2>1. c.unread \subseteq w.unread /\ c.unread = {}
    BY <1>1, <1>2, <1>n DEF Sound, Paged
  <2>2. \/ w.step = "mark" /\ c.step \in {"mark", "respond"}
        \/ /\ w.step = "offered"
           /\ c.step = IF w.view \in {"home", "feed"} THEN "subs" ELSE "query"
    BY <1>0, <1>2
  <2> QED BY <1>1, <1>2, <2>1, <2>2, SameWalk
<1>4. walk' \in [Readers -> Walk] /\ WalksSound'
  BY <1>0, <1>2, <1>3, ReaderStep
<1>5. ReadByAddressee'
  BY <1>0, <1>2, MarksStay DEF w
<1> QED BY <1>0, <1>4, <1>5 DEF PagesInv, PagesTypeOK

\* A reader that leaves, or gets an error instead of a page, had no page.
LEMMA LeaveStep ==
    ASSUME PagesInv, NEW r \in Readers, Leave(r) \/ QueryFails(r) PROVE PagesInv'
<1>0. /\ walk[r].step \in Empty /\ Set(r, NoWalk) /\ changes' \in 0 .. MaxChanges
      /\ UNCHANGED <<now, stored, read, follows, history>>
  BY PagesAssumption DEF Leave, QueryFails, At, Empty, Changed, PagesInv, PagesTypeOK
<1>1. walk[r].page = {}
  BY <1>0 DEF PagesInv, WalksSound, Sound, Paged
<1>2. walk' \in [Readers -> Walk] /\ WalksSound'
  BY <1>0, NoWalkSound, ReaderStep
<1>3. ReadByAddressee'
  BY <1>0, <1>1, NoWalkSound, MarksStay
<1> QED BY <1>0, <1>2, <1>3 DEF PagesInv, PagesTypeOK

\* The next cursor leaves above it what was sent, and what is due and was neither
\* sent nor left below it carries its very time.
LEMMA NextPageSound ==
    ASSUME NEW w \in Walk, NEW c \in Walk, Sound(w, now, stored, follows), w.step = "respond",
           NEW sent \in Newest(w.page, PageSize), NEW t \in Cursor(sent),
           c.view = w.view, c.as = w.as, c.peer = w.peer, c.before = t, c.page = {},
           c.unread = {}, c.step = "offered",
           c.shown = w.shown \cup sent, c.due = w.due, c.cut = w.cut \cup {t}
    PROVE  Sound(c, now, stored, follows)
<1>1. PICK j \in sent : t = TimeOf[j] /\ \A k \in sent : TimeOf[j] <= TimeOf[k]
  BY DEF Cursor
<1>2. /\ sent \subseteq w.page /\ w.page \subseteq Items /\ w.shown \subseteq Items
      /\ w.due \subseteq Items /\ w.before \in Nat
      /\ \A i \in w.page \ sent, k \in sent : TimeOf[i] <= TimeOf[k]
  BY DEF Newest, Walk
<1>3. j \in w.page /\ j \in Items /\ t \in Nat /\ t # 0
  BY <1>1, <1>2, Times
<1>4. Paged(c, stored)
  <2>1. Cardinality({}) = 0 /\ PageSize >= 0
    BY FS_EmptySet, PagesAssumption
  <2> QED BY <2>1 DEF Paged
<1>5. Ordered(c)
  <2>1. ASSUME NEW i \in w.shown PROVE TimeOf[i] >= t
    <3>1. w.before # 0 /\ TimeOf[i] >= w.before /\ TimeOf[j] < w.before
      BY <1>3 DEF Sound, Ordered
    <3> QED BY <3>1, <1>1, <1>2, <1>3, Times
  <2>2. ASSUME NEW i \in sent PROVE TimeOf[i] >= t
    BY <1>1, <1>2, <1>3, Times
  <2> QED BY <2>1, <2>2, <1>3 DEF Ordered
<1>6. Scoped(c, now, stored, follows)
  BY DEF Sound, Scoped
<1>7. Covered(c)
  <2> SUFFICES ASSUME NEW i \in w.due, TimeOf[i] >= t
               PROVE  i \in w.shown \cup sent \/ TimeOf[i] \in w.cut \cup {t}
    BY DEF Covered
  <2>1. TimeOf[i] \in Nat
    BY <1>2, Times
  <2>2. CASE w.before # 0 /\ TimeOf[i] >= w.before
    BY <2>2 DEF Sound, Covered
  <2>3. CASE i \in w.page
    <3>1. CASE i \in sent
      BY <3>1
    <3>2. CASE i \notin sent
      <4>1. TimeOf[i] <= TimeOf[j]
        BY <3>2, <2>3, <1>2
      <4>2. TimeOf[i] = t
        BY <4>1, <2>1, <1>1, <1>3
      <4> QED BY <4>2
    <3> QED BY <3>1, <3>2
  <2>4. CASE \A k \in w.page : TimeOf[i] <= TimeOf[k]
    <3>1. TimeOf[i] <= TimeOf[j]
      BY <2>4, <1>3
    <3>2. TimeOf[i] = t
      BY <3>1, <2>1, <1>1, <1>3
    <3> QED BY <3>2
  <2> QED BY <2>2, <2>3, <2>4 DEF Sound, Complete
<1>8. Complete(c)
  BY DEF Complete
<1> QED BY <1>4, <1>5, <1>6, <1>7, <1>8 DEF Sound

LEMMA RespondStep ==
    ASSUME PagesInv, NEW r \in Readers, Respond(r) PROVE PagesInv'
<1> DEFINE w == walk[r]
           Unseen(sent) == {m \in sent \cap Messages : To[m] = w.as}
           C(sent, t) == [w EXCEPT !.shown = @ \cup sent, !.before = t,
                                   !.cut = @ \cup {t}, !.page = {}, !.step = "offered"]
<1>u. w.step = "respond" /\ UNCHANGED <<now, stored, read, follows, changes>>
  BY DEF Respond, At
<1>0. PICK sent \in Newest(w.page, PageSize) :
         /\ \/ \E t \in Cursor(sent) : Set(r, C(sent, t))
            \/ Set(r, NoWalk)
         /\ history' = [history EXCEPT !.seen = @ \cup Unseen(sent)]
  BY DEF Respond
<1>1. w \in Walk /\ Sound(w, now, stored, follows)
  BY DEF PagesInv, PagesTypeOK, WalksSound
<1>h. history \in [asked : SUBSET Own, seen : SUBSET Messages, blind : SUBSET Items]
  BY DEF PagesInv, PagesTypeOK
<1>2. /\ history' \in [asked : SUBSET Own, seen : SUBSET Messages, blind : SUBSET Items]
      /\ history'.asked = history.asked /\ history'.seen = history.seen \cup Unseen(sent)
      /\ history'.blind = history.blind
  BY <1>0, <1>h
<1>3. walk' \in [Readers -> Walk] /\ WalksSound' /\ \E c \in Walk : Set(r, c)
  <2>1. CASE \E t \in Cursor(sent) : Set(r, C(sent, t))
    <3>1. PICK t \in Cursor(sent) : Set(r, C(sent, t))
      BY <2>1
    <3> HIDE DEF w
    <3> DEFINE c == C(sent, t)
    <3>2. sent \subseteq Items /\ t \in 1 .. MaxTime
      BY <1>1, Times DEF Newest, Cursor, Walk
    <3>3. /\ c \in Walk /\ c.view = w.view /\ c.as = w.as /\ c.peer = w.peer /\ c.before = t
          /\ c.page = {} /\ c.unread = w.unread /\ c.step = "offered"
          /\ c.shown = w.shown \cup sent /\ c.due = w.due /\ c.cut = w.cut \cup {t}
      <4>1. /\ w.shown \cup sent \in SUBSET Items /\ w.cut \cup {t} \in SUBSET (1 .. MaxTime)
            /\ t \in 0 .. MaxTime /\ {} \in SUBSET Items /\ "offered" \in Steps
        BY <1>1, <3>2, PagesAssumption DEF Walk, Steps
      <4> QED BY <1>1, <4>1 DEF Walk
    <3>s. Set(r, c)
      BY <3>1
    <3> HIDE DEF c, C
    <3>4. w.unread = {}
      BY <1>1, <1>u DEF Sound, Paged
    <3>5. Sound(c, now, stored, follows)
      BY <1>1, <1>u, <3>3, <3>4, NextPageSound
    <3> QED BY <1>u, <3>s, <3>3, <3>5, ReaderStep
  <2>2. CASE Set(r, NoWalk)
    BY <2>2, <1>u, NoWalkSound, ReaderStep
  <2> QED BY <2>1, <2>2, <1>0
<1>4. \A m \in w.page \cap Messages : m \in sent
  <2>1. CASE w.view \in WebViews
    BY <2>1, <1>1 DEF Sound, Paged
  <2>2. CASE w.view \notin WebViews
    <3>1. Cardinality(w.page) <= PageSize
      BY <2>2, <1>1 DEF Sound, Paged
    <3>2. IsFiniteSet(w.page) /\ Cardinality(w.page) \in Nat
      BY <1>1, Finite DEF Walk
    <3>3. sent \subseteq w.page /\ Cardinality(sent) = Cardinality(w.page)
      BY <3>1, <3>2, PagesAssumption DEF Newest
    <3> QED BY <3>2, <3>3, FS_Subset
  <2> QED BY <2>1, <2>2
<1>5. ReadByAddressee'
  <2>1. \A q \in Readers : q # r => walk'[q] = walk[q]
    BY <1>3 DEF Set, PagesInv, PagesTypeOK
  <2>2. ReadByAddressee /\ read' = read
    BY <1>u DEF PagesInv
  <2>3. \A n \in read' \cap Notices : To[n] \in history'.asked
    BY <2>2, <1>2 DEF ReadByAddressee
  <2>4. ASSUME NEW k \in read' \cap Messages
        PROVE  \/ k \in history'.seen \cup history'.blind
               \/ \E q \in Readers : k \in walk'[q].page /\ walk'[q].as = To[k]
    <3>1. \/ k \in history.seen \cup history.blind
          \/ \E q \in Readers : k \in walk[q].page /\ walk[q].as = To[k]
      BY <2>2 DEF ReadByAddressee
    <3>2. CASE k \in history.seen \cup history.blind
      BY <3>2, <1>2
    <3>3. CASE \E q \in Readers : k \in walk[q].page /\ walk[q].as = To[k]
      <4>1. PICK q \in Readers : k \in walk[q].page /\ walk[q].as = To[k]
        BY <3>3
      <4>2. CASE q = r
        <5>1. k \in Unseen(sent)
          BY <4>1, <4>2, <1>4
        <5> QED BY <5>1, <1>2
      <4>3. CASE q # r
        BY <4>1, <4>3, <2>1
      <4> QED BY <4>2, <4>3
    <3> QED BY <3>1, <3>2, <3>3
  <2> QED BY <2>3, <2>4 DEF ReadByAddressee
<1> QED BY <1>u, <1>2, <1>3, <1>5 DEF PagesInv, PagesTypeOK

-----------------------------------------------------------------------------
(* What changes under the readers.                                         *)

\* More rows, a later clock and more follows disturb no reader.
LEMMA WorldGrows ==
    ASSUME PagesInv, walk' = walk, now <= now', now' \in Nat, stored \subseteq stored',
           follows \subseteq follows'
    PROVE  WalksSound'
<1> SUFFICES ASSUME NEW r \in Readers PROVE Sound(walk[r], now', stored', follows')
  BY DEF WalksSound
<1> DEFINE w == walk[r]
<1>1. w \in Walk /\ Sound(w, now, stored, follows) /\ now \in Nat
  BY PagesAssumption DEF PagesInv, PagesTypeOK, WalksSound
<1> HIDE DEF w
<1>2. Paged(w, stored')
  BY <1>1 DEF Sound, Paged
<1>3. Scoped(w, now', stored', follows')
  <2>1. \A i \in w.due : TimeOf[i] \in Nat
    BY <1>1, Times DEF Walk
  <2> QED BY <1>1, <2>1 DEF Sound, Scoped
<1> QED BY <1>1, <1>2, <1>3 DEF Sound, w

LEMMA ChangeStep == ASSUME PagesInv, Changes PROVE PagesInv'
<1>0. Changed => changes' \in 0 .. MaxChanges
  BY PagesAssumption DEF Changed, PagesInv, PagesTypeOK
<1>h. history \in [asked : SUBSET Own, seen : SUBSET Messages, blind : SUBSET Items]
  BY DEF PagesInv, PagesTypeOK
<1>n. now \in Nat /\ Messages \cap Notices = {} /\ Notices \subseteq Items
  BY PagesAssumption DEF PagesInv, PagesTypeOK, Items
<1>1. ASSUME NEW v \in Own, NEW N \in SUBSET Notices, N \subseteq stored,
             \A n \in N : To[n] = v,
             read' = read \cup N, history' = [history EXCEPT !.asked = @ \cup {v}],
             Changed, UNCHANGED <<now, stored, follows, walk>>
      PROVE  PagesInv'
  <2>1. WalksSound'
    BY <1>1, <1>n, WorldGrows
  <2>2. /\ history' \in [asked : SUBSET Own, seen : SUBSET Messages, blind : SUBSET Items]
        /\ history'.asked = history.asked \cup {v}
        /\ history'.seen = history.seen /\ history'.blind = history.blind
    BY <1>1, <1>h
  <2>3. ReadByAddressee
    BY DEF PagesInv
  <2>4. ReadByAddressee'
    BY <1>1, <1>n, <2>2, <2>3 DEF ReadByAddressee
  <2> QED BY <1>0, <1>1, <2>1, <2>2, <2>4 DEF PagesInv, PagesTypeOK
<1>2. ASSUME NEW v \in Own, MarkAllRead(v) PROVE PagesInv'
  <2> DEFINE N == {n \in stored \cap Notices : To[n] = v}
  <2>1. N \in SUBSET Notices /\ N \subseteq stored /\ \A n \in N : To[n] = v
    OBVIOUS
  <2>2. /\ read' = read \cup N /\ history' = [history EXCEPT !.asked = @ \cup {v}]
        /\ Changed /\ UNCHANGED <<now, stored, follows, walk>>
    BY <1>2 DEF MarkAllRead
  <2> HIDE DEF N
  <2> QED BY <2>1, <2>2, <1>1
<1>3. ASSUME NEW v \in Own, NEW n \in Notices, MarkRead(v, n) PROVE PagesInv'
  <2> DEFINE N == {k \in {n} : To[k] = v}
  <2>1. N \in SUBSET Notices /\ N \subseteq stored /\ \A k \in N : To[k] = v
    BY <1>3 DEF MarkRead
  <2>2. /\ read' = read \cup N /\ history' = [history EXCEPT !.asked = @ \cup {v}]
        /\ Changed /\ UNCHANGED <<now, stored, follows, walk>>
    BY <1>3 DEF MarkRead
  <2> HIDE DEF N
  <2> QED BY <2>1, <2>2, <1>1
<1>4. ASSUME NEW i \in Items, Arrives(i) PROVE PagesInv'
  <2>1. /\ stored' = stored \cup {i} /\ read' = read /\ Changed
        /\ UNCHANGED <<now, follows, walk, history>>
    BY <1>4 DEF Arrives, InsertRow
  <2>2. WalksSound'
    BY <2>1, <1>n, WorldGrows
  <2>3. ReadByAddressee'
    BY <2>1 DEF PagesInv, ReadByAddressee
  <2> QED BY <1>0, <2>1, <2>2, <2>3 DEF PagesInv, PagesTypeOK
<1>5. ASSUME NEW v \in Own, NEW a \in Authors, Follow(v, a) PROVE PagesInv'
  <2>1. /\ follows' = follows \cup {<<v, a>>} /\ Changed
        /\ UNCHANGED <<now, stored, read, walk, history>>
    BY <1>5 DEF Follow
  <2>2. WalksSound'
    BY <2>1, <1>n, WorldGrows
  <2>3. ReadByAddressee'
    BY <2>1 DEF PagesInv, ReadByAddressee
  <2>4. follows' \subseteq Own \X Authors
    BY <2>1 DEF PagesInv, PagesTypeOK
  <2> QED BY <1>0, <2>1, <2>2, <2>3, <2>4 DEF PagesInv, PagesTypeOK
<1>6. ASSUME Tick PROVE PagesInv'
  <2>1. now' = now + 1 /\ now < MaxTime /\ Changed /\ UNCHANGED <<stored, read, follows, walk, history>>
    BY <1>6 DEF Tick
  <2>2. WalksSound'
    BY <2>1, <1>n, WorldGrows
  <2>3. ReadByAddressee'
    BY <2>1 DEF PagesInv, ReadByAddressee
  <2>4. now' \in 1 .. MaxTime
    BY <2>1, PagesAssumption DEF PagesInv, PagesTypeOK
  <2> QED BY <1>0, <2>1, <2>2, <2>3, <2>4 DEF PagesInv, PagesTypeOK
<1>7. ASSUME NEW v \in Own, NEW a \in Authors, Unfollow(v, a) PROVE PagesInv'
  <2> DEFINE C(w) == IF w.view \in {"home", "feed"} /\ w.as = v /\ a # v
                     THEN [w EXCEPT !.due = {i \in @ : By[i] # a}] ELSE w
  <2>1. /\ follows' = follows \ {<<v, a>>} /\ Changed
        /\ walk' = [r \in Readers |-> C(walk[r])]
        /\ UNCHANGED <<now, stored, read, history>>
    BY <1>7 DEF Unfollow
  <2>2. ASSUME NEW w \in Walk, Sound(w, now, stored, follows)
        PROVE  /\ C(w) \in Walk /\ C(w).page = w.page /\ C(w).as = w.as
               /\ Sound(C(w), now, stored, follows')
    <3>1. CASE w.view \in {"home", "feed"} /\ w.as = v /\ a # v
      <4> DEFINE c == [w EXCEPT !.due = {i \in @ : By[i] # a}]
      <4>1. /\ c \in Walk /\ c.due = {i \in w.due : By[i] # a} /\ c.step = w.step
            /\ c.authors = w.authors /\ c.view = w.view /\ c.as = w.as /\ c.peer = w.peer
            /\ c.before = w.before /\ c.page = w.page /\ c.shown = w.shown /\ c.cut = w.cut
            /\ c.unread = w.unread
        BY <2>2 DEF Walk
      <4>2. C(w) = c
        BY <3>1
      <4> HIDE DEF c, C
      <4>3. Paged(c, stored) /\ Ordered(c) /\ Covered(c) /\ Complete(c)
        BY <4>1, <2>2 DEF Sound, Paged, Ordered, Covered, Complete
      <4>4. Scoped(c, now, stored, follows')
        BY <4>1, <2>1, <2>2 DEF Sound, Scoped
      <4> QED BY <4>1, <4>2, <4>3, <4>4 DEF Sound
    <3>2. CASE ~(w.view \in {"home", "feed"} /\ w.as = v /\ a # v)
      <4>1. C(w) = w
        BY <3>2
      <4> HIDE DEF C
      <4>2. Scoped(w, now, stored, follows')
        BY <3>2, <2>1, <2>2 DEF Sound, Scoped
      <4> QED BY <4>1, <4>2, <2>2 DEF Sound
    <3> QED BY <3>1, <3>2
  <2>3. \A r \in Readers : walk[r] \in Walk /\ Sound(walk[r], now, stored, follows)
    BY DEF PagesInv, PagesTypeOK, WalksSound
  <2> HIDE DEF C
  <2>4. \A r \in Readers : /\ walk'[r] \in Walk /\ walk'[r].page = walk[r].page
                           /\ walk'[r].as = walk[r].as /\ Sound(walk'[r], now, stored, follows')
    BY <2>1, <2>2, <2>3
  <2>5. walk' \in [Readers -> Walk]
    BY <2>1, <2>4
  <2>6. WalksSound'
    BY <2>1, <2>4 DEF WalksSound
  <2>7. ReadByAddressee'
    <3>1. ReadByAddressee /\ read' = read /\ history' = history
      BY <2>1 DEF PagesInv
    <3> QED BY <3>1, <2>4 DEF ReadByAddressee
  <2> QED BY <1>0, <2>1, <2>5, <2>6, <2>7 DEF PagesInv, PagesTypeOK
<1> QED BY <1>2, <1>3, <1>4, <1>5, <1>6, <1>7 DEF Changes

-----------------------------------------------------------------------------

LEMMA PagesInit == Init => PagesInv
<1> SUFFICES ASSUME Init PROVE PagesInv
  OBVIOUS
<1>1. /\ now \in 1 .. MaxTime /\ stored \subseteq Items /\ read = {}
      /\ follows \subseteq Own \X Authors /\ walk = [r \in Readers |-> NoWalk]
      /\ history = [asked |-> {}, seen |-> {}, blind |-> {}] /\ changes = 0
  BY DEF Init, Items
<1>2. walk \in [Readers -> Walk] /\ WalksSound
  BY <1>1, NoWalkSound DEF WalksSound
<1>3. PagesTypeOK
  BY <1>1, <1>2, PagesAssumption DEF PagesTypeOK
<1>4. ReadByAddressee
  BY <1>1 DEF ReadByAddressee
<1> QED BY <1>2, <1>3, <1>4 DEF PagesInv

LEMMA PagesNext == PagesInv /\ [Next]_vars => PagesInv'
<1> SUFFICES ASSUME PagesInv, [Next]_vars PROVE PagesInv'
  OBVIOUS
<1>1. ASSUME NEW r \in Readers, Reading(r) PROVE PagesInv'
  <2>1. ASSUME NEW view \in Offered(r), NEW v \in Own,
               NEW peer \in IF view \in Peered THEN Authors ELSE {v}, Open(r, view, v, peer)
        PROVE  PagesInv'
    <3>1. view \in Views /\ peer \in Authors
      BY <2>1 DEF Offered, Authors
    <3> QED BY <3>1, <2>1, OpenStep
  <2> QED BY <1>1, <2>1, GetSubscriptionsStep, QueryStep, QueryAllStep, MarkDMReadStep, MarkFailsStep,
             MoveStep, RespondStep, LeaveStep DEF Reading
<1>2. CASE UNCHANGED vars
  BY <1>2 DEF vars, PagesInv, PagesTypeOK, WalksSound, ReadByAddressee
<1> QED BY <1>1, <1>2, ChangeStep DEF Next

\* The listings keep their types, nothing is shown twice, and a walk to the end is
\* complete but for ties with a cut (feedPartial, GetFeed, GetAllPosts and the API's
\* listings), for any rows that arrive, follows that change and page sizes.
THEOREM PagesCorrect == Spec => [](PagesTypeOK /\ NothingShownTwice /\ WalksComplete)
<1>1. PagesInv => PagesTypeOK /\ NothingShownTwice /\ WalksComplete
  BY SoundWalks DEF PagesInv
<1> QED BY <1>1, PagesInit, PagesNext, PTL DEF Spec

\* A reader who pages on never meets a post again, whatever arrives, is followed or
\* unfollowed between two pages (the strict cursor of GetFeed and GetAllPosts).
THEOREM NothingShownTwiceTheorem == Spec => []NothingShownTwice
BY PagesCorrect, PTL

\* Messages are read by their addressee and notifications at their owner's request
\* (MarkDMRead, MarkAllRead, MarkRead), for any number of readers and identities.
THEOREM ReadByAddresseeTheorem == Spec => []ReadByAddressee
<1>1. PagesInv => ReadByAddressee
  BY DEF PagesInv
<1> QED BY <1>1, PagesInit, PagesNext, PTL DEF Spec

\* No step, and no second delivery, makes a message or notification unread.
THEOREM ReadForGoodTheorem == Spec => ReadForGood
<1>1. ASSUME [Next]_vars PROVE [read \subseteq read']_vars
  <2>1. ASSUME NEW r \in Readers, Reading(r) PROVE read \subseteq read'
    BY <2>1 DEF Reading, Open, GetSubscriptions, Query, QueryAll, QueryFails, MarkDMRead, MarkFails,
                Marked, Respond, LoadMore, Leave
  <2>2. ASSUME Changes PROVE read \subseteq read'
    BY <2>2 DEF Changes, MarkAllRead, MarkRead, Arrives, InsertRow, Follow, Unfollow, Tick
  <2> QED BY <1>1, <2>1, <2>2 DEF Next
<1> QED BY <1>1, PTL DEF Spec, ReadForGood
=============================================================================
