----------------------------- MODULE FollowGraph -----------------------------
(***************************************************************************)
(* Who follows whom, as a node has heard it: the follow_events rows and    *)
(* the follower_counts recomputed from them (pkg/storage/                  *)
(* subscriptions_repo.go), written by handleFollow (pkg/p2p/handlers.go)   *)
(* for the events that arrive, whoever signed them, and by                 *)
(* changeFollowState (pkg/social/follows.go) for the requests of the       *)
(* node's identities, after the feed manager (pkg/feed/manager.go) has     *)
(* changed the subscription.  They share the manager's cache, which the    *)
(* syncer (cmd/xleaks/main.go) replaces when the active identity changes.  *)
(* The subscriptions are followed for one identity, Me; of the others'     *)
(* only what they do to the cache is kept.                                 *)
(*                                                                         *)
(* A handler runs one statement per step.  The read loop of an author's    *)
(* topic handles one message at a time; loops of different topics,         *)
(* requests and the syncer overlap.  Pins, set before changeFollowState    *)
(* publishes, touch nothing of this (NodeContent).  A person without a row *)
(* of counts has zeros.                                                    *)
(***************************************************************************)
EXTENDS Naturals, FiniteSets

CONSTANTS
    User,       \* public keys
    Local,      \* the node's identities
    Me,         \* one of them
    Handler,    \* goroutines: read loops and requests
    Foreign,    \* sets of subscriptions loaded when Me is not active
    MaxEvents,  \* bound: events anybody signs
    MaxInbox,   \* bound: events handed to handleFollow, repeated ones included
    MaxLoads,   \* bound: reloads of the subscriptions while the node is up
    MaxFaults   \* bound: failing statements and crashes

ASSUME GraphAssumption ==
    /\ IsFiniteSet(User) /\ Local \subseteq User /\ Me \in Local
    /\ Foreign \subseteq SUBSET User
    /\ MaxEvents \in Nat /\ MaxInbox \in Nat /\ MaxLoads \in Nat /\ MaxFaults \in Nat

VARIABLES
    rows,       \* follow_events, one row for a pair of author and target
    counts,     \* follower_counts
    notified,   \* follow notifications, by actor and owner
    subs,       \* the subscriptions rows of Me
    cache,      \* Manager.subscribers
    reload,     \* what ReloadSubscriptions has loaded and not yet put in place
    sent,       \* events that were published
    job,        \* what each handler is doing
    inbox,      \* events handed to handleFollow so far
    events,     \* events signed so far
    loads,      \* reloads so far
    faults,     \* faults so far
    blurred,    \* ghost: people whose last recount failed or raced with a row
    mine,       \* ghost: whether the cache was loaded for Me
    raced,      \* ghost: people changed by two requests at a time, by a request
                \* beside a reload, while the cache was not the one of Me, or
                \* in the cache by another identity
    echoed,     \* ghost: people whose row of Me a message wrote last
    agreed      \* ghost: people whose last request returned nil

feedVars == <<subs, cache, reload, mine, raced, echoed, agreed>>
graphVars == <<rows, counts, notified, blurred>>
envVars == <<sent, inbox, events, loads, faults>>
vars == <<feedVars, graphVars, envVars, job>>

Event == [author : User, target : User, action : {"follow", "unfollow"}]

Count == [followers : Nat, following : Nat]

Steps == {"check", "sub", "cache", "topic", "row", "notify",
          "followers", "following", "upsert"}

\* event and whose count (of) it is about; got is what the two queries
\* returned, clean whether no row of that person changed since.
Job == [at : Steps, event : Event, request : BOOLEAN, of : {"author", "target"},
        got : Count, clean : BOOLEAN]

\* Rows, whether they are the ones of Me, and the people changed meanwhile.
Reload == [set : SUBSET User, own : BOOLEAN, met : SUBSET User]

Idle == [at |-> "idle"]

Zero == [followers |-> 0, following |-> 0]

Busy(h) == job[h] # Idle

Who(h) == IF job[h].of = "author" THEN job[h].event.author ELSE job[h].event.target

Goto(h, step) == job' = [job EXCEPT ![h].at = step]

-----------------------------------------------------------------------------
(* The tables.                                                             *)

GetFollowers(p) == {r.author : r \in {x \in rows : x.target = p /\ x.action = "follow"}}

GetFollowing(p) == {r.target : r \in {x \in rows : x.author = p /\ x.action = "follow"}}

\* The upsert takes whatever came last; the timestamps are not looked at.
WithEvent(e) ==
    {r \in rows : <<r.author, r.target>> # <<e.author, e.target>>} \cup {e}

-----------------------------------------------------------------------------
(* Events.  Their timestamps, which no statement looks at, are left out.   *)

Signed(a, p, action) == [author |-> a, target |-> p, action |-> action]

Fresh(e, request, step) ==
    [at |-> step, event |-> e, request |-> request, of |-> "author", got |-> Zero, clean |-> TRUE]

\* Somebody, Me too, follows or unfollows on another node.
Publish(a, p, action) ==
    /\ a # p
    /\ events < MaxEvents
    /\ events' = events + 1
    /\ sent' = sent \cup {Signed(a, p, action)}
    /\ UNCHANGED <<feedVars, graphVars, inbox, loads, faults, job>>

\* The author's read loop hands an event to handleFollow: in any order, and
\* again after GossipSub has forgotten it.  An event of Me is one of another
\* node of the same key, or comes back from a peer.
Deliver(h, e) ==
    /\ ~Busy(h)
    /\ \A g \in Handler :
          Busy(g) /\ ~job[g].request => job[g].event.author # e.author
    /\ inbox < MaxInbox
    /\ inbox' = inbox + 1
    /\ job' = [job EXCEPT ![h] = Fresh(e, FALSE, "row")]
    /\ UNCHANGED <<feedVars, graphVars, sent, events, loads, faults>>

\* The handler serves a request of Me about p.
On(h, p) ==
    /\ Busy(h) /\ job[h].request
    /\ job[h].event.author = Me /\ job[h].event.target = p

\* FollowAs or UnfollowAs; ValidateFollowEvent refuses a person's own key.
Request(h, a, p, action) ==
    /\ ~Busy(h)
    /\ a # p
    /\ events < MaxEvents
    /\ events' = events + 1
    /\ job' = [job EXCEPT ![h] = Fresh(Signed(a, p, action), TRUE, "check")]
    /\ raced' = raced \cup {q \in {p} : a = Me /\ (~mine \/ \E g \in Handler : On(g, q))}
    /\ reload' = IF reload = Idle \/ a # Me THEN reload
                 ELSE [reload EXCEPT !.met = @ \cup {p}]
    /\ agreed' = IF a = Me THEN agreed \ {p} ELSE agreed
    /\ UNCHANGED <<subs, cache, mine, echoed, graphVars, sent, inbox, loads, faults>>

-----------------------------------------------------------------------------
(* Manager.Follow and Manager.Unfollow.                                    *)

Follows(h) == job[h].event.action = "follow"

\* Mutant: a change the cache knows already ends the request.
CheckCacheOnly(h) ==
    /\ job[h].at = "check"
    /\ IF job[h].event.target \in cache <=> Follows(h)
       THEN /\ job' = [job EXCEPT ![h] = Idle]
            /\ agreed' = IF job[h].event.author = Me
                         THEN agreed \cup {job[h].event.target} ELSE agreed
       ELSE Goto(h, "sub") /\ UNCHANGED agreed
    /\ UNCHANGED <<subs, cache, reload, mine, raced, echoed, graphVars, envVars>>

\* What the cache says already needs no change; the event is recorded anyway.
CheckCache(h) ==
    /\ job[h].at = "check"
    /\ Goto(h, IF job[h].event.target \in cache <=> Follows(h) THEN "row" ELSE "sub")
    /\ UNCHANGED <<feedVars, graphVars, envVars>>

ChangeSubscription(h) ==
    /\ job[h].at = "sub"
    /\ subs' = IF job[h].event.author # Me THEN subs
               ELSE IF Follows(h) THEN subs \cup {job[h].event.target}
               ELSE subs \ {job[h].event.target}
    /\ Goto(h, "cache")
    /\ UNCHANGED <<cache, reload, mine, raced, echoed, agreed, graphVars, envVars>>

ChangeCache(h) ==
    /\ job[h].at = "cache"
    /\ cache' = IF Follows(h) THEN cache \cup {job[h].event.target}
                ELSE cache \ {job[h].event.target}
    /\ raced' = IF job[h].event.author # Me THEN raced \cup {job[h].event.target} ELSE raced
    /\ Goto(h, "topic")
    /\ UNCHANGED <<subs, reload, mine, echoed, agreed, graphVars, envVars>>

\* OnSubscribe or OnUnsubscribe.
ChangeTopic(h) ==
    /\ job[h].at = "topic"
    /\ Goto(h, "row")
    /\ UNCHANGED <<feedVars, graphVars, envVars>>

-----------------------------------------------------------------------------
(* Manager.ReloadSubscriptions, by the syncer, one at a time.  A load that *)
(* fails changes nothing, and neither do the topics that follow (those are *)
(* FeedRuntime's).                                                         *)

\* The rows of Me, or of another identity, or of nobody.
Loadable == [set : {subs}, own : {TRUE}] \cup [set : Foreign, own : {FALSE}]

LoadSubscriptions(l) ==
    /\ reload = Idle
    /\ loads < MaxLoads
    /\ loads' = loads + 1
    /\ reload' = [set |-> l.set, own |-> l.own,
                  met |-> {p \in User : \E h \in Handler : On(h, p)}]
    /\ UNCHANGED <<subs, cache, mine, raced, echoed, agreed, graphVars, sent, inbox, events, faults, job>>

\* What a request changed since the load is lost to the cache; for everybody
\* else the rows of Me put right what was wrong before.
SwapCache ==
    /\ reload # Idle
    /\ cache' = reload.set /\ mine' = reload.own
    /\ raced' = reload.met \cup (IF reload.own THEN {} ELSE raced)
    /\ agreed' = agreed \ raced
    /\ reload' = Idle
    /\ UNCHANGED <<subs, echoed, graphVars, envVars, job>>

-----------------------------------------------------------------------------
(* The row and the two recounts.                                           *)

Concerns(e, p) == p \in {e.author, e.target}

\* Handlers that have read a count of somebody the new row is about.
Disturbed(h, e) ==
    [g \in Handler |-> IF g # h /\ Busy(g) /\ Concerns(e, Who(g))
                       THEN [job[g] EXCEPT !.clean = FALSE] ELSE job[g]]

InsertFollowEvent(h) ==
    LET e == job[h].event
    IN  /\ job[h].at = "row"
        /\ rows' = WithEvent(e)
        /\ job' = [Disturbed(h, e) EXCEPT ![h] = Fresh(e, @.request,
                      IF ~@.request /\ e.action = "follow" THEN "notify" ELSE "followers")]
        /\ echoed' = IF e.author # Me THEN echoed
                     ELSE IF job[h].request THEN echoed \ {e.target} ELSE echoed \cup {e.target}
        /\ UNCHANGED <<counts, notified, blurred, subs, cache, reload, mine, raced, agreed, envVars>>

NotifyFollow(h) ==
    /\ job[h].at = "notify"
    /\ notified' = notified \cup {<<job[h].event.author, job[h].event.target>>}
    /\ Goto(h, "followers")
    /\ UNCHANGED <<rows, counts, blurred, feedVars, envVars>>

CountFollowers(h) ==
    /\ job[h].at = "followers"
    /\ job' = [job EXCEPT ![h] = [@ EXCEPT !.at = "following", !.clean = TRUE,
                                  !.got = [Zero EXCEPT !.followers =
                                              Cardinality(GetFollowers(Who(h)))]]]
    /\ UNCHANGED <<feedVars, graphVars, envVars>>

CountFollowing(h) ==
    /\ job[h].at = "following"
    /\ job' = [job EXCEPT ![h] = [@ EXCEPT !.at = "upsert",
                                  !.got.following = Cardinality(GetFollowing(Who(h)))]]
    /\ UNCHANGED <<feedVars, graphVars, envVars>>

\* Mutant: only the author's counts are brought up to date.
AuthorCountOnly(h) ==
    /\ job' = [job EXCEPT ![h] = Idle]
    /\ agreed' = IF job[h].request /\ job[h].event.author = Me
                 THEN agreed \cup {job[h].event.target} ELSE agreed
    /\ sent' = IF job[h].request THEN sent \cup {job[h].event} ELSE sent

\* First the author's counts, then the target's; a request then publishes and
\* returns nil.  An event that is not published is one that never arrives.
NextCount(h) ==
    /\ job' = [job EXCEPT ![h] = IF @.of = "author"
                                 THEN [Fresh(@.event, @.request, "followers")
                                          EXCEPT !.of = "target"]
                                 ELSE Idle]
    /\ agreed' = IF job[h].of = "target" /\ job[h].request /\ job[h].event.author = Me
                 THEN agreed \cup {job[h].event.target} ELSE agreed
    /\ sent' = IF job[h].of = "target" /\ job[h].request
               THEN sent \cup {job[h].event} ELSE sent

UpdateFollowerCount(h) ==
    /\ job[h].at = "upsert"
    /\ counts' = [counts EXCEPT ![Who(h)] = job[h].got]
    /\ blurred' = IF job[h].clean THEN blurred \ {Who(h)} ELSE blurred \cup {Who(h)}
    /\ NextCount(h)
    /\ UNCHANGED <<rows, notified, subs, cache, reload, mine, raced, echoed, inbox, events, loads, faults>>

-----------------------------------------------------------------------------
(* Faults.                                                                 *)

Fault == faults < MaxFaults /\ faults' = faults + 1

\* An error of the manager or of the row ends the handler; a request returns it.
Fails(h) ==
    /\ Fault
    /\ job[h].at \in {"sub", "topic", "row"}
    /\ job' = [job EXCEPT ![h] = Idle]
    /\ UNCHANGED <<feedVars, graphVars, sent, inbox, events, loads>>

\* Errors after the row are logged.
NotifyFails(h) ==
    /\ Fault
    /\ job[h].at = "notify"
    /\ Goto(h, "followers")
    /\ UNCHANGED <<feedVars, graphVars, sent, inbox, events, loads>>

CountFails(h) ==
    /\ Fault
    /\ job[h].at \in {"followers", "following", "upsert"}
    /\ blurred' = blurred \cup {Who(h)}
    /\ NextCount(h)
    /\ UNCHANGED <<rows, counts, notified, subs, cache, reload, mine, raced, echoed, inbox, events, loads>>

\* The people whose counts a handler has yet to write after its row.
Owes(h, p) ==
    /\ Busy(h)
    /\ job[h].at \in {"notify", "followers", "following", "upsert"}
    /\ p = job[h].event.target \/ (job[h].of = "author" /\ p = job[h].event.author)

\* The node dies and starts again: the cache is loaded from the table, for the
\* identity that is unlocked then, and stays empty without one.
Restart(l) ==
    /\ Fault
    /\ blurred' = blurred \cup {p \in User : \E h \in Handler : Owes(h, p)}
    /\ job' = [h \in Handler |-> Idle]
    /\ cache' = l.set /\ mine' = l.own
    /\ reload' = Idle /\ raced' = {} /\ agreed' = agreed \ raced
    /\ UNCHANGED <<rows, counts, notified, subs, echoed, sent, inbox, events, loads>>

-----------------------------------------------------------------------------
Init ==
    /\ rows = {} /\ counts = [p \in User |-> Zero] /\ notified = {}
    /\ subs = {} /\ cache = {} /\ sent = {} /\ inbox = 0 /\ events = 0
    /\ loads = 0 /\ faults = 0
    /\ job = [h \in Handler |-> Idle]
    /\ reload = Idle /\ mine = TRUE
    /\ blurred = {} /\ raced = {} /\ echoed = {} /\ agreed = {}

Step(h) ==
    \/ CheckCache(h) \/ ChangeSubscription(h) \/ ChangeCache(h) \/ ChangeTopic(h)
    \/ InsertFollowEvent(h) \/ NotifyFollow(h)
    \/ CountFollowers(h) \/ CountFollowing(h) \/ UpdateFollowerCount(h)
    \/ Fails(h) \/ NotifyFails(h) \/ CountFails(h)

Next ==
    \/ \E h \in Handler :
          \/ \E e \in sent : Deliver(h, e)
          \/ \E a \in Local, p \in User, action \in {"follow", "unfollow"} : Request(h, a, p, action)
          \/ Step(h)
    \/ \E a, p \in User, action \in {"follow", "unfollow"} : Publish(a, p, action)
    \/ \E l \in Loadable : LoadSubscriptions(l) \/ Restart(l)
    \/ SwapCache

Spec == Init /\ [][Next]_vars

-----------------------------------------------------------------------------
(* Properties.                                                             *)

GraphTypeOK ==
    /\ rows \subseteq Event /\ sent \subseteq Event
    /\ notified \subseteq User \X User
    /\ counts \in [User -> Count]
    /\ subs \subseteq User /\ cache \subseteq User
    /\ job \in [Handler -> Job \cup {Idle}]
    /\ events \in 0..MaxEvents /\ inbox \in 0..MaxInbox
    /\ loads \in 0..MaxLoads /\ faults \in 0..MaxFaults
    /\ reload \in Reload \cup {Idle} /\ mine \in BOOLEAN
    /\ blurred \subseteq User /\ raced \subseteq User
    /\ echoed \subseteq User /\ agreed \subseteq User

\* The counts of a person are the ones of the rows whenever no handler has
\* still to write them, but for a recount that failed, was lost in a crash or
\* was overtaken by another row: and the next undisturbed event about the
\* person, of whichever side, heals even those.
CountsHeal ==
    \A p \in User \ blurred :
        (\A h \in Handler : ~Owes(h, p)) =>
            counts[p] = [followers |-> Cardinality(GetFollowers(p)),
                         following |-> Cardinality(GetFollowing(p))]

\* A request of Me that returned nil leaves subscription, manager's cache and
\* recorded event saying the same, whatever failed before it: unless the cache
\* is another identity's, or a message wrote the row of the event since, or
\* the request met another one about that person or a reload of the cache; and
\* what such a meeting has spoilt, the next quiet reload for Me or restart
\* puts right.
OwnFollowRecorded ==
    \A p \in agreed \ raced :
        /\ mine => (p \in subs <=> p \in cache)
        /\ p \notin echoed => (p \in subs <=> p \in GetFollowing(Me))
=============================================================================
