----------------------------- MODULE FeedRuntime -----------------------------
(***************************************************************************)
(* Who is followed, and which topics are therefore read: the feed manager  *)
(* (pkg/feed/manager.go) with its cache of the active identity's           *)
(* subscriptions, the subscriptions table, and the identity runtime syncer *)
(* (cmd/xleaks/main.go), all calling the topic table of TopicHost.  A      *)
(* goroutine is a web or API request.  Requests of several browser         *)
(* sessions, each with an identity of its own, run concurrently.           *)
(*                                                                         *)
(* What changeFollowState does after the manager's call (follow event,     *)
(* follower counts, pins) touches none of this state.                      *)
(***************************************************************************)
EXTENDS TopicHost

CONSTANTS
    Person,     \* public keys
    Owner,      \* the identities of this node
    Nobody,     \* the owner when no identity is unlocked
    Posts,      \* the posts topic of a person
    DMs,        \* the direct-message topic of a person
    MaxCalls    \* bound: requests

ASSUME RuntimeAssumption ==
    /\ Owner \subseteq Person /\ Nobody \notin Person
    /\ Posts \in [Person -> Topic] /\ DMs \in [Person -> Topic]
    /\ \A p, q \in Person :
          /\ Posts[p] # DMs[q]
          /\ p # q => Posts[p] # Posts[q] /\ DMs[p] # DMs[q]
    /\ MaxCalls \in Nat

VARIABLES
    subs,       \* subscriptions: pairs of an owner and a publisher
    cache,      \* Manager.subscribers
    active,     \* the identity the syncer last took over
    dm,         \* currentDMTopic, by its owner
    call,       \* the request each goroutine is serving
    calls,      \* requests so far
    orderly,    \* ghost: one request at a time, all of the active identity
    promised    \* ghost: follows that returned nil and were not taken back

callVars == <<call, calls, orderly, promised>>
vars == <<hostVars, subs, cache, active, dm, callVars>>

\* What a request is doing.  A change of identity first awaits the syncer's mutex;
\* a switch holds it until it returns.
Kinds == {"none", "follow", "unfollow", "await", "switch", "post", "dm"}

CallSteps == {"none", "check", "row", "cache", "topic", "lock", "load", "swap",
              "drop", "add", "olddm", "newdm", "send", "return"}

NoCall == [kind |-> "none", owner |-> Nobody, who |-> Nobody, at |-> "none",
           next |-> {}, drop |-> {}, add |-> {}, result |-> "ok"]

Call == [kind : Kinds, owner : Owner \cup {Nobody}, who : Person \cup {Nobody},
         at : CallSteps, next : SUBSET Person, drop : SUBSET Person,
         add : SUBSET Person, result : {"ok", "err"}]

\* GetSubscriptions: with no owner, the subscriptions of everybody.
GetSubscriptions(k) ==
    {p \in Person : \E o \in Owner : (k = Nobody \/ o = k) /\ <<o, p>> \in subs}

CallGoto(g, step) == call' = [call EXCEPT ![g].at = step]

Finish(g, result) ==
    call' = [call EXCEPT ![g] = [@ EXCEPT !.at = "return", !.result = result]]

-----------------------------------------------------------------------------
(* Requests.                                                               *)

Begin(g, kind, k, p, step) ==
    /\ call[g] = NoCall
    /\ calls < MaxCalls
    /\ call' = [call EXCEPT ![g] = [NoCall EXCEPT !.kind = kind, !.owner = k,
                                                  !.who = p, !.at = step]]
    /\ calls' = calls + 1
    /\ orderly' = /\ orderly
                  /\ \A h \in Goroutine : call[h] = NoCall
                  /\ kind # "await" => k = active

Follow(g, k, p) ==
    /\ p # k
    /\ Begin(g, "follow", k, p, "check")
    /\ UNCHANGED <<hostVars, subs, cache, active, dm, promised>>

Unfollow(g, k, p) ==
    /\ p # k
    /\ Begin(g, "unfollow", k, p, "check")
    /\ promised' = promised \ {<<k, p>>}
    /\ UNCHANGED <<hostVars, subs, cache, active, dm>>

SwitchIdentity(g, k) ==
    /\ Begin(g, "await", k, Nobody, "lock")
    /\ UNCHANGED <<hostVars, subs, cache, active, dm, promised>>

\* CreatePost publishes on the author's topic, SendDM on the recipient's.
PublishPost(g, k) ==
    /\ Begin(g, "post", k, k, "send")
    /\ UNCHANGED <<hostVars, subs, cache, active, dm, promised>>

SendDM(g, k, p) ==
    /\ p # k
    /\ Begin(g, "dm", k, p, "send")
    /\ UNCHANGED <<hostVars, subs, cache, active, dm, promised>>

Return(g) ==
    /\ call[g].at = "return"
    /\ promised' = IF call[g].kind = "follow" /\ call[g].result = "ok"
                   THEN promised \cup {<<call[g].owner, call[g].who>>}
                   ELSE promised
    /\ call' = [call EXCEPT ![g] = NoCall]
    /\ UNCHANGED <<hostVars, subs, cache, active, dm, calls, orderly>>

-----------------------------------------------------------------------------
(* Manager.Follow and Manager.Unfollow.                                    *)

\* The cache, read under the lock, decides whether anything is to be done.
CheckCache(g) ==
    /\ call[g].at = "check"
    /\ IF (call[g].who \in cache) = (call[g].kind = "follow")
       THEN Finish(g, "ok")
       ELSE CallGoto(g, "row")
    /\ UNCHANGED <<hostVars, subs, cache, active, dm, calls, orderly, promised>>

ChangeRow(g) ==
    /\ call[g].at = "row"
    /\ subs' = IF call[g].kind = "follow"
               THEN subs \cup {<<call[g].owner, call[g].who>>}
               ELSE subs \ {<<call[g].owner, call[g].who>>}
    /\ CallGoto(g, "cache")
    /\ UNCHANGED <<hostVars, cache, active, dm, calls, orderly, promised>>

ChangeCache(g) ==
    /\ call[g].at = "cache"
    /\ cache' = IF call[g].kind = "follow" THEN cache \cup {call[g].who}
                ELSE cache \ {call[g].who}
    /\ CallGoto(g, "topic")
    /\ UNCHANGED <<hostVars, subs, active, dm, calls, orderly, promised>>

\* OnSubscribe or OnUnsubscribe, whose error is the request's.
ChangeTopic(g) ==
    /\ call[g].at = "topic"
    /\ \/ /\ CallHost(g, IF call[g].kind = "follow" THEN "ensure" ELSE "unsubscribe",
                      Posts[call[g].who])
          /\ UNCHANGED call
       \/ /\ ReturnFromHost(g)
          /\ Finish(g, op[g].at)
    /\ UNCHANGED <<subs, cache, active, dm, calls, orderly, promised>>

-----------------------------------------------------------------------------
(* The syncer: its mutex and SetIdentity of every service, then            *)
(* Manager.ReloadSubscriptions, then the direct-message topic.             *)

\* Mutant: the syncer has no mutex.
SyncUnlocked(g) ==
    /\ call[g].at = "lock"
    /\ call' = [call EXCEPT ![g] = [@ EXCEPT !.kind = "switch", !.at = "load"]]
    /\ active' = call[g].owner
    /\ UNCHANGED <<hostVars, subs, cache, dm, calls, orderly, promised>>

\* mu.Lock, which waits while another switch holds the mutex.
LockSyncer(g) ==
    /\ call[g].at = "lock"
    /\ \A h \in Goroutine : call[h].kind # "switch"
    /\ call' = [call EXCEPT ![g] = [@ EXCEPT !.kind = "switch", !.at = "load"]]
    /\ active' = call[g].owner
    /\ UNCHANGED <<hostVars, subs, cache, dm, calls, orderly, promised>>

LoadSubscriptions(g) ==
    /\ call[g].at = "load"
    /\ call' = [call EXCEPT ![g] =
                   [@ EXCEPT !.next = GetSubscriptions(call[g].owner), !.at = "swap"]]
    /\ UNCHANGED <<hostVars, subs, cache, active, dm, calls, orderly, promised>>

\* Mutant: the topics of the previous identity's subscriptions stay.
KeepOldTopics(g) ==
    /\ call[g].at = "swap"
    /\ cache' = call[g].next
    /\ call' = [call EXCEPT ![g] =
                   [@ EXCEPT !.add = call[g].next \ cache, !.at = "drop"]]
    /\ UNCHANGED <<hostVars, subs, active, dm, calls, orderly, promised>>

SwapCache(g) ==
    /\ call[g].at = "swap"
    /\ cache' = call[g].next
    /\ call' = [call EXCEPT ![g] =
                   [@ EXCEPT !.drop = cache \ call[g].next,
                             !.add = call[g].next \ cache, !.at = "drop"]]
    /\ UNCHANGED <<hostVars, subs, active, dm, calls, orderly, promised>>

\* Leave the topics of those no longer followed; an error ends the reload.
DropTopics(g) ==
    /\ call[g].at = "drop"
    /\ \/ /\ call[g].drop # {}
          /\ \E p \in call[g].drop : CallHost(g, "unsubscribe", Posts[p])
          /\ UNCHANGED call
       \/ /\ ReturnFromHost(g)
          /\ call' = IF op[g].at = "ok"
                     THEN [call EXCEPT ![g].drop =
                               {p \in @ : Posts[p] # op[g].topic}]
                     ELSE [call EXCEPT ![g].at = "olddm"]
       \/ /\ call[g].drop = {} /\ op[g] = NoOp
          /\ CallGoto(g, "add")
          /\ UNCHANGED hostVars
    /\ UNCHANGED <<subs, cache, active, dm, calls, orderly, promised>>

\* Join the topics of those newly followed; an error ends the reload.
AddTopics(g) ==
    /\ call[g].at = "add"
    /\ \/ /\ call[g].add # {}
          /\ \E p \in call[g].add : CallHost(g, "ensure", Posts[p])
          /\ UNCHANGED call
       \/ /\ ReturnFromHost(g)
          /\ call' = IF op[g].at = "ok"
                     THEN [call EXCEPT ![g].add =
                               {p \in @ : Posts[p] # op[g].topic}]
                     ELSE [call EXCEPT ![g].at = "olddm"]
       \/ /\ call[g].add = {} /\ op[g] = NoOp
          /\ CallGoto(g, "olddm")
          /\ UNCHANGED hostVars
    /\ UNCHANGED <<subs, cache, active, dm, calls, orderly, promised>>

\* Leave the previous identity's DM topic; an error is ignored.
LeaveOldDM(g) ==
    /\ call[g].at = "olddm"
    /\ \/ /\ dm # Nobody
          /\ CallHost(g, "unsubscribe", DMs[dm])
          /\ UNCHANGED <<call, dm>>
       \/ /\ ReturnFromHost(g)
          /\ dm' = Nobody
          /\ CallGoto(g, "newdm")
       \/ /\ dm = Nobody
          /\ CallGoto(g, "newdm")
          /\ UNCHANGED <<hostVars, dm>>
    /\ UNCHANGED <<subs, cache, active, calls, orderly, promised>>

JoinNewDM(g) ==
    /\ call[g].at = "newdm"
    /\ \/ /\ call[g].owner = Nobody
          /\ Finish(g, "ok")
          /\ UNCHANGED <<hostVars, dm>>
       \/ /\ call[g].owner # Nobody
          /\ CallHost(g, "ensure", DMs[call[g].owner])
          /\ UNCHANGED <<call, dm>>
       \/ /\ ReturnFromHost(g)
          /\ dm' = IF op[g].at = "ok" THEN call[g].owner ELSE dm
          /\ Finish(g, "ok")
    /\ UNCHANGED <<subs, cache, active, calls, orderly, promised>>

\* Host.Publish of a post or DM; its error is logged.
Broadcast(g) ==
    /\ call[g].at = "send"
    /\ \/ /\ CallHost(g, "publish", IF call[g].kind = "post" THEN Posts[call[g].who]
                                    ELSE DMs[call[g].who])
          /\ UNCHANGED call
       \/ /\ ReturnFromHost(g)
          /\ Finish(g, "ok")
    /\ UNCHANGED <<subs, cache, active, dm, calls, orderly, promised>>

\* AddSubscription, RemoveSubscription or GetSubscriptions fails.
StatementFails(g) ==
    /\ \/ call[g].at = "row" /\ Finish(g, "err")
       \/ call[g].at = "load" /\ CallGoto(g, "olddm")
    /\ OtherFault
    /\ UNCHANGED <<subs, cache, active, dm, calls, orderly, promised>>

InHost(g) ==
    HostStep(g) /\ UNCHANGED <<subs, cache, active, dm, callVars>>

-----------------------------------------------------------------------------

Init ==
    /\ HostInit
    /\ subs = {} /\ cache = {} /\ active = Nobody /\ dm = Nobody
    /\ call = [g \in Goroutine |-> NoCall]
    /\ calls = 0 /\ orderly = TRUE /\ promised = {}

Request(g) ==
    \/ \E k \in Owner, p \in Person :
          Follow(g, k, p) \/ Unfollow(g, k, p) \/ SendDM(g, k, p)
    \/ \E k \in Owner \cup {Nobody} : SwitchIdentity(g, k)
    \/ \E k \in Owner : PublishPost(g, k)

Step(g) ==
    \/ CheckCache(g) \/ ChangeRow(g) \/ ChangeCache(g) \/ ChangeTopic(g)
    \/ LockSyncer(g) \/ LoadSubscriptions(g) \/ SwapCache(g) \/ DropTopics(g)
    \/ AddTopics(g) \/ LeaveOldDM(g) \/ JoinNewDM(g) \/ Broadcast(g) \/ InHost(g) \/ Return(g)

Next == \E g \in Goroutine : Request(g) \/ Step(g) \/ StatementFails(g)

Spec == Init /\ [][Next]_vars

-----------------------------------------------------------------------------

\* Every variable has its type; a request about a person names one, and has the
\* steps of its kind.
RuntimeTypeOK ==
    /\ HostTypeOK
    /\ subs \subseteq Owner \X Person /\ promised \subseteq Owner \X Person
    /\ cache \subseteq Person
    /\ active \in Owner \cup {Nobody} /\ dm \in Owner \cup {Nobody}
    /\ calls \in Nat
    /\ call \in [Goroutine -> Call]
    /\ \A g \in Goroutine :
         /\ call[g].at \in {"check", "row", "cache", "topic"} =>
               call[g].kind \in {"follow", "unfollow"}
         /\ call[g].at = "send" => call[g].kind \in {"post", "dm"}
         /\ call[g].at = "lock" => call[g].kind = "await"
         /\ call[g].kind \notin {"none", "await", "switch"} =>
               call[g].owner \in Owner /\ call[g].who \in Person

\* While no switch holds the syncer's mutex, no direct messages are read but
\* those of the identity the syncer last took over, whatever requests ran at the
\* same time as the switches, however many switches still wait and whatever
\* failed: leaving an identity leaves its DM topic.
OnlyActiveDMRead ==
    (\A g \in Goroutine : call[g].kind # "switch") =>
        \A k \in Person \ {active} : handle[DMs[k]] # "read"

\* While requests come one at a time from the active identity and nothing
\* fails, the cache is that identity's subscriptions, the topics of the
\* followed are joined and no other posts topic is read: an identity switch
\* brings table, cache and topics together again.
RuntimeMatchesTable ==
    orderly /\ faults = 0 /\ (\A g \in Goroutine : call[g] = NoCall) =>
        /\ cache = GetSubscriptions(active)
        /\ \A p \in Person : IF p \in cache THEN handle[Posts[p]] # "none"
                             ELSE handle[Posts[p]] # "read"

\* A follow that returned nil and was not taken back is in the subscriptions
\* table under the identity that asked for it.
FollowSubscribesOwner ==
    faults = 0 /\ (\A g \in Goroutine : call[g] = NoCall) => promised \subseteq subs

\* With nothing failing, the DM topic the syncer holds is read.
DMTopicRead ==
    faults = 0 /\ dm # Nobody /\ (\A g \in Goroutine : call[g] = NoCall)
        => handle[DMs[dm]] = "read"
=============================================================================
