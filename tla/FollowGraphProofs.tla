-------------------------- MODULE FollowGraphProofs --------------------------
(***************************************************************************)
(* Proofs about the follow graph: the counts of a person heal, and the     *)
(* event of a request that returned nil agrees with the subscription, for  *)
(* any number of people, handlers, events and faults.                      *)
(***************************************************************************)
EXTENDS FollowGraph, FiniteSetTheorems, TLAPS

\* What an undisturbed recount has read is what the rows hold.
ReadsExact ==
    \A h \in Handler :
        Busy(h) /\ job[h].clean =>
            /\ job[h].at \in {"following", "upsert"} =>
                  job[h].got.followers = Cardinality(GetFollowers(Who(h)))
            /\ job[h].at = "upsert" =>
                  job[h].got.following = Cardinality(GetFollowing(Who(h)))

CountInv == GraphTypeOK /\ ReadsExact /\ CountsHeal

-----------------------------------------------------------------------------
\* The tables.

LEMMA CountTypes ==
    ASSUME GraphTypeOK, NEW p
    PROVE  Cardinality(GetFollowers(p)) \in Nat /\ Cardinality(GetFollowing(p)) \in Nat
<1>1. GetFollowers(p) \in SUBSET User /\ GetFollowing(p) \in SUBSET User
  BY DEF GraphTypeOK, Event, GetFollowers, GetFollowing
<1> QED BY <1>1, FS_Subset, FS_CardinalityType, GraphAssumption

\* A row concerns its author and its target, and nobody else's counts.
LEMMA OthersKeepCounts ==
    ASSUME NEW e, NEW p, ~Concerns(e, p), rows' = WithEvent(e)
    PROVE  GetFollowers(p)' = GetFollowers(p) /\ GetFollowing(p)' = GetFollowing(p)
<1>1. \A r : r.target = p => (r \in rows' <=> r \in rows)
  BY DEF WithEvent, Concerns
<1>2. \A r : r.author = p => (r \in rows' <=> r \in rows)
  BY DEF WithEvent, Concerns
<1> QED BY <1>1, <1>2 DEF GetFollowers, GetFollowing

LEMMA SameRows ==
    ASSUME rows' = rows, NEW p
    PROVE  GetFollowers(p)' = GetFollowers(p) /\ GetFollowing(p)' = GetFollowing(p)
BY DEF GetFollowers, GetFollowing

LEMMA SameReads ==
    ASSUME rows' = rows, NEW g, job'[g] = job[g]
    PROVE  /\ GetFollowers(Who(g))' = GetFollowers(Who(g))
           /\ GetFollowing(Who(g))' = GetFollowing(Who(g))
<1>1. Who(g)' = Who(g)
  BY DEF Who
<1> QED BY <1>1 DEF GetFollowers, GetFollowing

\* Facts about the handlers' records.
LEMMA FreshJob ==
    ASSUME NEW e \in Event, NEW b \in BOOLEAN, NEW s \in Steps
    PROVE  /\ Fresh(e, b, s) \in Job /\ Fresh(e, b, s) # Idle
           /\ Fresh(e, b, s).at = s /\ Fresh(e, b, s).event = e
           /\ Fresh(e, b, s).request = b /\ Fresh(e, b, s).of = "author"
BY DEF Fresh, Job, Count, Zero, Idle, Steps

LEMMA FreshTarget ==
    ASSUME NEW e \in Event, NEW b \in BOOLEAN, NEW s \in Steps
    PROVE  /\ [Fresh(e, b, s) EXCEPT !.of = "target"] \in Job
           /\ [Fresh(e, b, s) EXCEPT !.of = "target"] # Idle
           /\ [Fresh(e, b, s) EXCEPT !.of = "target"].at = s
           /\ [Fresh(e, b, s) EXCEPT !.of = "target"].event = e
           /\ [Fresh(e, b, s) EXCEPT !.of = "target"].request = b
           /\ [Fresh(e, b, s) EXCEPT !.of = "target"].of = "target"
BY DEF Fresh, Job, Count, Zero, Idle, Steps

LEMMA BusyJob ==
    ASSUME GraphTypeOK, NEW h \in Handler
    PROVE  /\ Busy(h) => job[h] \in Job /\ job[h].event \in Event /\ job[h].at \in Steps
                         /\ job[h].of \in {"author", "target"} /\ Who(h) \in User
                         /\ job[h].request \in BOOLEAN
           /\ job[h].at \in Steps => Busy(h)
           /\ ~Busy(h) => job[h].at \notin Steps
BY DEF GraphTypeOK, Busy, Idle, Job, Steps, Who, Event

-----------------------------------------------------------------------------
\* Steps that write no row and no count, one lemma for all of them: every
\* handler is as it was, idle, or new at a step that has read nothing, and
\* nobody stops owing a count unless the counts are blurred.
QuietJob(h) ==
    \/ job'[h] = job[h]
    \/ job'[h] = Idle
    \/ job'[h].at \notin {"following", "upsert"}

LEMMA QuietStep ==
    ASSUME CountInv, GraphTypeOK', rows' = rows, counts' = counts,
           \A h \in Handler : QuietJob(h),
           \A p \in User : \A h \in Handler : Owes(h, p) => Owes(h, p)' \/ p \in blurred',
           blurred \subseteq blurred'
    PROVE  CountInv'
<1>1. ReadsExact'
  BY SameRows DEF CountInv, ReadsExact, QuietJob, Busy, Who, Idle
<1>2. CountsHeal'
  BY SameRows DEF CountInv, CountsHeal
<1> QED BY <1>1, <1>2 DEF CountInv

-----------------------------------------------------------------------------
\* Types.

LEMMA GotoType ==
    ASSUME GraphTypeOK, NEW h \in Handler, Busy(h), NEW s \in Steps, Goto(h, s)
    PROVE  /\ job' \in [Handler -> Job \cup {Idle}]
           /\ job'[h].at = s /\ job'[h] # Idle
           /\ job'[h].event = job[h].event /\ job'[h].of = job[h].of
           /\ job'[h].request = job[h].request
           /\ \A g \in Handler : g # h => job'[g] = job[g]
<1>1. job[h] \in Job
  BY BusyJob
<1>2. [job[h] EXCEPT !.at = s] \in Job
  BY <1>1 DEF Job
<1>3. job' = [job EXCEPT ![h] = [job[h] EXCEPT !.at = s]]
  BY DEF Goto
<1> QED BY <1>1, <1>2, <1>3 DEF GraphTypeOK, Job, Idle

LEMMA NextCountType ==
    ASSUME GraphTypeOK, NEW h \in Handler, Busy(h), NextCount(h)
    PROVE  /\ job' \in [Handler -> Job \cup {Idle}] /\ agreed' \subseteq User
           /\ sent' \subseteq Event
           /\ \A g \in Handler : g # h => job'[g] = job[g]
           /\ job[h].of = "author" =>
                 /\ job'[h] # Idle /\ job'[h].at = "followers"
                 /\ job'[h].of = "target" /\ job'[h].event = job[h].event
                 /\ job'[h].request = job[h].request
           /\ job[h].of = "target" => job'[h] = Idle
<1>1. job[h] \in Job /\ job[h].event \in Event /\ job[h].of \in {"author", "target"}
      /\ job[h].request \in BOOLEAN
  BY BusyJob
<1>2. "followers" \in Steps
  BY DEF Steps
<1>3. agreed' \subseteq User /\ sent' \subseteq Event
  BY <1>1 DEF NextCount, GraphTypeOK, Event
<1> QED BY <1>1, <1>2, <1>3, FreshTarget DEF NextCount, GraphTypeOK

LEMMA DisturbedType ==
    ASSUME GraphTypeOK, NEW h \in Handler, NEW e
    PROVE  /\ Disturbed(h, e) \in [Handler -> Job \cup {Idle}]
           /\ \A g \in Handler : g # h =>
                 \/ Disturbed(h, e)[g] = job[g] /\ (Busy(g) => ~Concerns(e, Who(g)))
                 \/ /\ Busy(g) /\ Disturbed(h, e)[g] # Idle
                    /\ Disturbed(h, e)[g].clean = FALSE
                    /\ Disturbed(h, e)[g].at = job[g].at /\ Disturbed(h, e)[g].of = job[g].of
                    /\ Disturbed(h, e)[g].event = job[g].event
                    /\ Disturbed(h, e)[g].request = job[g].request
<1>1. ASSUME NEW g \in Handler, Busy(g)
      PROVE  /\ [job[g] EXCEPT !.clean = FALSE] \in Job
             /\ [job[g] EXCEPT !.clean = FALSE] # Idle
             /\ [job[g] EXCEPT !.clean = FALSE].clean = FALSE
             /\ [job[g] EXCEPT !.clean = FALSE].at = job[g].at
             /\ [job[g] EXCEPT !.clean = FALSE].of = job[g].of
             /\ [job[g] EXCEPT !.clean = FALSE].event = job[g].event
             /\ [job[g] EXCEPT !.clean = FALSE].request = job[g].request
  <2>1. job[g] \in Job
    BY <1>1, BusyJob
  <2> QED BY <2>1 DEF Job, Idle, Steps
<1> QED BY <1>1 DEF Disturbed, GraphTypeOK, Busy

LEMMA InsertType ==
    ASSUME GraphTypeOK, NEW h \in Handler, InsertFollowEvent(h)
    PROVE  /\ job' \in [Handler -> Job \cup {Idle}] /\ rows' \subseteq Event
           /\ Busy(h) /\ job[h].event \in Event
           /\ job'[h] # Idle /\ job'[h].event = job[h].event
           /\ job'[h].request = job[h].request
           /\ job'[h].of = "author" /\ job'[h].at \in {"notify", "followers"}
           /\ \A g \in Handler : g # h => job'[g] = Disturbed(h, job[h].event)[g]
<1> DEFINE e == job[h].event
           b == job[h].request
           s == IF ~b /\ e.action = "follow" THEN "notify" ELSE "followers"
<1>1. Busy(h) /\ e \in Event /\ b \in BOOLEAN /\ s \in Steps
  BY BusyJob DEF InsertFollowEvent, Steps
<1>8. Disturbed(h, e)[h] = job[h]
  BY DEF Disturbed
<1>3. job' = [Disturbed(h, e) EXCEPT ![h] = Fresh(e, b, s)] /\ rows' = WithEvent(e)
  BY <1>8 DEF InsertFollowEvent
<1>4. Disturbed(h, e) \in [Handler -> Job \cup {Idle}]
  BY DisturbedType
<1>5. rows' \subseteq Event
  BY <1>1, <1>3 DEF WithEvent, GraphTypeOK
<1>6. s \in {"notify", "followers"}
  OBVIOUS
<1> HIDE DEF e, b, s
<1>2. Fresh(e, b, s) \in Job /\ Fresh(e, b, s) # Idle /\ Fresh(e, b, s).at = s
      /\ Fresh(e, b, s).event = e /\ Fresh(e, b, s).request = b /\ Fresh(e, b, s).of = "author"
  BY <1>1, FreshJob
<1>7. job'[h] = Fresh(e, b, s) /\ job' \in [Handler -> Job \cup {Idle}]
      /\ \A g \in Handler : g # h => job'[g] = Disturbed(h, e)[g]
  BY <1>2, <1>3, <1>4
<1> QED BY <1>1, <1>2, <1>5, <1>6, <1>7 DEF e, b

LEMMA ReadTypes ==
    ASSUME GraphTypeOK, NEW h \in Handler, CountFollowers(h) \/ CountFollowing(h)
    PROVE  /\ job' \in [Handler -> Job \cup {Idle}] /\ Busy(h)
           /\ job'[h] # Idle /\ job'[h].event = job[h].event /\ job'[h].of = job[h].of
           /\ job'[h].request = job[h].request
           /\ CountFollowers(h) =>
                 /\ job[h].at = "followers" /\ job'[h].at = "following"
                 /\ job'[h].got.followers = Cardinality(GetFollowers(Who(h)))
           /\ CountFollowing(h) =>
                 /\ job[h].at = "following" /\ job'[h].at = "upsert"
                 /\ job'[h].clean = job[h].clean
                 /\ job'[h].got.followers = job[h].got.followers
                 /\ job'[h].got.following = Cardinality(GetFollowing(Who(h)))
           /\ \A g \in Handler : g # h => job'[g] = job[g]
<1>1. Busy(h) /\ job[h] \in Job
  BY BusyJob DEF CountFollowers, CountFollowing, Steps
<1>2. Cardinality(GetFollowers(Who(h))) \in Nat /\ Cardinality(GetFollowing(Who(h))) \in Nat
  BY CountTypes
<1>3. CASE CountFollowers(h)
  <2>1. [Zero EXCEPT !.followers = Cardinality(GetFollowers(Who(h)))] \in Count
    BY <1>2 DEF Zero, Count
  <2>2. "following" \in Steps
    BY DEF Steps
  <2>3. [job[h] EXCEPT !.at = "following", !.clean = TRUE,
           !.got = [Zero EXCEPT !.followers = Cardinality(GetFollowers(Who(h)))]] \in Job
    BY <1>1, <2>1, <2>2 DEF Job
  <2> QED BY <1>1, <1>3, <2>1, <2>3 DEF CountFollowers, CountFollowing, GraphTypeOK, Job, Idle, Zero
<1>4. CASE CountFollowing(h)
  <2>1. [job[h].got EXCEPT !.following = Cardinality(GetFollowing(Who(h)))] \in Count
    BY <1>1, <1>2 DEF Job, Count
  <2>2. "upsert" \in Steps
    BY DEF Steps
  <2>3. [job[h] EXCEPT !.at = "upsert",
           !.got = [job[h].got EXCEPT !.following = Cardinality(GetFollowing(Who(h)))]] \in Job
    BY <1>1, <2>1, <2>2 DEF Job
  <2> DEFINE J == [job[h] EXCEPT !.at = "upsert",
           !.got = [job[h].got EXCEPT !.following = Cardinality(GetFollowing(Who(h)))]]
  <2>4. job' = [job EXCEPT ![h] = J]
    BY <1>4 DEF CountFollowing
  <2>5. job[h].got \in Count
    BY <1>1 DEF Job
  <2>6. J # Idle /\ J.event = job[h].event /\ J.of = job[h].of /\ J.at = "upsert"
        /\ J.request = job[h].request /\ J.clean = job[h].clean /\ J.got.followers = job[h].got.followers
        /\ J.got.following = Cardinality(GetFollowing(Who(h)))
    BY <1>1, <2>5 DEF Job, Idle, Count
  <2>7. job[h].at = "following"
    BY <1>4 DEF CountFollowing
  <2>8. J \in Job
    BY <2>3
  <2> HIDE DEF J
  <2> QED BY <1>1, <2>4, <2>6, <2>7, <2>8 DEF CountFollowers, GraphTypeOK
<1> QED BY <1>3, <1>4

LEMMA TypeStep ==
    ASSUME GraphTypeOK, [Next]_vars
    PROVE  GraphTypeOK'
<1> USE GraphAssumption
<1>1. ASSUME NEW h \in Handler, NEW e \in sent, Deliver(h, e)
      PROVE  GraphTypeOK'
  <2>1. e \in Event /\ "row" \in Steps
    BY DEF GraphTypeOK, Steps
  <2>2. job' \in [Handler -> Job \cup {Idle}]
    BY <1>1, <2>1, FreshJob DEF Deliver, GraphTypeOK
  <2>3. /\ UNCHANGED <<feedVars, graphVars, sent, events, loads, faults>>
        /\ inbox < MaxInbox /\ inbox' = inbox + 1
    BY <1>1 DEF Deliver
  <2> QED BY <2>2, <2>3 DEF GraphTypeOK, feedVars, graphVars
<1>2. ASSUME NEW h \in Handler, NEW a \in Local, NEW p \in User,
             NEW action \in {"follow", "unfollow"}, Request(h, a, p, action)
      PROVE  GraphTypeOK'
  <2>1. Signed(a, p, action) \in Event /\ "check" \in Steps
    BY <1>2 DEF Signed, Event, Steps, Request, GraphTypeOK
  <2>2. job' \in [Handler -> Job \cup {Idle}]
    BY <1>2, <2>1, FreshJob DEF Request, GraphTypeOK
  <2>3. reload' \in Reload \cup {Idle}
    <3>1. CASE reload = Idle \/ a # Me
      BY <1>2, <3>1 DEF Request, GraphTypeOK
    <3>2. CASE reload # Idle /\ reload \in Reload /\ a = Me
      BY <1>2, <3>2 DEF Request, Reload
    <3> QED BY <3>1, <3>2 DEF GraphTypeOK
  <2>4. /\ UNCHANGED <<subs, cache, mine, echoed, graphVars, sent, inbox, loads, faults>>
        /\ events < MaxEvents /\ events' = events + 1
        /\ raced' \subseteq raced \cup {p} /\ agreed' \subseteq agreed
    BY <1>2 DEF Request
  <2> QED BY <2>2, <2>3, <2>4 DEF GraphTypeOK, graphVars
<1>3. ASSUME NEW a \in User, NEW p \in User, NEW action \in {"follow", "unfollow"},
             Publish(a, p, action)
      PROVE  GraphTypeOK'
  <2>1. Signed(a, p, action) \in Event
    BY <1>3 DEF Signed, Event, Publish, GraphTypeOK
  <2> QED BY <1>3, <2>1 DEF Publish, GraphTypeOK, feedVars, graphVars
<1>4. ASSUME NEW h \in Handler,
             \/ CheckCache(h) \/ ChangeSubscription(h) \/ ChangeCache(h) \/ ChangeTopic(h)
             \/ NotifyFollow(h) \/ NotifyFails(h)
      PROVE  GraphTypeOK'
  <2>1. Busy(h) /\ job[h].event \in Event
    BY <1>4, BusyJob DEF CheckCache, ChangeSubscription, ChangeCache, ChangeTopic,
       NotifyFollow, NotifyFails, Steps
  <2>2. \E s \in Steps : Goto(h, s)
    BY <1>4 DEF CheckCache, ChangeSubscription, ChangeCache, ChangeTopic,
       NotifyFollow, NotifyFails, Steps
  <2>3. job' \in [Handler -> Job \cup {Idle}]
    BY <2>1, <2>2, GotoType
  <2>4. job[h].event.target \in User /\ job[h].event.author \in User
    BY <2>1 DEF Event
  <2> QED BY <1>4, <2>3, <2>4 DEF CheckCache, ChangeSubscription, ChangeCache, ChangeTopic,
       NotifyFollow, NotifyFails, GraphTypeOK, feedVars, graphVars, envVars, Fault
<1>5. ASSUME NEW h \in Handler, InsertFollowEvent(h)
      PROVE  GraphTypeOK'
  <2>1. job[h].event.target \in User
    BY <1>5, InsertType DEF Event
  <2> QED BY <1>5, <2>1, InsertType DEF InsertFollowEvent, GraphTypeOK, envVars
<1>6. ASSUME NEW h \in Handler, CountFollowers(h) \/ CountFollowing(h)
      PROVE  GraphTypeOK'
  BY <1>6, ReadTypes DEF CountFollowers, CountFollowing, GraphTypeOK, feedVars, graphVars, envVars
<1>7. ASSUME NEW h \in Handler, UpdateFollowerCount(h) \/ CountFails(h)
      PROVE  GraphTypeOK'
  <2>1. Busy(h) /\ Who(h) \in User /\ job[h].got \in Count
    BY <1>7, BusyJob DEF UpdateFollowerCount, CountFails, Steps, Job
  <2>2. NextCount(h)
    BY <1>7 DEF UpdateFollowerCount, CountFails
  <2> QED BY <1>7, <2>1, <2>2, NextCountType
      DEF UpdateFollowerCount, CountFails, GraphTypeOK, envVars, Fault
<1>8. ASSUME NEW h \in Handler, Fails(h)
      PROVE  GraphTypeOK'
  BY <1>8 DEF Fails, GraphTypeOK, feedVars, graphVars, Fault
<1>9. ASSUME NEW l \in Loadable, Restart(l) \/ LoadSubscriptions(l)
      PROVE  GraphTypeOK'
  <2>1. l.set \subseteq User /\ l.own \in BOOLEAN
    BY DEF Loadable, GraphTypeOK
  <2>2. CASE Restart(l)
    BY <2>1, <2>2 DEF Restart, GraphTypeOK, Fault
  <2>3. CASE LoadSubscriptions(l)
    <3>1. reload' \in Reload
      BY <2>1, <2>3 DEF LoadSubscriptions, Reload
    <3> QED BY <2>3, <3>1 DEF LoadSubscriptions, GraphTypeOK, graphVars
  <2> QED BY <1>9, <2>2, <2>3
<1>11. ASSUME SwapCache
       PROVE  GraphTypeOK'
  <2>1. reload \in Reload
    BY <1>11 DEF SwapCache, GraphTypeOK
  <2>2. reload.set \subseteq User /\ reload.own \in BOOLEAN /\ reload.met \subseteq User
    BY <2>1 DEF Reload
  <2> QED BY <1>11, <2>2 DEF SwapCache, GraphTypeOK, graphVars, envVars
<1>10. ASSUME UNCHANGED vars
       PROVE  GraphTypeOK'
  BY <1>10 DEF vars, feedVars, graphVars, envVars, GraphTypeOK
<1> QED BY <1>1, <1>2, <1>3, <1>4, <1>5, <1>6, <1>7, <1>8, <1>9, <1>10, <1>11 DEF Next, Step

-----------------------------------------------------------------------------
\* The counts.

LEMMA InsertCounts ==
    ASSUME CountInv, GraphTypeOK', NEW h \in Handler, InsertFollowEvent(h)
    PROVE  CountInv'
<1> DEFINE e == job[h].event
<1>1. GraphTypeOK /\ rows' = WithEvent(e) /\ counts' = counts /\ blurred' = blurred
      /\ job[h].at = "row"
  BY DEF CountInv, InsertFollowEvent
<1>2. ASSUME NEW g \in Handler, g # h
      PROVE  \/ job'[g] = job[g] /\ (Busy(g) => ~Concerns(e, Who(g)))
             \/ /\ Busy(g) /\ job'[g] # Idle /\ job'[g].clean = FALSE
                /\ job'[g].at = job[g].at /\ job'[g].of = job[g].of
                /\ job'[g].event = job[g].event
  <2>1. job'[g] = Disturbed(h, e)[g]
    BY <1>1, <1>2, InsertType
  <2> HIDE DEF e
  <2>2. \/ Disturbed(h, e)[g] = job[g] /\ (Busy(g) => ~Concerns(e, Who(g)))
        \/ /\ Busy(g) /\ Disturbed(h, e)[g] # Idle
           /\ Disturbed(h, e)[g].clean = FALSE
           /\ Disturbed(h, e)[g].at = job[g].at /\ Disturbed(h, e)[g].of = job[g].of
           /\ Disturbed(h, e)[g].event = job[g].event
           /\ Disturbed(h, e)[g].request = job[g].request
    BY <1>1, <1>2, DisturbedType, Zenon
  <2> QED BY <2>1, <2>2
<1>3. job'[h] # Idle /\ job'[h].event = e /\ job'[h].of = "author"
      /\ job'[h].at \in {"notify", "followers"}
  BY <1>1, InsertType
<1> HIDE DEF e
<1>4. ReadsExact'
  <2> SUFFICES ASSUME NEW g \in Handler, Busy(g)', job'[g].clean
               PROVE  /\ job'[g].at \in {"following", "upsert"} =>
                            job'[g].got.followers = Cardinality(GetFollowers(Who(g)))'
                      /\ job'[g].at = "upsert" =>
                            job'[g].got.following = Cardinality(GetFollowing(Who(g)))'
    BY DEF ReadsExact
  <2>1. CASE g = h
    BY <1>3, <2>1
  <2>2. CASE g # h
    <3>1. job'[g] = job[g] /\ Busy(g) /\ ~Concerns(e, Who(g))
      BY <1>2, <2>2 DEF Busy
    <3>2. Who(g)' = Who(g)
      BY <3>1 DEF Who
    <3>3. GetFollowers(Who(g))' = GetFollowers(Who(g))
          /\ GetFollowing(Who(g))' = GetFollowing(Who(g))
      BY <1>1, <3>1, <3>2 DEF GetFollowers, GetFollowing, WithEvent, Concerns
    <3> QED BY <3>1, <3>3 DEF CountInv, ReadsExact
  <2> QED BY <2>1, <2>2
<1>5. CountsHeal'
  <2> SUFFICES ASSUME NEW p \in User \ blurred, \A g \in Handler : ~Owes(g, p)'
               PROVE  counts[p] = [followers |-> Cardinality(GetFollowers(p)'),
                                   following |-> Cardinality(GetFollowing(p)')]
    BY <1>1 DEF CountsHeal
  <2>1. ~Concerns(e, p)
    BY <1>3 DEF Owes, Busy, Concerns
  <2>2. \A g \in Handler : ~Owes(g, p)
    BY <1>1, <1>2 DEF Owes, Busy
  <2> QED BY <1>1, <2>1, <2>2, OthersKeepCounts DEF CountInv, CountsHeal
<1> QED BY <1>4, <1>5 DEF CountInv

LEMMA ReadCounts ==
    ASSUME CountInv, GraphTypeOK', NEW h \in Handler, CountFollowers(h) \/ CountFollowing(h)
    PROVE  CountInv'
<1>1. GraphTypeOK /\ rows' = rows /\ counts' = counts /\ blurred' = blurred
  BY DEF CountInv, CountFollowers, CountFollowing, graphVars
<1>2. Busy(h) /\ job'[h] # Idle /\ job'[h].event = job[h].event /\ job'[h].of = job[h].of
      /\ \A g \in Handler : g # h => job'[g] = job[g]
  BY <1>1, ReadTypes
<1>3. Who(h)' = Who(h)
  BY <1>2 DEF Who
<1>4. ReadsExact'
  <2> SUFFICES ASSUME NEW g \in Handler, Busy(g)', job'[g].clean
               PROVE  /\ job'[g].at \in {"following", "upsert"} =>
                            job'[g].got.followers = Cardinality(GetFollowers(Who(g)))'
                      /\ job'[g].at = "upsert" =>
                            job'[g].got.following = Cardinality(GetFollowing(Who(g)))'
    BY DEF ReadsExact
  <2>1. CASE g # h
    <3>1. job'[g] = job[g] /\ Busy(g)
      BY <1>2, <2>1 DEF Busy
    <3>2. GetFollowers(Who(g))' = GetFollowers(Who(g))
          /\ GetFollowing(Who(g))' = GetFollowing(Who(g))
      BY <1>1, <3>1, SameReads
    <3> QED BY <3>1, <3>2 DEF CountInv, ReadsExact
  <2>2. CASE g = h
    <3>1. GetFollowers(Who(h))' = GetFollowers(Who(h))
          /\ GetFollowing(Who(h))' = GetFollowing(Who(h))
      BY <1>1, <1>3 DEF GetFollowers, GetFollowing
    <3>2. CASE CountFollowers(h)
      BY <1>1, <2>2, <3>1, <3>2, ReadTypes
    <3>3. CASE CountFollowing(h)
      <4>1. job[h].clean /\ job[h].at = "following"
            /\ job'[h].got.followers = job[h].got.followers
            /\ job'[h].got.following = Cardinality(GetFollowing(Who(h)))
        BY <1>1, <2>2, <3>3, ReadTypes
      <4>2. job[h].got.followers = Cardinality(GetFollowers(Who(h)))
        BY <1>2, <4>1 DEF CountInv, ReadsExact
      <4> QED BY <2>2, <3>1, <4>1, <4>2
    <3> QED BY <3>2, <3>3
  <2> QED BY <2>1, <2>2
<1>5. CountsHeal'
  <2>1. ASSUME NEW p \in User, NEW g \in Handler, Owes(g, p)
        PROVE  Owes(g, p)'
    <3>1. CASE g # h
      BY <1>2, <2>1, <3>1 DEF Owes, Busy
    <3>2. CASE g = h
      <4>1. job'[h].at \in {"following", "upsert"}
        BY <1>1, ReadTypes
      <4> QED BY <1>2, <2>1, <3>2, <4>1 DEF Owes, Busy
    <3> QED BY <3>1, <3>2
  <2> QED BY <1>1, <2>1, SameRows DEF CountInv, CountsHeal
<1> QED BY <1>4, <1>5 DEF CountInv

LEMMA UpsertCounts ==
    ASSUME CountInv, GraphTypeOK', NEW h \in Handler, UpdateFollowerCount(h)
    PROVE  CountInv'
<1>1. GraphTypeOK /\ rows' = rows /\ job[h].at = "upsert" /\ NextCount(h)
      /\ counts' = [counts EXCEPT ![Who(h)] = job[h].got]
      /\ blurred' = IF job[h].clean THEN blurred \ {Who(h)} ELSE blurred \cup {Who(h)}
  BY DEF CountInv, UpdateFollowerCount
<1>2. Busy(h) /\ Who(h) \in User /\ job[h] \in Job /\ job[h].of \in {"author", "target"}
  BY <1>1, BusyJob DEF Steps
<1>3. /\ \A g \in Handler : g # h => job'[g] = job[g]
      /\ job[h].of = "author" => /\ job'[h] # Idle /\ job'[h].at = "followers"
                                 /\ job'[h].of = "target" /\ job'[h].event = job[h].event
      /\ job[h].of = "target" => job'[h] = Idle
  BY <1>1, <1>2, NextCountType
<1>4. ReadsExact'
  <2> SUFFICES ASSUME NEW g \in Handler, Busy(g)', job'[g].clean
               PROVE  /\ job'[g].at \in {"following", "upsert"} =>
                            job'[g].got.followers = Cardinality(GetFollowers(Who(g)))'
                      /\ job'[g].at = "upsert" =>
                            job'[g].got.following = Cardinality(GetFollowing(Who(g)))'
    BY DEF ReadsExact
  <2>1. CASE g # h
    <3>1. job'[g] = job[g] /\ Busy(g)
      BY <1>3, <2>1 DEF Busy
    <3>2. GetFollowers(Who(g))' = GetFollowers(Who(g))
          /\ GetFollowing(Who(g))' = GetFollowing(Who(g))
      BY <1>1, <3>1, SameReads
    <3> QED BY <3>1, <3>2 DEF CountInv, ReadsExact
  <2>2. CASE g = h
    BY <1>2, <1>3, <2>2 DEF Busy
  <2> QED BY <2>1, <2>2
<1>5. CountsHeal'
  <2> SUFFICES ASSUME NEW p \in User, p \notin blurred', \A g \in Handler : ~Owes(g, p)'
               PROVE  counts'[p] = [followers |-> Cardinality(GetFollowers(p)'),
                                    following |-> Cardinality(GetFollowing(p)')]
    BY DEF CountsHeal
  <2>1. CASE p = Who(h)
    <3>1. job[h].clean /\ counts'[p] = job[h].got
      BY <1>1, <1>2, <2>1 DEF GraphTypeOK
    <3>2. job[h].got \in Count
      BY <1>2 DEF Job
    <3>3. job[h].got.followers = Cardinality(GetFollowers(p))
          /\ job[h].got.following = Cardinality(GetFollowing(p))
      BY <1>1, <1>2, <2>1, <3>1 DEF CountInv, ReadsExact
    <3>4. job[h].got = [followers |-> Cardinality(GetFollowers(p)),
                        following |-> Cardinality(GetFollowing(p))]
      BY <3>2, <3>3 DEF Count
    <3> QED BY <1>1, <3>1, <3>4, SameRows
  <2>2. CASE p # Who(h)
    <3>1. \A g \in Handler : ~Owes(g, p)
      <4>1. ~Owes(h, p)
        BY <1>2, <1>3, <2>2 DEF Owes, Busy, Who
      <4>2. \A g \in Handler : g # h => ~Owes(g, p)
        BY <1>3 DEF Owes, Busy
      <4> QED BY <4>1, <4>2
    <3>2. p \notin blurred /\ counts'[p] = counts[p]
      BY <1>1, <2>2 DEF GraphTypeOK
    <3> QED BY <1>1, <3>1, <3>2, SameRows DEF CountInv, CountsHeal
  <2> QED BY <2>1, <2>2
<1> QED BY <1>4, <1>5 DEF CountInv

LEMMA CountStep ==
    ASSUME CountInv, [Next]_vars
    PROVE  CountInv'
<1>0. GraphTypeOK /\ GraphTypeOK'
  BY TypeStep DEF CountInv
<1>1. ASSUME NEW h \in Handler, NEW e \in sent, Deliver(h, e)
      PROVE  CountInv'
  <2>1. \A g \in Handler : job'[g] = job[g] \/ (g = h /\ ~Busy(g) /\ job'[g].at = "row")
    <3>1. e \in Event /\ "row" \in Steps
      BY <1>0 DEF GraphTypeOK, Steps
    <3>2. Fresh(e, FALSE, "row").at = "row"
      BY DEF Fresh
    <3> QED BY <1>0, <1>1, <3>2 DEF Deliver, GraphTypeOK
  <2>2. rows' = rows /\ counts' = counts /\ blurred' = blurred
    BY <1>1 DEF Deliver, graphVars
  <2> QED BY <1>0, <2>1, <2>2, QuietStep DEF QuietJob, Owes, Busy
<1>2. ASSUME NEW h \in Handler, NEW a \in Local, NEW p \in User,
             NEW action \in {"follow", "unfollow"}, Request(h, a, p, action)
      PROVE  CountInv'
  <2>1. \A g \in Handler : job'[g] = job[g] \/ (g = h /\ ~Busy(g) /\ job'[g].at = "check")
    <3>1. Signed(a, p, action) \in Event /\ "check" \in Steps
      BY <1>0, <1>2, GraphAssumption DEF Signed, Event, Steps, Request, GraphTypeOK
    <3>2. Fresh(Signed(a, p, action), TRUE, "check").at = "check"
      BY <3>1, FreshJob
    <3> QED BY <1>0, <1>2, <3>2 DEF Request, GraphTypeOK
  <2>2. rows' = rows /\ counts' = counts /\ blurred' = blurred
    BY <1>2 DEF Request, graphVars
  <2> QED BY <1>0, <2>1, <2>2, QuietStep DEF QuietJob, Owes, Busy
<1>3. ASSUME NEW a \in User, NEW p \in User, NEW action \in {"follow", "unfollow"},
             Publish(a, p, action)
      PROVE  CountInv'
  BY <1>0, <1>3, QuietStep DEF Publish, graphVars, QuietJob, Owes, Busy
<1>4. ASSUME NEW h \in Handler,
             \/ CheckCache(h) \/ ChangeSubscription(h) \/ ChangeCache(h) \/ ChangeTopic(h)
             \/ NotifyFollow(h) \/ NotifyFails(h)
      PROVE  CountInv'
  <2>1. Busy(h)
    BY <1>0, <1>4, BusyJob DEF CheckCache, ChangeSubscription, ChangeCache, ChangeTopic,
       NotifyFollow, NotifyFails, Steps
  <2>2. PICK s \in Steps : /\ Goto(h, s) /\ s \notin {"following", "upsert"}
                           /\ job[h].at = "notify" => s = "followers"
                           /\ job[h].at \notin {"followers", "following", "upsert"}
    BY <1>4 DEF CheckCache, ChangeSubscription, ChangeCache, ChangeTopic,
       NotifyFollow, NotifyFails, Steps
  <2>3. /\ job'[h].at = s /\ job'[h] # Idle
        /\ job'[h].event = job[h].event /\ job'[h].of = job[h].of
        /\ \A g \in Handler : g # h => job'[g] = job[g]
    BY <1>0, <2>1, <2>2, GotoType
  <2>4. rows' = rows /\ counts' = counts /\ blurred' = blurred
    BY <1>4 DEF CheckCache, ChangeSubscription, ChangeCache, ChangeTopic,
       NotifyFollow, NotifyFails, graphVars
  <2>5. \A g \in Handler : QuietJob(g)
    BY <2>2, <2>3 DEF QuietJob
  <2>6. ASSUME NEW p \in User, NEW g \in Handler, Owes(g, p)
        PROVE  Owes(g, p)'
    BY <2>2, <2>3, <2>6 DEF Owes, Busy
  <2> QED BY <1>0, <2>4, <2>5, <2>6, QuietStep
<1>5. ASSUME NEW h \in Handler, InsertFollowEvent(h)
      PROVE  CountInv'
  BY <1>0, <1>5, InsertCounts
<1>6. ASSUME NEW h \in Handler, CountFollowers(h) \/ CountFollowing(h)
      PROVE  CountInv'
  BY <1>0, <1>6, ReadCounts
<1>7. ASSUME NEW h \in Handler, UpdateFollowerCount(h)
      PROVE  CountInv'
  BY <1>0, <1>7, UpsertCounts
<1>8. ASSUME NEW h \in Handler, CountFails(h)
      PROVE  CountInv'
  <2>1. Busy(h) /\ job[h].of \in {"author", "target"} /\ NextCount(h)
    BY <1>0, <1>8, BusyJob DEF CountFails, Steps
  <2>2. /\ \A g \in Handler : g # h => job'[g] = job[g]
        /\ job[h].of = "author" => /\ job'[h] # Idle /\ job'[h].at = "followers"
                                   /\ job'[h].of = "target" /\ job'[h].event = job[h].event
        /\ job[h].of = "target" => job'[h] = Idle
    BY <1>0, <2>1, NextCountType
  <2>3. rows' = rows /\ counts' = counts /\ blurred' = blurred \cup {Who(h)}
    BY <1>8 DEF CountFails
  <2>4. \A g \in Handler : QuietJob(g)
    BY <2>1, <2>2 DEF QuietJob
  <2>5. ASSUME NEW p \in User, NEW g \in Handler, Owes(g, p)
        PROVE  Owes(g, p)' \/ p \in blurred'
    BY <2>1, <2>2, <2>3, <2>5 DEF Owes, Busy, Who
  <2> QED BY <1>0, <2>3, <2>4, <2>5, QuietStep
<1>9. ASSUME NEW h \in Handler, Fails(h)
      PROVE  CountInv'
  <2>1. \A g \in Handler : job'[g] = job[g] \/ (g = h /\ job'[g] = Idle)
    BY <1>0, <1>9 DEF Fails, GraphTypeOK
  <2>2. rows' = rows /\ counts' = counts /\ blurred' = blurred
        /\ job[h].at \in {"sub", "topic", "row"}
    BY <1>9 DEF Fails, graphVars
  <2> QED BY <1>0, <2>1, <2>2, QuietStep DEF QuietJob, Owes, Busy
<1>10. ASSUME NEW l \in Loadable, Restart(l)
       PROVE  CountInv'
  <2>1. \A g \in Handler : QuietJob(g)
    BY <1>10 DEF Restart, QuietJob
  <2>2. \A p \in User : \A g \in Handler : Owes(g, p) => p \in blurred'
    BY <1>10 DEF Restart
  <2> QED BY <1>0, <1>10, <2>1, <2>2, QuietStep DEF Restart
<1>11. ASSUME UNCHANGED vars \/ SwapCache \/ \E l \in Loadable : LoadSubscriptions(l)
       PROVE  CountInv'
  <2>1. UNCHANGED <<graphVars, job>>
    BY <1>11 DEF vars, SwapCache, LoadSubscriptions
  <2> QED BY <1>0, <2>1, QuietStep DEF graphVars, QuietJob, Owes, Busy
<1> QED BY <1>1, <1>2, <1>3, <1>4, <1>5, <1>6, <1>7, <1>8, <1>9, <1>10, <1>11 DEF Next, Step

LEMMA CountInit ==
    ASSUME Init
    PROVE  CountInv
<1>1. GraphTypeOK
  BY GraphAssumption DEF Init, GraphTypeOK, Zero, Count
<1>2. ReadsExact
  BY DEF Init, ReadsExact, Busy
<1>3. CountsHeal
  <2>1. \A p \in User : GetFollowers(p) = {} /\ GetFollowing(p) = {}
    BY DEF Init, GetFollowers, GetFollowing
  <2> QED BY <2>1, FS_EmptySet DEF Init, CountsHeal, Zero
<1> QED BY <1>1, <1>2, <1>3 DEF CountInv

\* UpdateFollowerCount, whoever calls it, leaves the counts of a person right,
\* but for a recount that failed, was lost or was overtaken, and the next one
\* repairs it.
THEOREM CountsHealTheorem == Spec => [](GraphTypeOK /\ CountsHeal)
<1>1. CountInv => GraphTypeOK /\ CountsHeal
  BY DEF CountInv
<1> QED BY CountInit, CountStep, <1>1, PTL DEF Spec

-----------------------------------------------------------------------------
(* The node's own events.                                                  *)

Nobody(p) == \A h \in Handler : ~On(h, p)

\* The manager's steps belong to requests.
OwnOnly ==
    \A h \in Handler :
        job[h].at \in {"check", "sub", "cache", "topic"} => job[h].request

\* What a request has brought about when it stands at a step.
Progress(h, p) ==
    /\ job[h].at \in {"check", "sub"} => (p \in subs <=> p \in cache)
    /\ job[h].at = "cache" => (p \in subs <=> Follows(h))
    /\ job[h].at \notin {"check", "sub", "cache"} =>
          (p \in subs <=> Follows(h)) /\ (p \in cache <=> Follows(h))
    /\ job[h].at \notin {"check", "sub", "cache", "topic", "row"} =>
          (p \notin echoed => (p \in GetFollowing(Me) <=> Follows(h)))

\* Requests about p are served one by one, while the cache is the one of Me,
\* and leave subscription and cache the same even when they fail; a request
\* that returned nil leaves the event the same too, until a message writes it.
Settled(p) ==
    /\ \A g, h \in Handler : On(g, p) /\ On(h, p) => g = h
    /\ \A h \in Handler : On(h, p) => Progress(h, p) /\ mine
    /\ Nobody(p) /\ mine => (p \in subs <=> p \in cache)
    /\ p \in agreed => /\ Nobody(p)
                       /\ p \notin echoed => (p \in subs <=> p \in GetFollowing(Me))

\* What a reload for Me has loaded is still in the table, but for the people
\* it has met a request about.
Loaded ==
    reload # Idle =>
        \A p \in User \ reload.met :
            Nobody(p) /\ (reload.own => (p \in reload.set <=> p \in subs))

AgreeInv == GraphTypeOK /\ OwnOnly /\ Loaded /\ \A p \in User \ raced : Settled(p)

\* The handler keeps its place.
SameJob(g) ==
    /\ Busy(g)' <=> Busy(g)
    /\ job'[g].at = job[g].at /\ job'[g].event = job[g].event
    /\ job'[g].request = job[g].request

-----------------------------------------------------------------------------
\* A step that is not about p.
LEMMA NotAbout ==
    ASSUME NEW p, Settled(p),
           \A g \in Handler : SameJob(g) \/ (~On(g, p) /\ ~On(g, p)'),
           p \in subs' <=> p \in subs, p \in cache' <=> p \in cache, mine' = mine,
           p \notin echoed' => /\ p \notin echoed
                               /\ p \in GetFollowing(Me)' <=> p \in GetFollowing(Me),
           p \in agreed' => p \in agreed
    PROVE  Settled(p)'
<1>1. \A g \in Handler : On(g, p)' <=> On(g, p)
  BY DEF SameJob, On
<1>2. \A g \in Handler : On(g, p)' => Progress(g, p)'
  BY <1>1 DEF Settled, SameJob, Progress, Follows
<1> QED BY <1>1, <1>2 DEF Settled, Nobody

\* A step of the one request about p.
LEMMA About ==
    ASSUME NEW p, Settled(p), NEW h \in Handler, On(h, p), mine' = mine,
           \A g \in Handler : g # h => SameJob(g),
           On(h, p)' => Progress(h, p)' /\ p \notin agreed',
           ~On(h, p)' => /\ p \in subs' <=> p \in cache'
                         /\ p \in agreed' /\ p \notin echoed' =>
                               (p \in subs' <=> p \in GetFollowing(Me)')
    PROVE  Settled(p)'
<1>1. \A g \in Handler : g # h => ~On(g, p) /\ ~On(g, p)'
  BY DEF Settled, SameJob, On
<1>2. p \notin agreed /\ mine
  BY DEF Settled, Nobody
<1> QED BY <1>1, <1>2 DEF Settled, Nobody

\* A step that begins no request, and changes the table for nobody but the
\* person of a request.
LEMMA LoadedKept ==
    ASSUME Loaded, reload' = reload,
           \A g \in Handler, p \in User : On(g, p)' => On(g, p),
           \A p \in User : Nobody(p) => (p \in subs' <=> p \in subs)
    PROVE  Loaded'
BY DEF Loaded, Nobody

\* Rows of others, and about others, leave what the node follows alone.
LEMMA SameFollowing ==
    ASSUME NEW e, NEW p, rows' = WithEvent(e), e.author # Me \/ e.target # p
    PROVE  p \in GetFollowing(Me)' <=> p \in GetFollowing(Me)
<1>1. \A r : r.author = Me /\ r.target = p => (r \in rows' <=> r \in rows)
  BY DEF WithEvent
<1> QED BY <1>1 DEF GetFollowing

LEMMA NewFollowing ==
    ASSUME NEW e, rows' = WithEvent(e), e.author = Me
    PROVE  e.target \in GetFollowing(Me)' <=> e.action = "follow"
<1>1. \A r \in rows' : r.author = Me /\ r.target = e.target => r = e
  BY DEF WithEvent
<1>2. e \in rows'
  BY DEF WithEvent
<1> QED BY <1>1, <1>2 DEF GetFollowing

LEMMA SameFollowingRows ==
    ASSUME rows' = rows
    PROVE  GetFollowing(Me)' = GetFollowing(Me)
BY DEF GetFollowing

-----------------------------------------------------------------------------
LEMMA DeliverAgrees ==
    ASSUME AgreeInv, GraphTypeOK', NEW h \in Handler, NEW e \in sent, Deliver(h, e)
    PROVE  AgreeInv'
<1>1. GraphTypeOK /\ OwnOnly /\ e \in Event /\ "row" \in Steps
  BY DEF AgreeInv, GraphTypeOK, Steps
<1>6. Fresh(e, FALSE, "row").at = "row" /\ Fresh(e, FALSE, "row").request = FALSE
  BY DEF Fresh
<1>2. /\ ~Busy(h) /\ job'[h].at = "row" /\ ~job'[h].request
      /\ \A g \in Handler : g # h => job'[g] = job[g]
  BY <1>1, <1>6 DEF Deliver, GraphTypeOK
<1>3. UNCHANGED <<subs, cache, reload, mine, raced, echoed, agreed, rows, sent>>
  BY DEF Deliver, feedVars, graphVars
<1>4. OwnOnly'
  BY <1>1, <1>2 DEF OwnOnly, Busy
<1>7. \A g \in Handler, p \in User : SameJob(g) \/ (~On(g, p) /\ ~On(g, p)')
  BY <1>2 DEF SameJob, On, Busy
<1>5. \A p \in User \ raced : Settled(p)'
  BY <1>3, <1>7, NotAbout, SameFollowingRows DEF AgreeInv
<1>8. Loaded'
  BY <1>3, <1>7, LoadedKept DEF AgreeInv, SameJob, On
<1> QED BY <1>3, <1>4, <1>5, <1>8 DEF AgreeInv

LEMMA RequestAgrees ==
    ASSUME AgreeInv, GraphTypeOK', NEW h \in Handler, NEW a \in Local, NEW q \in User,
           NEW action \in {"follow", "unfollow"}, Request(h, a, q, action)
    PROVE  AgreeInv'
<1> DEFINE e == Signed(a, q, action)
<1>1. GraphTypeOK /\ OwnOnly /\ e.author = a /\ e.target = q
  BY DEF AgreeInv, Signed
<1>6. /\ Fresh(e, TRUE, "check").at = "check" /\ Fresh(e, TRUE, "check").request = TRUE
      /\ Fresh(e, TRUE, "check").event = e /\ Fresh(e, TRUE, "check") # Idle
  BY DEF Fresh, Idle
<1>7. job' = [job EXCEPT ![h] = Fresh(e, TRUE, "check")] /\ ~Busy(h)
  BY DEF Request
<1> HIDE DEF e
<1>2. /\ ~Busy(h) /\ job'[h].at = "check" /\ job'[h] # Idle
      /\ job'[h].event = e /\ job'[h].request
      /\ \A g \in Handler : g # h => job'[g] = job[g]
  BY <1>1, <1>6, <1>7 DEF GraphTypeOK
<1>11. raced' = raced \cup {x \in {q} : a = Me /\ (~mine \/ \E g \in Handler : On(g, x))}
  BY Zenon DEF Request
<1>3. /\ UNCHANGED <<subs, cache, mine, echoed, rows, sent>>
      /\ agreed' \subseteq agreed /\ (a = Me => q \notin agreed')
      /\ raced \subseteq raced'
      /\ a = Me /\ q \notin raced' => mine /\ Nobody(q)
  <2>1. UNCHANGED <<subs, cache, mine, echoed, rows, sent>>
        /\ agreed' \subseteq agreed /\ (a = Me => q \notin agreed')
    BY DEF Request, graphVars
  <2> QED BY <1>11, <2>1 DEF Nobody
<1>4. OwnOnly'
  BY <1>1, <1>2 DEF OwnOnly, Busy
<1>8. \A g \in Handler : g # h => SameJob(g)
  BY <1>2 DEF SameJob, Busy
<1>5. ASSUME NEW p \in User \ raced'
      PROVE  Settled(p)'
  <2>1. Settled(p)
    BY <1>3, <1>5 DEF AgreeInv
  <2>2. CASE p # q \/ a # Me
    <3>1. ~On(h, p) /\ ~On(h, p)'
      BY <1>1, <1>2, <2>2 DEF On
    <3> QED BY <1>3, <1>8, <2>1, <2>2, <3>1, NotAbout, SameFollowingRows
  <2>3. CASE p = q /\ a = Me
    <3>1. Nobody(p) /\ mine /\ p \notin agreed' /\ \A g \in Handler : g # h => ~On(g, p)'
      BY <1>3, <1>5, <1>8, <2>3 DEF Nobody, On, SameJob
    <3>2. On(h, p)' /\ Progress(h, p)'
      BY <1>1, <1>2, <1>3, <2>1, <2>3, <3>1 DEF On, Busy, Progress, Settled
    <3> QED BY <1>3, <2>3, <3>1, <3>2 DEF Settled, Nobody
  <2> QED BY <2>2, <2>3
<1>9. CASE a # Me
  <2>1. reload' = reload /\ \A p : ~On(h, p)'
    BY <1>1, <1>2, <1>9 DEF Request, On
  <2>2. Loaded'
    BY <1>3, <1>8, <2>1, LoadedKept DEF AgreeInv, SameJob, On
  <2> QED BY <1>4, <1>5, <2>2 DEF AgreeInv
<1>10. CASE a = Me
  <2> SUFFICES ASSUME reload' # Idle, NEW p \in User \ reload'.met
               PROVE  Nobody(p)' /\ (reload'.own => (p \in reload'.set <=> p \in subs'))
    BY <1>4, <1>5 DEF AgreeInv, Loaded
  <2>1. reload # Idle /\ reload' = [reload EXCEPT !.met = @ \cup {q}] /\ reload \in Reload
    BY <1>1, <1>10 DEF Request, GraphTypeOK
  <2>2. reload'.met = reload.met \cup {q} /\ reload'.own = reload.own /\ reload'.set = reload.set
    BY <2>1 DEF Reload
  <2>3. Nobody(p) /\ (reload.own => (p \in reload.set <=> p \in subs)) /\ p # q
    BY <2>1, <2>2 DEF AgreeInv, Loaded
  <2>4. ~On(h, p)'
    BY <1>1, <1>2, <2>3 DEF On
  <2> QED BY <1>3, <1>8, <2>2, <2>3, <2>4 DEF Nobody, SameJob, On
<1> QED BY <1>9, <1>10

\* Manager.Follow and Manager.Unfollow, and the notification.
LEMMA ManagerAgrees ==
    ASSUME AgreeInv, GraphTypeOK', NEW h \in Handler,
           \/ CheckCache(h) \/ ChangeSubscription(h) \/ ChangeCache(h) \/ ChangeTopic(h)
           \/ NotifyFollow(h) \/ NotifyFails(h)
    PROVE  AgreeInv'
<1> DEFINE q == job[h].event.target
<1>1. GraphTypeOK /\ OwnOnly /\ Loaded /\ Busy(h)
  BY BusyJob DEF AgreeInv, CheckCache, ChangeSubscription, ChangeCache, ChangeTopic,
     NotifyFollow, NotifyFails, Steps
<1>2. PICK s \in Steps : /\ Goto(h, s)
                         /\ s \in {"check", "sub", "cache", "topic"} =>
                               job[h].at \in {"check", "sub", "cache", "topic"}
                         /\ job[h].at = "notify" => s = "followers"
  BY DEF CheckCache, ChangeSubscription, ChangeCache, ChangeTopic, NotifyFollow, NotifyFails, Steps
<1>3. /\ job'[h].at = s /\ job'[h] # Idle /\ job'[h].event = job[h].event
      /\ job'[h].request = job[h].request
      /\ \A g \in Handler : g # h => job'[g] = job[g]
  BY <1>1, <1>2, GotoType
<1>10. \A t \in Steps : Goto(h, t) => job'[h].at = t
  BY <1>1, GotoType
<1>4. UNCHANGED <<rows, reload, mine, echoed, agreed>> /\ raced \subseteq raced'
  BY DEF CheckCache, ChangeSubscription, ChangeCache, ChangeTopic,
     NotifyFollow, NotifyFails, feedVars, graphVars, envVars
<1>5. OwnOnly'
  BY <1>1, <1>2, <1>3 DEF OwnOnly, Busy
<1>6. \A p : On(h, p)' <=> On(h, p)
  BY <1>1, <1>3 DEF On, Busy
<1>7. \A g \in Handler : g # h => SameJob(g)
  BY <1>3 DEF SameJob, Busy
<1>8. Follows(h)' <=> Follows(h)
  BY <1>3 DEF Follows
<1>11. ASSUME NEW p, ~On(h, p)
       PROVE  /\ p \in subs' <=> p \in subs
              /\ p \notin raced' => (p \in cache' <=> p \in cache)
  BY <1>1, <1>11 DEF On, OwnOnly, CheckCache, ChangeSubscription, ChangeCache, ChangeTopic,
     NotifyFollow, NotifyFails, feedVars, Follows
<1>9. ASSUME NEW p \in User \ raced'
      PROVE  Settled(p)'
  <2>1. Settled(p)
    BY <1>4, <1>9 DEF AgreeInv
  <2>2. CASE ~On(h, p)
    BY <1>4, <1>6, <1>7, <1>9, <1>11, <2>1, <2>2, NotAbout, SameFollowingRows
  <2>3. CASE On(h, p)
    <3>1. q = p /\ job[h].event.author = Me /\ Progress(h, p) /\ p \notin agreed
      BY <2>1, <2>3 DEF On, Settled, Nobody
    <3>2. Progress(h, p)'
      <4>1. CASE CheckCache(h)
        <5>1. job'[h].at = IF q \in cache <=> Follows(h) THEN "row" ELSE "sub"
          BY <1>10, <4>1 DEF CheckCache, Steps
        <5> QED BY <1>4, <1>8, <3>1, <4>1, <5>1, SameFollowingRows
            DEF CheckCache, Progress, feedVars
      <4>2. CASE ChangeSubscription(h)
        <5>1. job'[h].at = "cache"
          BY <1>10, <4>2 DEF ChangeSubscription, Steps
        <5> QED BY <1>8, <3>1, <4>2, <5>1 DEF ChangeSubscription, Progress
      <4>3. CASE ChangeCache(h)
        <5>1. job'[h].at = "topic"
          BY <1>10, <4>3 DEF ChangeCache, Steps
        <5> QED BY <1>8, <3>1, <4>3, <5>1 DEF ChangeCache, Progress
      <4>4. CASE ChangeTopic(h)
        <5>1. job'[h].at = "row"
          BY <1>10, <4>4 DEF ChangeTopic, Steps
        <5> QED BY <1>8, <3>1, <4>4, <5>1 DEF ChangeTopic, Progress, feedVars
      <4>5. CASE NotifyFollow(h) \/ NotifyFails(h)
        BY <1>2, <1>3, <1>4, <1>8, <3>1, <4>5, SameFollowingRows
           DEF NotifyFollow, NotifyFails, Progress, feedVars
      <4> QED BY <4>1, <4>2, <4>3, <4>4, <4>5
    <3> QED BY <1>4, <1>6, <1>7, <2>1, <2>3, <3>1, <3>2, About
  <2> QED BY <2>2, <2>3
<1>12. Loaded'
  BY <1>1, <1>4, <1>6, <1>7, <1>11, LoadedKept DEF Nobody, SameJob, On
<1> QED BY <1>4, <1>5, <1>9, <1>12 DEF AgreeInv

LEMMA InsertAgrees ==
    ASSUME AgreeInv, GraphTypeOK', NEW h \in Handler, InsertFollowEvent(h)
    PROVE  AgreeInv'
<1> DEFINE e == job[h].event
<1>1. GraphTypeOK /\ OwnOnly /\ Loaded /\ job[h].at = "row" /\ rows' = WithEvent(e)
      /\ UNCHANGED <<subs, cache, reload, mine, raced, agreed, sent>>
      /\ echoed' = IF e.author # Me THEN echoed
                   ELSE IF job[h].request THEN echoed \ {e.target} ELSE echoed \cup {e.target}
  BY DEF AgreeInv, InsertFollowEvent, envVars
<1>2. /\ Busy(h) /\ job'[h] # Idle /\ job'[h].event = e /\ job'[h].request = job[h].request
      /\ job'[h].at \in {"notify", "followers"}
      /\ \A g \in Handler : g # h => job'[g] = Disturbed(h, e)[g]
  BY <1>1, InsertType
<1> HIDE DEF e
<1>3. ASSUME NEW g \in Handler, g # h
      PROVE  SameJob(g)
  <2>1. \/ Disturbed(h, e)[g] = job[g] /\ (Busy(g) => ~Concerns(e, Who(g)))
        \/ /\ Busy(g) /\ Disturbed(h, e)[g] # Idle
           /\ Disturbed(h, e)[g].clean = FALSE
           /\ Disturbed(h, e)[g].at = job[g].at /\ Disturbed(h, e)[g].of = job[g].of
           /\ Disturbed(h, e)[g].event = job[g].event
           /\ Disturbed(h, e)[g].request = job[g].request
    BY <1>1, <1>3, DisturbedType, Zenon
  <2> QED BY <1>2, <1>3, <2>1 DEF SameJob, Busy
<1>4. OwnOnly'
  BY <1>1, <1>2, <1>3 DEF OwnOnly, SameJob, e
<1>6. \A p : On(h, p)' <=> On(h, p)
  BY <1>2 DEF On, Busy, e
<1>5. ASSUME NEW p \in User \ raced
      PROVE  Settled(p)'
  <2>1. Settled(p)
    BY DEF AgreeInv
  <2>2. CASE ~On(h, p)
    <3>1. p \notin echoed' => /\ p \notin echoed
                              /\ p \in GetFollowing(Me)' <=> p \in GetFollowing(Me)
      <4>1. CASE e.author # Me
        BY <1>1, <4>1, SameFollowing
      <4>2. CASE e.author = Me /\ e.target # p
        BY <1>1, <4>2, SameFollowing
      <4>3. CASE e.author = Me /\ e.target = p
        BY <1>1, <1>2, <2>2, <4>3 DEF On, e
      <4> QED BY <4>1, <4>2, <4>3
    <3> QED BY <1>1, <1>3, <1>6, <2>1, <2>2, <3>1, NotAbout
  <2>3. CASE On(h, p)
    <3>1. e.target = p /\ e.author = Me /\ Progress(h, p) /\ p \notin agreed
      BY <2>1, <2>3 DEF On, Settled, Nobody, e
    <3>2. p \in GetFollowing(Me)' <=> e.action = "follow"
      BY <1>1, <3>1, NewFollowing
    <3>3. (Follows(h)' <=> e.action = "follow") /\ (Follows(h) <=> e.action = "follow")
      BY <1>2 DEF Follows, e
    <3>4. Progress(h, p)'
      BY <1>1, <1>2, <3>1, <3>2, <3>3 DEF Progress
    <3> QED BY <1>1, <1>3, <1>6, <2>1, <2>3, <3>1, <3>4, About
  <2> QED BY <2>2, <2>3
<1>7. Loaded'
  BY <1>1, <1>3, <1>6, LoadedKept DEF SameJob, On
<1> QED BY <1>1, <1>4, <1>5, <1>7 DEF AgreeInv

LEMMA ReadAgrees ==
    ASSUME AgreeInv, GraphTypeOK', NEW h \in Handler, CountFollowers(h) \/ CountFollowing(h)
    PROVE  AgreeInv'
<1>1. GraphTypeOK /\ OwnOnly /\ Loaded
      /\ UNCHANGED <<rows, subs, cache, reload, mine, raced, echoed, agreed, sent>>
  BY DEF AgreeInv, CountFollowers, CountFollowing, feedVars, graphVars, envVars
<1>2. /\ Busy(h) /\ job'[h] # Idle /\ job'[h].event = job[h].event
      /\ job'[h].request = job[h].request
      /\ job[h].at \in {"followers", "following"} /\ job'[h].at \in {"following", "upsert"}
      /\ \A g \in Handler : g # h => job'[g] = job[g]
  BY <1>1, ReadTypes
<1>3. OwnOnly'
  BY <1>1, <1>2 DEF OwnOnly, Busy
<1>4. \A g \in Handler : g # h => SameJob(g)
  BY <1>2 DEF SameJob, Busy
<1>6. \A p : On(h, p)' <=> On(h, p)
  BY <1>2 DEF On, Busy
<1>5. ASSUME NEW p \in User \ raced
      PROVE  Settled(p)'
  <2>1. Settled(p)
    BY DEF AgreeInv
  <2>2. CASE ~On(h, p)
    BY <1>1, <1>4, <1>6, <2>1, <2>2, NotAbout, SameFollowingRows
  <2>3. CASE On(h, p)
    <3>1. Progress(h, p) /\ p \notin agreed
      BY <2>1, <2>3 DEF Settled, Nobody
    <3>2. Progress(h, p)'
      BY <1>1, <1>2, <3>1, SameFollowingRows DEF Progress, Follows
    <3> QED BY <1>1, <1>4, <1>6, <2>1, <2>3, <3>1, <3>2, About
  <2> QED BY <2>2, <2>3
<1>7. Loaded'
  BY <1>1, <1>4, <1>6, LoadedKept DEF SameJob, On
<1> QED BY <1>1, <1>3, <1>5, <1>7 DEF AgreeInv

\* The end of a recount, well or badly, and of the request after the second.
LEMMA NextCountAgrees ==
    ASSUME AgreeInv, GraphTypeOK', NEW h \in Handler, UpdateFollowerCount(h) \/ CountFails(h)
    PROVE  AgreeInv'
<1>1. GraphTypeOK /\ OwnOnly /\ Loaded /\ NextCount(h)
      /\ UNCHANGED <<rows, subs, cache, reload, mine, raced, echoed>>
      /\ job[h].at \in {"followers", "following", "upsert"}
  BY DEF AgreeInv, UpdateFollowerCount, CountFails
<1>2. Busy(h) /\ job[h].of \in {"author", "target"}
  BY <1>1, BusyJob DEF Steps
<1>3. /\ \A g \in Handler : g # h => job'[g] = job[g]
      /\ job[h].of = "author" => /\ job'[h] # Idle /\ job'[h].at = "followers"
                                 /\ job'[h].event = job[h].event
                                 /\ job'[h].request = job[h].request
      /\ job[h].of = "target" => job'[h] = Idle
  BY <1>1, <1>2, NextCountType
<1>4. Idle.at = "idle"
  BY DEF Idle
<1>5. OwnOnly'
  BY <1>1, <1>2, <1>3, <1>4 DEF OwnOnly, Busy
<1>6. \A g \in Handler : g # h => SameJob(g)
  BY <1>3 DEF SameJob, Busy
<1>7. agreed' = IF job[h].of = "target" /\ job[h].request /\ job[h].event.author = Me
                THEN agreed \cup {job[h].event.target} ELSE agreed
  BY <1>1 DEF NextCount
<1>9. \A p : On(h, p)' => On(h, p)
  BY <1>2, <1>3 DEF On, Busy
<1>8. ASSUME NEW p \in User \ raced
      PROVE  Settled(p)'
  <2>1. Settled(p)
    BY DEF AgreeInv
  <2>2. CASE ~On(h, p)
    <3>1. p \in agreed' => p \in agreed
      BY <1>2, <1>7, <2>2 DEF On
    <3> QED BY <1>1, <1>6, <1>9, <2>1, <2>2, <3>1, NotAbout, SameFollowingRows
  <2>3. CASE On(h, p)
    <3>1. Progress(h, p) /\ p \notin agreed
      BY <2>1, <2>3 DEF Settled, Nobody
    <3>2. CASE job[h].of = "author"
      <4>1. Progress(h, p)' /\ p \notin agreed' /\ On(h, p)'
        BY <1>1, <1>3, <1>7, <2>3, <3>1, <3>2, SameFollowingRows DEF Progress, Follows, On, Busy
      <4> QED BY <1>1, <1>6, <2>1, <2>3, <4>1, About
    <3>3. CASE job[h].of = "target"
      <4>1. ~On(h, p)'
        BY <1>3, <3>3 DEF On, Busy
      <4>2. /\ p \in subs' <=> p \in cache'
            /\ p \notin echoed' => (p \in subs' <=> p \in GetFollowing(Me)')
        BY <1>1, <3>1, SameFollowingRows DEF Progress
      <4> QED BY <1>1, <1>6, <2>1, <2>3, <4>1, <4>2, About
    <3> QED BY <1>2, <3>2, <3>3
  <2> QED BY <2>2, <2>3
<1>10. Loaded'
  BY <1>1, <1>6, <1>9, LoadedKept DEF SameJob, On
<1> QED BY <1>1, <1>5, <1>8, <1>10 DEF AgreeInv

LEMMA FailsAgrees ==
    ASSUME AgreeInv, GraphTypeOK', NEW h \in Handler, Fails(h)
    PROVE  AgreeInv'
<1>1. GraphTypeOK /\ OwnOnly /\ Loaded
      /\ UNCHANGED <<rows, subs, cache, reload, mine, raced, echoed, agreed, sent>>
      /\ job[h].at \in {"sub", "topic", "row"}
      /\ job' = [job EXCEPT ![h] = Idle]
  BY DEF AgreeInv, Fails, feedVars, graphVars
<1>2. Busy(h) /\ job'[h] = Idle /\ \A g \in Handler : g # h => job'[g] = job[g]
  BY <1>1, BusyJob DEF Steps, GraphTypeOK
<1>3. OwnOnly'
  BY <1>1, <1>2 DEF OwnOnly, Idle, Busy
<1>4. \A g \in Handler : g # h => SameJob(g)
  BY <1>2 DEF SameJob, Busy
<1>6. \A p : ~On(h, p)'
  BY <1>2 DEF On, Busy
<1>5. ASSUME NEW p \in User \ raced
      PROVE  Settled(p)'
  <2>1. Settled(p)
    BY DEF AgreeInv
  <2>2. CASE ~On(h, p)
    BY <1>1, <1>4, <1>6, <2>1, <2>2, NotAbout, SameFollowingRows
  <2>3. CASE On(h, p)
    <3>1. (p \in subs <=> p \in cache) /\ p \notin agreed
      BY <1>1, <2>1, <2>3 DEF Settled, Nobody, Progress
    <3> QED BY <1>1, <1>4, <1>6, <2>1, <2>3, <3>1, About
  <2> QED BY <2>2, <2>3
<1>7. Loaded'
  BY <1>1, <1>4, <1>6, LoadedKept DEF SameJob, On
<1> QED BY <1>1, <1>3, <1>5, <1>7 DEF AgreeInv

LEMMA LoadAgrees ==
    ASSUME AgreeInv, GraphTypeOK', NEW l \in Loadable, LoadSubscriptions(l)
    PROVE  AgreeInv'
<1>1. UNCHANGED <<rows, subs, cache, mine, raced, echoed, agreed, job>>
      /\ reload' = [set |-> l.set, own |-> l.own,
                    met |-> {p \in User : \E h \in Handler : On(h, p)}]
  BY DEF LoadSubscriptions, graphVars
<1>2. l.own => l.set = subs
  BY DEF Loadable
<1>3. \A p \in User \ raced : Settled(p)'
  BY <1>1, NotAbout, SameFollowingRows DEF AgreeInv, SameJob, Busy
<1>4. \A h \in Handler, p \in User : On(h, p)' <=> On(h, p)
  BY <1>1 DEF On, Busy
<1>5. Loaded'
  BY <1>1, <1>2, <1>4 DEF Loaded, Nobody
<1>6. OwnOnly'
  BY <1>1 DEF AgreeInv, OwnOnly, Busy
<1> QED BY <1>1, <1>3, <1>5, <1>6 DEF AgreeInv

\* The swap spoils what it met, and for Me restores everybody else.
LEMMA SwapAgrees ==
    ASSUME AgreeInv, GraphTypeOK', SwapCache
    PROVE  AgreeInv'
<1>1. /\ UNCHANGED <<rows, subs, echoed, job>> /\ reload # Idle /\ reload' = Idle
      /\ cache' = reload.set /\ mine' = reload.own /\ agreed' = agreed \ raced
      /\ raced' = reload.met \cup (IF reload.own THEN {} ELSE raced)
  BY DEF SwapCache, graphVars
<1>2. \A h \in Handler, p \in User : On(h, p)' <=> On(h, p)
  BY <1>1 DEF On, Busy
<1>3. ASSUME NEW p \in User \ raced'
      PROVE  Settled(p)'
  <2>1. Nobody(p) /\ (reload.own => (p \in reload.set <=> p \in subs))
    BY <1>1 DEF AgreeInv, Loaded
  <2>2. Nobody(p)'
    BY <1>2, <2>1 DEF Nobody
  <2>3. mine' => (p \in subs' <=> p \in cache')
    BY <1>1, <2>1
  <2>4. p \in agreed' /\ p \notin echoed' => (p \in subs' <=> p \in GetFollowing(Me)')
    BY <1>1, SameFollowingRows DEF AgreeInv, Settled
  <2> QED BY <2>2, <2>3, <2>4 DEF Settled, Nobody
<1>4. Loaded' /\ OwnOnly'
  BY <1>1 DEF Loaded, AgreeInv, OwnOnly, Busy
<1> QED BY <1>3, <1>4 DEF AgreeInv

LEMMA RestartAgrees ==
    ASSUME AgreeInv, GraphTypeOK', NEW l \in Loadable, Restart(l)
    PROVE  AgreeInv'
<1>1. /\ UNCHANGED <<rows, subs, echoed>> /\ cache' = l.set /\ mine' = l.own
      /\ reload' = Idle /\ raced' = {} /\ agreed' = agreed \ raced
      /\ \A h \in Handler : job'[h] = Idle
  BY DEF Restart
<1>2. OwnOnly' /\ Loaded'
  BY <1>1 DEF OwnOnly, Idle, Busy, Loaded
<1>3. \A p : Nobody(p)'
  BY <1>1 DEF Busy, Nobody, On
<1>4. l.own => l.set = subs
  BY DEF Loadable
<1>5. ASSUME NEW p \in User
      PROVE  Settled(p)'
  BY <1>1, <1>3, <1>4, SameFollowingRows DEF AgreeInv, Settled, Nobody
<1> QED BY <1>2, <1>5 DEF AgreeInv

LEMMA AgreeStep ==
    ASSUME AgreeInv, [Next]_vars
    PROVE  AgreeInv'
<1>0. GraphTypeOK'
  BY TypeStep DEF AgreeInv
<1>1. ASSUME \/ UNCHANGED vars
             \/ \E a, q \in User, action \in {"follow", "unfollow"} : Publish(a, q, action)
      PROVE  AgreeInv'
  <2>1. UNCHANGED <<rows, subs, cache, reload, mine, raced, echoed, agreed, job>>
    BY <1>1 DEF Publish, vars, feedVars, graphVars
  <2>2. OwnOnly' /\ Loaded'
    BY <2>1 DEF AgreeInv, OwnOnly, Loaded, Nobody, On, Busy
  <2>3. \A p \in User \ raced : Settled(p)'
    BY <2>1, NotAbout, SameFollowingRows DEF AgreeInv, SameJob, Busy
  <2> QED BY <1>0, <2>1, <2>2, <2>3 DEF AgreeInv
<1> QED BY <1>0, <1>1, DeliverAgrees, RequestAgrees, ManagerAgrees, InsertAgrees, ReadAgrees,
           NextCountAgrees, FailsAgrees, LoadAgrees, SwapAgrees, RestartAgrees DEF Next, Step

LEMMA AgreeInit ==
    ASSUME Init
    PROVE  AgreeInv
<1>1. GraphTypeOK /\ \A h \in Handler : ~Busy(h) /\ job[h].at = "idle"
  BY CountInit DEF CountInv, Init, Busy, Idle
<1>2. \A p \in User : Settled(p)
  BY <1>1 DEF Init, Settled, Nobody, On
<1>3. OwnOnly /\ Loaded
  BY <1>1 DEF Init, OwnOnly, Loaded
<1> QED BY <1>1, <1>2, <1>3 DEF AgreeInv

\* After FollowAs or UnfollowAs for Me returned nil, subscription, cache and event say
\* the same, unless the request met another one about that person or a reload
\* of the cache; a quiet ReloadSubscriptions for Me repairs what they spoilt.
THEOREM OwnFollowRecordedTheorem == Spec => []OwnFollowRecorded
<1>1. AgreeInv => OwnFollowRecorded
  <2> SUFFICES ASSUME AgreeInv, NEW p \in agreed \ raced
               PROVE  /\ mine => (p \in subs <=> p \in cache)
                      /\ p \notin echoed => (p \in subs <=> p \in GetFollowing(Me))
    BY DEF OwnFollowRecorded
  <2>1. p \in User
    BY DEF AgreeInv, GraphTypeOK
  <2> QED BY <2>1 DEF AgreeInv, Settled
<1> QED BY AgreeInit, AgreeStep, <1>1, PTL DEF Spec
=============================================================================
