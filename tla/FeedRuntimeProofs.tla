-------------------------- MODULE FeedRuntimeProofs --------------------------
(***************************************************************************)
(* The topic table keeps its books, for any number of topics and           *)
(* goroutines, and the feed manager and the identity syncer use it only    *)
(* through its calls, so it keeps them for the node as a whole.            *)
(* From which call of the table a request may be in follows that direct    *)
(* messages are read for the active identity only, and that an orderly     *)
(* run brings subscriptions, cache and topics together.                    *)
(***************************************************************************)
EXTENDS FeedRuntime, TLAPS

\* Goroutine g's call goes from one step to another, or begins or ends.
LEMMA OpChange ==
    ASSUME HostTypeOK, NEW g \in Goroutine, NEW s \in OpSteps \ {"none"},
           OpGoto(g, s), op[g].at # "none"
    PROVE  /\ op' \in [Goroutine -> Op]
           /\ op'[g].at = s
           /\ \A h \in Goroutine : op'[h].topic = op[h].topic
           /\ \A h \in Goroutine \ {g} : op'[h] = op[h]
           /\ \A h \in Goroutine : op'[h].at # "none" => op'[h].topic \in Topic
  <1>1. op[g] \in Op /\ op' = [op EXCEPT ![g] = [op[g] EXCEPT !.at = s]]
    BY DEF HostTypeOK, OpGoto
  <1>2. [op[g] EXCEPT !.at = s] \in Op
    BY <1>1 DEF Op
  <1> QED
    BY <1>1, <1>2 DEF HostTypeOK, Op

\* What the books of the topic table rest on.
HostInv == HostTypeOK /\ OneReadLoop

\* Types and read loops are kept together: Unsubscribe takes a read loop away,
\* which leaves a natural number because a reading handle has one.
LEMMA HostInvStep ==
    HostInv /\ [HostNext]_hostVars => HostInv'
  <1> SUFFICES ASSUME HostInv, [HostNext]_hostVars PROVE HostInv'
    OBVIOUS
  <1> USE HostAssumption
  <1>0. HostTypeOK /\ OneReadLoop
    BY DEF HostInv
  \* Calls that move on and leave the map alone.
  <1>m. ASSUME NEW g \in Goroutine, NEW s \in OpSteps \ {"none"}, OpGoto(g, s),
               op[g].at # "none", UNCHANGED <<handle, loops>>,
               joined' \subseteq Topic, faults' \in Nat
        PROVE  HostInv'
    BY <1>0, <1>m, OpChange DEF HostInv, HostTypeOK, OneReadLoop
  <1>1. ASSUME NEW g \in Goroutine, NEW t \in Topic,
               NEW e \in {"ensure", "unsubscribe", "publish"}, CallHost(g, e, t)
        PROVE  HostInv'
    BY <1>0, <1>1 DEF CallHost, HostInv, HostTypeOK, OneReadLoop, Op, OpSteps
  <1>2. ASSUME NEW g \in Goroutine, ReturnFromHost(g) PROVE HostInv'
    BY <1>0, <1>2 DEF ReturnFromHost, HostInv, HostTypeOK, OneReadLoop, Op,
       OpSteps, NoOp
  <1>3. ASSUME NEW g \in Goroutine, EnsureSubscribed(g) \/ PublishFind(g) PROVE HostInv'
    <2>1. PICK s \in OpSteps \ {"none"} : OpGoto(g, s)
      BY <1>3 DEF EnsureSubscribed, PublishFind, OpSteps
    <2> QED
      BY <1>0, <1>3, <1>m, <2>1 DEF EnsureSubscribed, PublishFind, OpAt, HostTypeOK
  <1>4. ASSUME NEW g \in Goroutine, Subscribe(g) PROVE HostInv'
    <2> DEFINE t == op[g].topic
    <2>1. t \in Topic /\ op[g].at = "subscribe"
      BY <1>0, <1>4 DEF Subscribe, OpAt, HostTypeOK
    <2>2. CASE handle[t] # "none" \/ t \in joined
      BY <1>0, <1>4, <1>m, <2>1, <2>2 DEF Subscribe, HostTypeOK, OpSteps
    <2>3. CASE ~(handle[t] # "none" \/ t \in joined)
      <3>1. /\ handle' = [handle EXCEPT ![t] = "read"] /\ joined' = joined \cup {t}
            /\ loops' = [loops EXCEPT ![t] = @ + 1] /\ OpGoto(g, "ok")
            /\ faults' = faults
        BY <1>4, <2>3 DEF Subscribe
      <3>2. loops[t] = 0
        BY <1>0, <2>1, <2>3 DEF OneReadLoop
      <3>3. /\ op' \in [Goroutine -> Op]
            /\ \A h \in Goroutine : op'[h].at # "none" => op'[h].topic \in Topic
        BY <1>0, <2>1, <3>1, OpChange DEF OpSteps
      <3> QED
        BY <1>0, <2>1, <3>1, <3>2, <3>3 DEF HostInv, HostTypeOK, OneReadLoop, Handles
    <2> QED
      BY <2>2, <2>3
  <1>5. ASSUME NEW g \in Goroutine, Unsubscribe(g) PROVE HostInv'
    <2> DEFINE t == op[g].topic
    <2>1. t \in Topic /\ op[g].at = "unsubscribe"
      BY <1>0, <1>5 DEF Unsubscribe, OpAt, HostTypeOK
    <2>2. ASSUME OpGoto(g, "err"), UNCHANGED <<handle, joined, loops, faults>>
          PROVE  HostInv'
      BY <1>0, <1>m, <2>1, <2>2 DEF HostTypeOK, OpSteps
    <2>3. ASSUME NEW r \in {"ok", "err"}, Forget(g, t, r),
                 joined' \subseteq Topic, faults' \in Nat
          PROVE  HostInv'
      <3>1. /\ handle' = [handle EXCEPT ![t] = "none"]
            /\ loops' = [loops EXCEPT ![t] = IF handle[t] = "read" THEN @ - 1 ELSE @]
        BY <2>3 DEF Forget
      <3>2. /\ handle' \in [Topic -> Handles] /\ loops' \in [Topic -> Nat]
            /\ OneReadLoop'
        BY <1>0, <2>1, <3>1 DEF HostTypeOK, OneReadLoop, Handles
      <3>3. \A h \in Goroutine : op'[h] \in Op /\ op'[h].topic = op[h].topic
                                 /\ (op'[h].at # "none" => op[h].at # "none")
        <4> SUFFICES ASSUME NEW h \in Goroutine
                     PROVE  op'[h] \in Op /\ op'[h].topic = op[h].topic
                            /\ (op'[h].at # "none" => op[h].at # "none")
          OBVIOUS
        <4>1. \A x \in {"ok", "err"} :
                 /\ [op[h] EXCEPT !.at = x] \in Op
                 /\ [op[h] EXCEPT !.at = x].topic = op[h].topic
          BY <1>0 DEF HostTypeOK, Op, OpSteps
        <4>2. \/ h = g /\ op'[h] = [op[h] EXCEPT !.at = r]
              \/ op[h].at = "send" /\ op'[h] = [op[h] EXCEPT !.at = "err"]
              \/ op'[h] = op[h]
          BY <2>3 DEF Forget
        <4> QED
          BY <1>0, <2>1, <4>1, <4>2 DEF HostTypeOK
      <3>4. op' \in [Goroutine -> Op]
        BY <2>3, <3>3 DEF Forget
      <3> QED
        BY <1>0, <2>3, <3>2, <3>3, <3>4 DEF HostInv, HostTypeOK
    <2> QED
      BY <1>0, <1>5, <2>2, <2>3 DEF Unsubscribe, HostTypeOK
  <1>6. ASSUME NEW g \in Goroutine, PublishJoin(g) PROVE HostInv'
    <2>1. PICK s \in {"err", "store"} : OpGoto(g, s)
      BY <1>6 DEF PublishJoin
    <2> QED
      BY <1>0, <1>6, <1>m, <2>1 DEF PublishJoin, OpAt, HostTypeOK, OpSteps
  <1>7. ASSUME NEW g \in Goroutine, PublishStore(g) PROVE HostInv'
    <2> DEFINE t == op[g].topic
    <2>1. t \in Topic /\ OpGoto(g, "send") /\ op[g].at = "store"
          /\ UNCHANGED <<loops, faults>> /\ joined' \subseteq Topic
      BY <1>0, <1>7 DEF PublishStore, OpAt, HostTypeOK
    <2>2. \/ handle' = handle
          \/ handle[t] = "none" /\ handle' = [handle EXCEPT ![t] = "publish"]
      BY <1>7 DEF PublishStore
    <2>3. /\ op' \in [Goroutine -> Op]
          /\ \A h \in Goroutine : op'[h].at # "none" => op'[h].topic \in Topic
      BY <1>0, <2>1, OpChange DEF OpSteps
    <2> QED
      BY <1>0, <2>1, <2>2, <2>3 DEF HostInv, HostTypeOK, OneReadLoop, Handles
  <1>8. ASSUME NEW g \in Goroutine, PublishSend(g) PROVE HostInv'
    BY <1>0, <1>8, <1>m DEF PublishSend, OpAt, HostTypeOK, OpSteps
  <1>9. ASSUME NEW g \in Goroutine, GossipFails(g) PROVE HostInv'
    BY <1>0, <1>9, <1>m DEF GossipFails, HostTypeOK, OpSteps
  <1>10. CASE OtherFault
    BY <1>0, <1>10 DEF OtherFault, HostInv, HostTypeOK, OneReadLoop
  <1>11. CASE UNCHANGED hostVars
    BY <1>0, <1>11 DEF hostVars, HostInv, HostTypeOK, OneReadLoop
  <1> QED
    BY <1>1, <1>2, <1>3, <1>4, <1>5, <1>6, <1>7, <1>8, <1>9, <1>10, <1>11
    DEF HostNext, HostStep

\* A topic has one live read loop exactly while its handle reads.
THEOREM HostInvariant == HostSpec => []HostInv
  <1>1. HostInit => HostInv
    BY HostAssumption DEF HostInit, HostInv, HostTypeOK, OneReadLoop, NoOp, Op,
       OpSteps, Handles
  <1> QED
    BY <1>1, HostInvStep, PTL DEF HostSpec

-----------------------------------------------------------------------------
(* Joined topics are accounted for.                                        *)

\* A publisher between Join and the map update has the topic for itself:
\* nobody else can join it, and it is not in the map.
Storing(g, t) == op[g].at = "store" /\ op[g].topic = t

JoinInv ==
    faults = 0 =>
        /\ \A t \in Topic : t \in joined <=>
              handle[t] # "none" \/ \E g \in Goroutine : Storing(g, t)
        /\ \A t \in Topic : \A g \in Goroutine : Storing(g, t) =>
              /\ handle[t] = "none"
              /\ \A h \in Goroutine : Storing(h, t) => h = g

\* While no call fails, GossipSub has joined exactly the topics of the map and
\* those of publishers about to enter them.
THEOREM JoinsAccountedTheorem == HostSpec => []JoinsAccounted
  <1>1. HostInit => JoinInv
    BY DEF HostInit, JoinInv, Storing, NoOp
  <1>2. HostInv /\ HostInv' /\ JoinInv /\ [HostNext]_hostVars => JoinInv'
    <2> SUFFICES ASSUME HostInv, HostInv', JoinInv, [HostNext]_hostVars, faults' = 0
                 PROVE  JoinInv'
      BY DEF JoinInv
    <2>0. HostTypeOK /\ HostTypeOK'
      BY DEF HostInv
    <2> SUFFICES ASSUME faults = 0, UNCHANGED faults PROVE JoinInv'
      <3>1. faults \in Nat /\ (faults' = faults \/ faults' = faults + 1)
        BY <2>0 DEF HostTypeOK, HostNext, HostStep, CallHost, ReturnFromHost,
           EnsureSubscribed, Subscribe, Unsubscribe, PublishFind, PublishJoin,
           PublishStore, PublishSend, GossipFails, OtherFault, hostVars
      <3> QED
        BY <3>1
    \* Nobody enters or leaves the window, and the map and the joins stay.
    <2>q. ASSUME UNCHANGED <<handle, joined>>,
                 \A g \in Goroutine, t \in Topic : Storing(g, t)' <=> Storing(g, t)
          PROVE  JoinInv'
      BY <2>q DEF JoinInv
    <2>m. ASSUME NEW g \in Goroutine, NEW s \in OpSteps \ {"none", "store"},
                 OpGoto(g, s), op[g].at \notin {"none", "store"}
          PROVE  \A h \in Goroutine, t \in Topic : Storing(h, t)' <=> Storing(h, t)
      BY <2>0, <2>m, OpChange DEF Storing
    <2>1. ASSUME NEW g \in Goroutine, NEW t \in Topic,
                 NEW e \in {"ensure", "unsubscribe", "publish"}, CallHost(g, e, t)
          PROVE  JoinInv'
      BY <2>0, <2>1, <2>q DEF CallHost, HostTypeOK, NoOp, Storing
    <2>2. ASSUME NEW g \in Goroutine, ReturnFromHost(g) PROVE JoinInv'
      BY <2>0, <2>2, <2>q DEF ReturnFromHost, HostTypeOK, NoOp, Storing
    <2>3. ASSUME NEW g \in Goroutine,
                 EnsureSubscribed(g) \/ PublishFind(g) \/ PublishSend(g)
          PROVE JoinInv'
      <3>1. PICK s \in OpSteps \ {"none", "store"} : OpGoto(g, s)
        BY <2>3 DEF EnsureSubscribed, PublishFind, PublishSend, OpSteps
      <3> QED
        BY <2>3, <2>m, <2>q, <3>1 DEF EnsureSubscribed, PublishFind, PublishSend, OpAt
    <2>4. ASSUME NEW g \in Goroutine, Subscribe(g) PROVE JoinInv'
      <3> DEFINE t == op[g].topic
      <3>1. t \in Topic /\ op[g].at = "subscribe"
        BY <2>0, <2>4 DEF Subscribe, OpAt, HostTypeOK
      <3>2. PICK s \in {"ok", "err"} : OpGoto(g, s)
        BY <2>4 DEF Subscribe
      <3>3. \A h \in Goroutine, u \in Topic : Storing(h, u)' <=> Storing(h, u)
        BY <2>m, <3>1, <3>2 DEF OpSteps
      <3>4. CASE UNCHANGED <<handle, joined>>
        BY <2>q, <3>3, <3>4
      <3>5. CASE /\ handle[t] = "none" /\ t \notin joined
                 /\ handle' = [handle EXCEPT ![t] = "read"]
                 /\ joined' = joined \cup {t}
        <4>1. \A h \in Goroutine : ~Storing(h, t)
          BY <3>1, <3>5 DEF JoinInv
        <4> QED
          BY <2>0, <3>1, <3>3, <3>5, <4>1 DEF JoinInv, HostTypeOK
      <3> QED
        BY <2>4, <3>4, <3>5 DEF Subscribe
    <2>5. ASSUME NEW g \in Goroutine, Unsubscribe(g) PROVE JoinInv'
      <3> DEFINE t == op[g].topic
      <3>1. t \in Topic /\ op[g].at = "unsubscribe"
        BY <2>0, <2>5 DEF Unsubscribe, OpAt, HostTypeOK
      <3>2. CASE OpGoto(g, "err") /\ UNCHANGED <<handle, joined>>
        BY <2>m, <2>q, <3>1, <3>2 DEF OpSteps
      <3>3. CASE handle[t] # "none" /\ Forget(g, t, "ok") /\ joined' = joined \ {t}
        <4>1. \A h \in Goroutine, u \in Topic : Storing(h, u)' <=> Storing(h, u)
          <5> SUFFICES ASSUME NEW h \in Goroutine
                       PROVE  op'[h] = op[h] \/ (op[h].at # "store" /\ op'[h].at # "store")
            BY DEF Storing
          <5>1. \A x \in {"ok", "err"} : [op[h] EXCEPT !.at = x].at = x
            BY <2>0 DEF HostTypeOK, Op
          <5>2. \/ h = g /\ op'[h] = [op[h] EXCEPT !.at = "ok"]
                \/ op[h].at = "send" /\ op'[h] = [op[h] EXCEPT !.at = "err"]
                \/ op'[h] = op[h]
            BY <3>3 DEF Forget
          <5> QED
            BY <3>1, <5>1, <5>2
        <4>2. handle' = [handle EXCEPT ![t] = "none"]
          BY <3>3 DEF Forget
        <4>3. \A h \in Goroutine : ~Storing(h, t)
          BY <3>1, <3>3 DEF JoinInv
        <4> QED
          BY <2>0, <3>1, <3>3, <4>1, <4>2, <4>3 DEF JoinInv, HostTypeOK
      <3> QED
        BY <2>0, <2>5, <3>2, <3>3 DEF Unsubscribe, HostTypeOK
    <2>6. ASSUME NEW g \in Goroutine, PublishJoin(g) PROVE JoinInv'
      <3>1. PICK t \in Topic : /\ op[g].at = "join" /\ op[g].topic = t
                              /\ handle' = handle
        BY <2>0, <2>6 DEF PublishJoin, OpAt, HostTypeOK
      <3>2. CASE t \in joined
        <4>1. OpGoto(g, "err") /\ joined' = joined
          BY <2>6, <3>1, <3>2 DEF PublishJoin
        <4> QED
          BY <2>m, <2>q, <3>1, <4>1 DEF OpSteps
      <3>3. CASE t \notin joined
        <4>1. OpGoto(g, "store") /\ joined' = joined \cup {t}
          BY <2>6, <3>1, <3>3 DEF PublishJoin
        <4>2. /\ op'[g].at = "store" /\ op'[g].topic = t
              /\ \A h \in Goroutine \ {g} : op'[h] = op[h]
          BY <2>0, <3>1, <4>1, OpChange DEF OpSteps
        <4>3. handle[t] = "none" /\ \A h \in Goroutine : ~Storing(h, t)
          BY <3>1, <3>3 DEF JoinInv
        <4>4. /\ \A u \in Topic : Storing(g, u)' <=> u = t
              /\ \A h \in Goroutine \ {g} :
                    \A u \in Topic : Storing(h, u)' <=> Storing(h, u)
              /\ \A u \in Topic : ~Storing(g, u)
          BY <3>1, <4>2 DEF Storing
        <4> QED
          BY <3>1, <4>1, <4>3, <4>4 DEF JoinInv
      <3> QED
        BY <3>2, <3>3
    <2>7. ASSUME NEW g \in Goroutine, PublishStore(g) PROVE JoinInv'
      <3>1. PICK t \in Topic : op[g].topic = t /\ Storing(g, t)
        BY <2>0, <2>7 DEF PublishStore, OpAt, HostTypeOK, Storing
      <3>2. handle[t] = "none" /\ t \in joined
        BY <3>1 DEF JoinInv
      <3>3. handle' = [handle EXCEPT ![t] = "publish"] /\ joined' = joined
        BY <2>7, <3>1, <3>2 DEF PublishStore
      <3>4. /\ op'[g].at = "send"
            /\ \A h \in Goroutine \ {g} : op'[h] = op[h]
        BY <2>0, <2>7, OpChange DEF PublishStore, OpAt, OpSteps
      <3>5. /\ \A u \in Topic : ~Storing(g, u)'
            /\ \A u \in Topic : u # t => ~Storing(g, u)
            /\ \A h \in Goroutine \ {g} :
                  \A u \in Topic : Storing(h, u)' <=> Storing(h, u)
        BY <3>1, <3>4 DEF Storing
      <3>6. \A h \in Goroutine : ~Storing(h, t)'
        BY <3>1, <3>5 DEF JoinInv
      <3>7. handle'[t] = "publish" /\ \A u \in Topic : u # t => handle'[u] = handle[u]
        BY <2>0, <3>3 DEF HostTypeOK
      <3> QED
        BY <3>1, <3>2, <3>3, <3>5, <3>6, <3>7 DEF JoinInv
    <2>8. ASSUME NEW g \in Goroutine, GossipFails(g) PROVE JoinInv'
      BY <2>0, <2>8 DEF GossipFails, HostTypeOK
    <2>9. CASE OtherFault
      BY <2>0, <2>9 DEF OtherFault, HostTypeOK
    <2>10. CASE UNCHANGED hostVars
      BY <2>q, <2>10 DEF hostVars, Storing
    <2> QED
      BY <2>1, <2>2, <2>3, <2>4, <2>5, <2>6, <2>7, <2>8, <2>9, <2>10
      DEF HostNext, HostStep
  <1>3. HostInv /\ JoinInv => JoinsAccounted
    <2> SUFFICES ASSUME HostInv, JoinInv, faults = 0
                 PROVE  JoinsAccounted
      BY DEF JoinsAccounted
    <2>1. HostTypeOK
      BY DEF HostInv
    <2>2. \A g \in Goroutine : op[g].at = "store" => handle[op[g].topic] = "none"
      BY <2>1 DEF JoinInv, Storing, HostTypeOK
    <2> QED
      BY <2>1, <2>2 DEF JoinInv, JoinsAccounted, Storing, HostTypeOK
  <1> QED
    BY <1>1, <1>2, <1>3, HostInvariant, PTL DEF HostSpec

-----------------------------------------------------------------------------
(* The runtime implements the topic table.                                 *)

\* Replacing one request.
LEMMA CallChange ==
    ASSUME RuntimeTypeOK, NEW g \in Goroutine, NEW c \in Call,
           call' = [call EXCEPT ![g] = c],
           c.kind = call[g].kind, c.owner = call[g].owner, c.who = call[g].who,
           c.at \in {"check", "row", "cache", "topic"} =>
               call[g].at \in {"check", "row", "cache", "topic"},
           c.at = "send" => call[g].at = "send", c.at # "lock",
           HostTypeOK', cache' \subseteq Person, subs' \subseteq Owner \X Person,
           dm' \in Owner \cup {Nobody}, UNCHANGED <<active, calls, promised>>
    PROVE  RuntimeTypeOK'
  BY DEF RuntimeTypeOK

\* A request goes on to another step.
LEMMA CallMoves ==
    ASSUME RuntimeTypeOK, NEW g \in Goroutine, NEW s \in CallSteps,
           call' = [call EXCEPT ![g].at = s]
    PROVE  \E c \in Call : /\ call' = [call EXCEPT ![g] = c] /\ c.at = s
                           /\ c.kind = call[g].kind /\ c.owner = call[g].owner
                           /\ c.who = call[g].who
  <1>1. call[g] \in Call /\ call' = [call EXCEPT ![g] = [call[g] EXCEPT !.at = s]]
    BY DEF RuntimeTypeOK
  <1>2. [call[g] EXCEPT !.at = s] \in Call
    BY <1>1 DEF Call
  <1> QED
    BY <1>1, <1>2 DEF Call

\* A request comes to its end.
LEMMA CallFinishes ==
    ASSUME RuntimeTypeOK, NEW g \in Goroutine, NEW r \in {"ok", "err"}, Finish(g, r)
    PROVE  \E c \in Call : /\ call' = [call EXCEPT ![g] = c] /\ c.at = "return"
                           /\ c.kind = call[g].kind /\ c.owner = call[g].owner
                           /\ c.who = call[g].who
  <1> DEFINE c == [call[g] EXCEPT !.at = "return", !.result = r]
  <1>1. call[g] \in Call /\ call' = [call EXCEPT ![g] = c]
    BY DEF RuntimeTypeOK, Finish
  <1>2. c \in Call /\ c.at = "return" /\ c.kind = call[g].kind
        /\ c.owner = call[g].owner /\ c.who = call[g].who
    BY <1>1 DEF Call, CallSteps
  <1> QED
    BY <1>1, <1>2

\* Every step is a step of the topic table or leaves it alone.
LEMMA HostStepOrStutter ==
    ASSUME RuntimeTypeOK, [Next]_vars
    PROVE  [HostNext]_hostVars
  <1> USE RuntimeAssumption
  <1>1. ASSUME NEW g \in Goroutine, Request(g) PROVE UNCHANGED hostVars
    BY <1>1 DEF Request, Follow, Unfollow, SendDM, SwitchIdentity, PublishPost
  <1>2. ASSUME NEW g \in Goroutine, StatementFails(g) PROVE HostNext
    BY <1>2 DEF StatementFails, HostNext
  <1>3. ASSUME NEW g \in Goroutine, InHost(g) PROVE HostNext
    BY <1>3 DEF InHost, HostNext
  <1>4. ASSUME NEW g \in Goroutine, ReturnFromHost(g) PROVE HostNext
    BY <1>4 DEF HostNext
  <1>5. ASSUME NEW g \in Goroutine, NEW e \in {"ensure", "unsubscribe", "publish"},
               NEW p \in Person, CallHost(g, e, Posts[p]) \/ CallHost(g, e, DMs[p])
        PROVE  HostNext
    BY <1>5 DEF HostNext
  <1>6. ASSUME NEW g \in Goroutine, ChangeTopic(g) PROVE HostNext
    <2>1. call[g].who \in Person
      BY <1>6 DEF ChangeTopic, RuntimeTypeOK
    <2> QED
      BY <1>4, <1>5, <1>6, <2>1 DEF ChangeTopic
  <1>7. ASSUME NEW g \in Goroutine, DropTopics(g) PROVE [HostNext]_hostVars
    <2>1. call[g].drop \subseteq Person
      BY DEF RuntimeTypeOK, Call
    <2> QED
      BY <1>4, <1>5, <1>7, <2>1 DEF DropTopics
  <1>8. ASSUME NEW g \in Goroutine, AddTopics(g) PROVE [HostNext]_hostVars
    <2>1. call[g].add \subseteq Person
      BY DEF RuntimeTypeOK, Call
    <2> QED
      BY <1>4, <1>5, <1>8, <2>1 DEF AddTopics
  <1>9. ASSUME NEW g \in Goroutine, LeaveOldDM(g) PROVE [HostNext]_hostVars
    BY <1>4, <1>5, <1>9 DEF LeaveOldDM, RuntimeTypeOK
  <1>10. ASSUME NEW g \in Goroutine, JoinNewDM(g) PROVE [HostNext]_hostVars
    <2>1. call[g].owner \in Owner \cup {Nobody}
      BY DEF RuntimeTypeOK, Call
    <2> QED
      BY <1>4, <1>5, <1>10, <2>1 DEF JoinNewDM
  <1>11. ASSUME NEW g \in Goroutine, Broadcast(g) PROVE HostNext
    <2>1. call[g].who \in Person
      BY <1>11 DEF Broadcast, RuntimeTypeOK
    <2> QED
      BY <1>4, <1>5, <1>11, <2>1 DEF Broadcast
  <1>12. ASSUME NEW g \in Goroutine,
                \/ CheckCache(g) \/ ChangeRow(g) \/ ChangeCache(g)
                \/ LockSyncer(g) \/ LoadSubscriptions(g) \/ SwapCache(g) \/ Return(g)
         PROVE  UNCHANGED hostVars
    BY <1>12 DEF CheckCache, ChangeRow, ChangeCache, LockSyncer, LoadSubscriptions,
       SwapCache, Return
  <1>13. CASE UNCHANGED vars
    BY <1>13 DEF vars
  <1> QED
    BY <1>1, <1>2, <1>3, <1>6, <1>7, <1>8, <1>9, <1>10, <1>11, <1>12, <1>13
    DEF Next, Step

\* Types of the whole runtime, with the read loops its type rests on.
LEMMA RuntimeInvStep ==
    RuntimeTypeOK /\ HostInv /\ [Next]_vars => RuntimeTypeOK' /\ HostInv'
  <1> SUFFICES ASSUME RuntimeTypeOK, HostInv, [Next]_vars
               PROVE  RuntimeTypeOK' /\ HostInv'
    OBVIOUS
  <1> USE RuntimeAssumption
  <1>0. HostInv' /\ HostTypeOK'
    BY HostStepOrStutter, HostInvStep DEF HostInv
  \* A request starts.
  <1>b. ASSUME NEW g \in Goroutine, NEW kind \in Kinds, NEW k \in Owner \cup {Nobody},
               NEW p \in Person \cup {Nobody}, NEW s \in CallSteps,
               Begin(g, kind, k, p, s),
               s \in {"check", "row", "cache", "topic"} => kind \in {"follow", "unfollow"},
               s = "send" => kind \in {"post", "dm"},
               s = "lock" => kind = "await",
               kind \notin {"none", "await", "switch"} => k \in Owner /\ p \in Person,
               UNCHANGED <<subs, cache, dm>>,
               active' \in Owner \cup {Nobody}, promised' \subseteq Owner \X Person
        PROVE  RuntimeTypeOK'
    <2> DEFINE c == [NoCall EXCEPT !.kind = kind, !.owner = k, !.who = p, !.at = s]
    <2>0. NoCall \in Call
      BY DEF NoCall, Call, Kinds, CallSteps
    <2>1. /\ c \in Call /\ c.kind = kind /\ c.owner = k /\ c.who = p /\ c.at = s
      BY <2>0 DEF Call
    <2>2. call' = [call EXCEPT ![g] = c] /\ calls' \in Nat
      BY <1>b DEF Begin, RuntimeTypeOK
    <2> QED
      BY <1>0, <1>b, <2>1, <2>2 DEF RuntimeTypeOK
  <1>1. ASSUME NEW g \in Goroutine, Request(g) PROVE RuntimeTypeOK'
    <2>1. ASSUME NEW k \in Owner, NEW p \in Person,
                 Follow(g, k, p) \/ Unfollow(g, k, p) \/ SendDM(g, k, p)
          PROVE  RuntimeTypeOK'
      BY <1>b, <2>1 DEF Follow, Unfollow, SendDM, Kinds, CallSteps, RuntimeTypeOK
    <2>2. ASSUME NEW k \in Owner \cup {Nobody}, SwitchIdentity(g, k)
          PROVE  RuntimeTypeOK'
      BY <1>b, <2>2 DEF SwitchIdentity, Kinds, CallSteps, RuntimeTypeOK
    <2>3. ASSUME NEW k \in Owner, PublishPost(g, k) PROVE RuntimeTypeOK'
      BY <1>b, <2>3 DEF PublishPost, Kinds, CallSteps, RuntimeTypeOK
    <2> QED
      BY <1>1, <2>1, <2>2, <2>3 DEF Request
  \* A request goes on, or comes to its end, without taking a step it has not.
  <1>m. ASSUME NEW g \in Goroutine, NEW s \in CallSteps \ {"send", "lock"},
               call' = [call EXCEPT ![g].at = s],
               s \in {"check", "row", "cache", "topic"} =>
                   call[g].at \in {"check", "row", "cache", "topic"},
               cache' \subseteq Person, subs' \subseteq Owner \X Person,
               dm' \in Owner \cup {Nobody}, UNCHANGED <<active, calls, promised>>
        PROVE  RuntimeTypeOK'
    <2>1. PICK c \in Call : /\ call' = [call EXCEPT ![g] = c] /\ c.at = s
                            /\ c.kind = call[g].kind /\ c.owner = call[g].owner
                            /\ c.who = call[g].who
      BY <1>m, CallMoves
    <2> QED
      BY <1>0, <1>m, <2>1, CallChange
  <1>f. ASSUME NEW g \in Goroutine, NEW r \in {"ok", "err"}, Finish(g, r),
               dm' \in Owner \cup {Nobody},
               UNCHANGED <<subs, cache, active, calls, promised>>
        PROVE  RuntimeTypeOK'
    <2>1. cache' \subseteq Person /\ subs' \subseteq Owner \X Person
      BY <1>f DEF RuntimeTypeOK
    <2> QED
      BY <1>0, <1>f, <2>1, CallFinishes, CallChange
  <1>u. ASSUME UNCHANGED <<subs, cache, active, dm, call, calls, promised>>
        PROVE  RuntimeTypeOK'
    BY <1>0, <1>u DEF RuntimeTypeOK
  <1>2. ASSUME NEW g \in Goroutine, StatementFails(g) PROVE RuntimeTypeOK'
    BY <1>2, <1>m, <1>f DEF StatementFails, CallGoto, CallSteps, RuntimeTypeOK
  <1>3. ASSUME NEW g \in Goroutine, InHost(g) PROVE RuntimeTypeOK'
    BY <1>3, <1>u DEF InHost, callVars
  <1>4. ASSUME NEW g \in Goroutine, CheckCache(g) PROVE RuntimeTypeOK'
    BY <1>4, <1>m, <1>f DEF CheckCache, CallGoto, CallSteps, RuntimeTypeOK
  <1>5. ASSUME NEW g \in Goroutine, ChangeRow(g) PROVE RuntimeTypeOK'
    <2>1. subs' \subseteq Owner \X Person
      BY <1>5 DEF ChangeRow, RuntimeTypeOK
    <2> QED
      BY <1>5, <1>m, <2>1 DEF ChangeRow, CallGoto, CallSteps, RuntimeTypeOK
  <1>6. ASSUME NEW g \in Goroutine, ChangeCache(g) PROVE RuntimeTypeOK'
    <2>1. cache' \subseteq Person
      BY <1>6 DEF ChangeCache, RuntimeTypeOK
    <2> QED
      BY <1>6, <1>m, <2>1 DEF ChangeCache, CallGoto, CallSteps, RuntimeTypeOK
  <1>7. ASSUME NEW g \in Goroutine, ChangeTopic(g) PROVE RuntimeTypeOK'
    BY <1>7, <1>u, <1>f DEF ChangeTopic, ReturnFromHost, RuntimeTypeOK
  <1>8. ASSUME NEW g \in Goroutine, LoadSubscriptions(g) PROVE RuntimeTypeOK'
    <2> DEFINE n == GetSubscriptions(call[g].owner)
               c == [call[g] EXCEPT !.next = n, !.at = "swap"]
    <2>1. call[g] \in Call /\ n \subseteq Person
      BY DEF RuntimeTypeOK, GetSubscriptions
    <2>2. /\ c \in Call /\ c.kind = call[g].kind /\ c.owner = call[g].owner
          /\ c.who = call[g].who /\ c.at = "swap"
      BY <2>1 DEF Call, CallSteps
    <2>3. call' = [call EXCEPT ![g] = c]
      BY <1>8 DEF LoadSubscriptions, RuntimeTypeOK
    <2> QED
      BY <1>0, <1>8, <2>2, <2>3, CallChange DEF LoadSubscriptions, RuntimeTypeOK
  <1>9. ASSUME NEW g \in Goroutine, SwapCache(g) PROVE RuntimeTypeOK'
    <2> DEFINE c == [call[g] EXCEPT !.drop = cache \ call[g].next,
                                    !.add = call[g].next \ cache, !.at = "drop"]
    <2>1. call[g] \in Call /\ cache \subseteq Person /\ call[g].next \subseteq Person
      BY DEF RuntimeTypeOK, Call
    <2>2. /\ c \in Call /\ c.kind = call[g].kind /\ c.owner = call[g].owner
          /\ c.who = call[g].who /\ c.at = "drop"
      BY <2>1 DEF Call, CallSteps
    <2>3. call' = [call EXCEPT ![g] = c]
      BY <1>9 DEF SwapCache, RuntimeTypeOK
    <2>4. cache' \subseteq Person
      BY <1>9, <2>1 DEF SwapCache
    <2> QED
      BY <1>0, <1>9, <2>2, <2>3, <2>4, CallChange DEF SwapCache, RuntimeTypeOK
  <1>10. ASSUME NEW g \in Goroutine, DropTopics(g) \/ AddTopics(g) PROVE RuntimeTypeOK'
    <2>1. CASE UNCHANGED call
      BY <1>10, <1>u, <2>1 DEF DropTopics, AddTopics
    <2>2. ASSUME NEW s \in {"olddm", "add"}, call' = [call EXCEPT ![g].at = s]
          PROVE  RuntimeTypeOK'
      BY <1>10, <1>m, <2>2 DEF DropTopics, AddTopics, CallSteps, RuntimeTypeOK
    <2>3. ASSUME NEW c, call' = [call EXCEPT ![g] = c], c \in Call,
                 c.kind = call[g].kind, c.owner = call[g].owner,
                 c.who = call[g].who, c.at = call[g].at
          PROVE  RuntimeTypeOK'
      BY <1>0, <1>10, <2>3, CallChange DEF DropTopics, AddTopics, RuntimeTypeOK
    <2>4. ASSUME NEW S, S \subseteq Person,
                 \/ call' = [call EXCEPT ![g].drop = S]
                 \/ call' = [call EXCEPT ![g].add = S]
          PROVE  RuntimeTypeOK'
      <3>1. call[g] \in Call
        BY DEF RuntimeTypeOK
      <3>2. CASE call' = [call EXCEPT ![g].drop = S]
        <4> DEFINE c == [call[g] EXCEPT !.drop = S]
        <4>1. c \in Call /\ c.kind = call[g].kind /\ c.owner = call[g].owner
              /\ c.who = call[g].who /\ c.at = call[g].at
          BY <2>4, <3>1 DEF Call
        <4>2. call' = [call EXCEPT ![g] = c]
          BY <3>2 DEF RuntimeTypeOK
        <4> QED
          BY <2>3, <4>1, <4>2
      <3>3. CASE call' = [call EXCEPT ![g].add = S]
        <4> DEFINE c == [call[g] EXCEPT !.add = S]
        <4>1. c \in Call /\ c.kind = call[g].kind /\ c.owner = call[g].owner
              /\ c.who = call[g].who /\ c.at = call[g].at
          BY <2>4, <3>1 DEF Call
        <4>2. call' = [call EXCEPT ![g] = c]
          BY <3>3 DEF RuntimeTypeOK
        <4> QED
          BY <2>3, <4>1, <4>2
      <3> QED
        BY <2>4, <3>2, <3>3
    <2>5. CASE DropTopics(g)
      <3> DEFINE S == {p \in call[g].drop : Posts[p] # op[g].topic}
      <3>1. S \subseteq Person
        BY DEF RuntimeTypeOK, Call
      <3>2. \/ UNCHANGED call
            \/ call' = [call EXCEPT ![g].drop = S]
            \/ call' = [call EXCEPT ![g].at = "olddm"]
            \/ call' = [call EXCEPT ![g].at = "add"]
        BY <2>5 DEF DropTopics, CallGoto, RuntimeTypeOK, Call
      <3> QED
        BY <2>1, <2>2, <2>4, <3>1, <3>2
    <2>6. CASE AddTopics(g)
      <3> DEFINE S == {p \in call[g].add : Posts[p] # op[g].topic}
      <3>1. S \subseteq Person
        BY DEF RuntimeTypeOK, Call
      <3>2. \/ UNCHANGED call
            \/ call' = [call EXCEPT ![g].add = S]
            \/ call' = [call EXCEPT ![g].at = "olddm"]
        BY <2>6 DEF AddTopics, CallGoto, RuntimeTypeOK, Call
      <3> QED
        BY <2>1, <2>2, <2>4, <3>1, <3>2
    <2> QED
      BY <1>10, <2>5, <2>6
  <1>11. ASSUME NEW g \in Goroutine, LeaveOldDM(g) PROVE RuntimeTypeOK'
    <2>1. CASE UNCHANGED <<call, dm>>
      BY <1>11, <1>u, <2>1 DEF LeaveOldDM
    <2>2. CASE CallGoto(g, "newdm")
      BY <1>11, <1>m, <2>2 DEF LeaveOldDM, CallGoto, CallSteps, RuntimeTypeOK
    <2> QED
      BY <1>11, <2>1, <2>2 DEF LeaveOldDM
  <1>12. ASSUME NEW g \in Goroutine, JoinNewDM(g) PROVE RuntimeTypeOK'
    <2>1. CASE UNCHANGED <<call, dm>>
      BY <1>12, <1>u, <2>1 DEF JoinNewDM
    <2>2. CASE Finish(g, "ok")
      <3>1. dm' \in Owner \cup {Nobody}
        BY <1>12 DEF JoinNewDM, RuntimeTypeOK, Call
      <3> QED
        BY <1>12, <1>f, <2>2, <3>1 DEF JoinNewDM
    <2> QED
      BY <1>12, <2>1, <2>2 DEF JoinNewDM
  <1>13. ASSUME NEW g \in Goroutine, Broadcast(g) PROVE RuntimeTypeOK'
    BY <1>13, <1>u, <1>f DEF Broadcast, RuntimeTypeOK
  <1>14. ASSUME NEW g \in Goroutine, Return(g) PROVE RuntimeTypeOK'
    <2>1. promised' \subseteq Owner \X Person
      BY <1>14 DEF Return, RuntimeTypeOK
    <2>2. /\ NoCall \in Call /\ NoCall.kind = "none" /\ NoCall.at = "none"
      BY DEF NoCall, Call, Kinds, CallSteps
    <2> QED
      BY <1>0, <1>14, <2>1, <2>2 DEF Return, RuntimeTypeOK
  <1>15. ASSUME NEW g \in Goroutine, LockSyncer(g) PROVE RuntimeTypeOK'
    <2> DEFINE c == [call[g] EXCEPT !.kind = "switch", !.at = "load"]
    <2>1. call[g] \in Call /\ call[g].owner \in Owner \cup {Nobody}
      BY DEF RuntimeTypeOK, Call
    <2>2. c \in Call /\ c.kind = "switch" /\ c.at = "load"
      BY <2>1 DEF Call, Kinds, CallSteps
    <2>3. call' = [call EXCEPT ![g] = c] /\ active' = call[g].owner
          /\ UNCHANGED <<subs, cache, dm, calls, promised>>
      BY <1>15 DEF LockSyncer
    <2> HIDE DEF c
    <2> QED
      BY <1>0, <2>1, <2>2, <2>3 DEF RuntimeTypeOK
  <1>16. CASE UNCHANGED vars
    BY <1>0, <1>16, <1>u DEF vars, callVars
  <1> QED
    BY <1>0, <1>1, <1>2, <1>3, <1>4, <1>5, <1>6, <1>7, <1>8, <1>9, <1>10, <1>11,
       <1>12, <1>13, <1>14, <1>15, <1>16 DEF Next, Step

\* Every step of the feed manager, the syncer and the requests is a step of the
\* topic table or leaves it alone, so what is proved of the table holds here.
LEMMA RuntimeUsesTopicHost == Spec => HostSpec /\ []RuntimeTypeOK
  <1>1. Init => HostInit /\ HostInv /\ RuntimeTypeOK
    <2>1. NoCall \in Call /\ NoCall.kind = "none" /\ NoCall.at = "none"
      BY DEF NoCall, Call, Kinds, CallSteps
    <2> QED
      BY <2>1, HostAssumption DEF Init, HostInit, RuntimeTypeOK, HostInv, HostTypeOK,
         OneReadLoop, NoOp, Op, OpSteps, Handles
  <1>2. RuntimeTypeOK /\ [Next]_vars => [HostNext]_hostVars
    BY HostStepOrStutter
  <1> QED
    BY <1>1, <1>2, RuntimeInvStep, PTL DEF Spec, HostSpec

\* So what is proved of the table holds in the node: a topic has one read loop
\* exactly while its handle reads, and no topic is joined and forgotten.
THEOREM RuntimeTopics == Spec => []OneReadLoop /\ []JoinsAccounted
  <1>1. HostInv => OneReadLoop
    BY DEF HostInv
  <1> QED
    BY <1>1, RuntimeUsesTopicHost, HostInvariant, JoinsAccountedTheorem, PTL

-----------------------------------------------------------------------------
(* What a step inside a call of the topic table may do.                    *)

\* The call goes on, the others stay where they are, but for publishers whose
\* handle is closed, and no other topic changes its handle.
LEMMA HostMoves ==
    ASSUME HostTypeOK, NEW g \in Goroutine, HostStep(g)
    PROVE  /\ op[g].topic \in Topic /\ op[g].at \notin {"none", "ok", "err"}
           /\ \A h \in Goroutine : op'[h].topic = op[h].topic
           /\ \A h \in Goroutine \ {g} :
                 op'[h] = op[h] \/ (op[h].at = "send" /\ op'[h].at = "err")
           /\ op[g].at = "ensure" => op'[g].at \in {"ok", "subscribe"}
           /\ op[g].at \in {"subscribe", "unsubscribe"} => op'[g].at \in {"ok", "err"}
           /\ op[g].at \in {"publish", "join", "store", "send"} =>
                 op'[g].at \in {"join", "store", "send", "ok", "err"}
           /\ \A t \in Topic : t # op[g].topic => handle'[t] = handle[t]
  <1>0. /\ op[g].at \in {"ensure", "subscribe", "unsubscribe", "publish", "join", "store", "send"}
        /\ op[g].topic \in Topic
    BY DEF HostStep, EnsureSubscribed, Subscribe, Unsubscribe, PublishFind, PublishJoin,
       PublishStore, PublishSend, GossipFails, OpAt, HostTypeOK
  <1>1. CASE \E s \in OpSteps \ {"none"} : OpGoto(g, s)
    <2>1. PICK s \in OpSteps \ {"none"} : OpGoto(g, s)
      BY <1>1
    <2>2. /\ op'[g].at = s
          /\ \A h \in Goroutine : op'[h].topic = op[h].topic
          /\ \A h \in Goroutine \ {g} : op'[h] = op[h]
      BY <1>0, <2>1, OpChange
    <2>3. \A t \in Topic : t # op[g].topic => handle'[t] = handle[t]
      BY DEF HostStep, EnsureSubscribed, Subscribe, Unsubscribe, PublishFind, PublishJoin,
         PublishStore, PublishSend, GossipFails, Forget, HostTypeOK
    <2>4. CASE ~Unsubscribe(g)
      <3>1. /\ op[g].at = "ensure" => s \in {"ok", "subscribe"}
            /\ op[g].at = "subscribe" => s \in {"ok", "err"}
            /\ op[g].at # "unsubscribe"
            /\ op[g].at \in {"publish", "join", "store", "send"} =>
                  s \in {"join", "store", "send", "ok", "err"}
        <4>1. ASSUME NEW r \in OpSteps, OpGoto(g, r) PROVE s = r
          <5>1. op[g] \in Op
            BY DEF HostTypeOK
          <5>2. op'[g].at = r
            BY <4>1, <5>1 DEF OpGoto, HostTypeOK, Op
          <5> QED
            BY <2>2, <5>2
        <4> QED
          BY <2>4, <4>1 DEF HostStep, EnsureSubscribed, Subscribe, PublishFind, PublishJoin,
             PublishStore, PublishSend, GossipFails, OpAt, OpSteps
      <3> QED
        BY <1>0, <2>2, <2>3, <3>1
    <2>5. CASE Unsubscribe(g)
      <3>1. op[g].at = "unsubscribe"
        BY <2>5 DEF Unsubscribe, OpAt
      <3>2. op[g] \in Op /\ op \in [Goroutine -> Op]
        BY DEF HostTypeOK
      <3>3. op'[g].at \in {"ok", "err"}
        BY <2>5, <3>2 DEF Unsubscribe, Forget, OpGoto, Op
      <3> QED
        BY <1>0, <2>2, <2>3, <3>1, <3>3
    <2> QED
      BY <2>4, <2>5
  <1>2. CASE \E r \in {"ok", "err"} : Forget(g, op[g].topic, r) /\ op[g].at = "unsubscribe"
    <2>1. PICK r \in {"ok", "err"} : Forget(g, op[g].topic, r) /\ op[g].at = "unsubscribe"
      BY <1>2
    <2>2. \A t \in Topic : t # op[g].topic => handle'[t] = handle[t]
      BY <2>1 DEF Forget, HostTypeOK
    <2>3. \A h \in Goroutine : \A x \in {"ok", "err"} :
             /\ [op[h] EXCEPT !.at = x].at = x
             /\ [op[h] EXCEPT !.at = x].topic = op[h].topic
      BY DEF HostTypeOK, Op
    <2>4. \A h \in Goroutine :
             \/ h = g /\ op'[h] = [op[h] EXCEPT !.at = r]
             \/ h # g /\ op[h].at = "send" /\ op'[h] = [op[h] EXCEPT !.at = "err"]
             \/ h # g /\ op'[h] = op[h]
      BY <2>1 DEF Forget
    <2>5. op'[g].at = r
      BY <2>3, <2>4
    <2>6. ASSUME NEW h \in Goroutine PROVE op'[h].topic = op[h].topic
      <3>1. \A x \in {"ok", "err"} : [op[h] EXCEPT !.at = x].topic = op[h].topic
        BY <2>3
      <3> QED
        BY <2>4, <3>1
    <2>7. \A h \in Goroutine \ {g} :
             op'[h] = op[h] \/ (op[h].at = "send" /\ op'[h].at = "err")
      BY <2>3, <2>4
    <2> QED
      BY <1>0, <2>1, <2>2, <2>5, <2>6, <2>7
  <1> QED
    BY <1>1, <1>2 DEF HostStep, EnsureSubscribed, Subscribe, Unsubscribe, PublishFind,
       PublishJoin, PublishStore, PublishSend, GossipFails, OpAt, OpSteps

\* What the calls return, and what they have done to their topic by then.  Only
\* Subscribe starts to read, only Unsubscribe leaves, and a call that fails
\* without a fault found the topic joined, or gone.
LEMMA HostResults ==
    ASSUME HostTypeOK, NEW g \in Goroutine, HostStep(g)
    PROVE  LET t == op[g].topic IN
           /\ handle'[t] = "read" => handle[t] = "read"
                                     \/ (op[g].at = "subscribe" /\ op'[g].at = "ok")
           /\ op[g].at = "unsubscribe" => handle'[t] = "none"
           /\ op[g].at # "unsubscribe" /\ handle[t] # "none" => handle'[t] # "none"
           /\ op[g].at \in {"ensure", "subscribe"} /\ op'[g].at = "ok" => handle'[t] # "none"
           /\ op[g].at = "ensure" /\ op'[g].at = "subscribe" => handle'[t] = "none"
           /\ op[g].at = "subscribe" /\ op'[g].at = "err" =>
                 handle[t] # "none" \/ t \in joined \/ faults' # 0
           /\ op[g].at = "unsubscribe" /\ op'[g].at = "err" =>
                 handle[t] = "none" \/ faults' # 0
  <1> DEFINE t == op[g].topic
  <1>0. /\ t \in Topic /\ handle \in [Topic -> Handles] /\ op \in [Goroutine -> Op]
        /\ op[g] \in Op /\ faults \in Nat
    BY HostMoves DEF HostTypeOK
  <1>g. ASSUME NEW s \in OpSteps, OpGoto(g, s) PROVE op'[g].at = s
    BY <1>0, <1>g DEF OpGoto, Op
  <1>f. ASSUME NEW r \in {"ok", "err"}, Forget(g, t, r)
        PROVE  op'[g].at = r /\ handle'[t] = "none"
    <2>1. [op[g] EXCEPT !.at = r].at = r
      BY <1>0 DEF Op
    <2> QED
      BY <1>0, <1>f, <2>1 DEF Forget
  <1>1. CASE EnsureSubscribed(g)
    BY <1>0, <1>1, <1>g DEF EnsureSubscribed, OpAt, OpSteps
  <1>2. CASE Subscribe(g)
    BY <1>0, <1>2, <1>g DEF Subscribe, OpAt, OpSteps
  <1>3. CASE Unsubscribe(g)
    BY <1>0, <1>3, <1>f, <1>g DEF Unsubscribe, OpAt, OpSteps
  <1>4. CASE PublishFind(g) \/ PublishJoin(g) \/ PublishSend(g)
    BY <1>4 DEF PublishFind, PublishJoin, PublishSend, OpAt
  <1>5. CASE PublishStore(g)
    BY <1>0, <1>5 DEF PublishStore, OpAt
  <1>6. CASE GossipFails(g)
    BY <1>0, <1>6, <1>g DEF GossipFails, OpSteps
  <1> QED
    BY <1>1, <1>2, <1>3, <1>4, <1>5, <1>6 DEF HostStep

-----------------------------------------------------------------------------
(* Which requests are in which call of the topic table.                    *)

SwitchSteps == {"load", "swap", "drop", "add", "olddm", "newdm"}

Joining == {"ensure", "subscribe", "ok", "err"}
Leaving == {"unsubscribe", "ok", "err"}
Publishing == {"publish", "join", "store", "send", "ok", "err"}

\* A request in a call of the topic table is at a step that calls it, and the
\* call is about the topic of that step.
Tied(g) ==
    LET c == call[g]  o == op[g] IN
    o # NoOp =>
        \/ /\ c.at = "topic" /\ o.topic = Posts[c.who]
           /\ o.at \in IF c.kind = "follow" THEN Joining ELSE Leaving
        \/ /\ c.at = "drop" /\ o.at \in Leaving
           /\ \E p \in c.drop : o.topic = Posts[p]
        \/ /\ c.at = "add" /\ o.at \in Joining
           /\ \E p \in c.add : o.topic = Posts[p]
        \/ /\ c.at = "olddm" /\ o.at \in Leaving
           /\ dm # Nobody /\ o.topic = DMs[dm]
        \/ /\ c.at = "newdm" /\ o.at \in Joining
           /\ c.owner # Nobody /\ o.topic = DMs[c.owner]
        \/ c.at = "send" /\ o.at \in Publishing

\* The syncer's mutex: one switch at a time, to the identity it was told of.
Switching ==
    /\ \A g, h \in Goroutine : call[g].kind = "switch" /\ call[h].kind = "switch" => g = h
    /\ \A g \in Goroutine :
         /\ call[g].at \in SwitchSteps => call[g].kind = "switch"
         /\ call[g].kind = "switch" =>
               call[g].at \in SwitchSteps \cup {"return"} /\ call[g].owner = active

WorkInv == (\A g \in Goroutine : Tied(g)) /\ Switching

\* A request has its tie and its switch at every step.
LEMMA WorkStep ==
    ASSUME RuntimeTypeOK, WorkInv, [Next]_vars
    PROVE  WorkInv'
  <1> USE RuntimeAssumption
  <1>0. /\ call \in [Goroutine -> Call] /\ HostTypeOK /\ op \in [Goroutine -> Op]
        /\ \A g \in Goroutine : Tied(g)
        /\ Switching
    BY DEF RuntimeTypeOK, HostTypeOK, WorkInv
  <1>k. NoOp.at = "none"
    BY DEF NoOp
  \* Nobody else is at a step of a switch.
  <1>a. ASSUME NEW g \in Goroutine, call[g].at \in SwitchSteps
        PROVE  \A h \in Goroutine \ {g} : call[h].at \notin SwitchSteps
    BY <1>0, <1>a DEF Switching
  \* One request changes, to steps of its kind.
  <1>s. ASSUME NEW g \in Goroutine, NEW c \in Call, call' = [call EXCEPT ![g] = c],
               c.kind = call[g].kind, c.owner = call[g].owner, active' = active,
               call[g].at # "return", c.at \in SwitchSteps => call[g].at \in SwitchSteps,
               call[g].at \in SwitchSteps => c.at \in SwitchSteps \cup {"return"}
        PROVE  Switching'
    <2>1. call'[g] = c /\ \A h \in Goroutine \ {g} : call'[h] = call[h]
      BY <1>0, <1>s
    <2>2. \A h \in Goroutine : call'[h].kind = call[h].kind /\ call'[h].owner = call[h].owner
      BY <1>s, <2>1
    <2>3. ASSUME NEW h \in Goroutine
          PROVE  /\ call'[h].at \in SwitchSteps => call[h].kind = "switch"
                 /\ call[h].kind = "switch" => call'[h].at \in SwitchSteps \cup {"return"}
      BY <1>0, <1>s, <2>1 DEF Switching
    <2> QED
      BY <1>0, <1>s, <2>2, <2>3 DEF Switching
  \* The calls of the others are where they were.
  <1>o. ASSUME NEW g \in Goroutine, \A h \in Goroutine \ {g} : call'[h] = call[h],
               \A h \in Goroutine \ {g} : op'[h] = op[h],
               dm' = dm \/ call[g].at \in SwitchSteps, Tied(g)'
        PROVE  \A h \in Goroutine : Tied(h)'
    <2> SUFFICES ASSUME NEW h \in Goroutine, h # g PROVE Tied(h)'
      BY <1>o
    <2>1. dm' = dm \/ call[h].at # "olddm"
      BY <1>a, <1>o DEF SwitchSteps
    <2>2. call'[h] = call[h] /\ op'[h] = op[h] /\ Tied(h)
      BY <1>0, <1>o
    <2> QED
      BY <2>1, <2>2 DEF Tied
  \* A request in no call of the table moves on.
  <1>m. ASSUME NEW g \in Goroutine, NEW c \in Call, call' = [call EXCEPT ![g] = c],
               c.kind = call[g].kind, c.owner = call[g].owner, active' = active,
               call[g].at # "return", c.at \in SwitchSteps => call[g].at \in SwitchSteps,
               call[g].at \in SwitchSteps => c.at \in SwitchSteps \cup {"return"},
               op'[g] = NoOp, \A h \in Goroutine \ {g} : op'[h] = op[h],
               dm' = dm \/ call[g].at \in SwitchSteps
        PROVE  WorkInv'
    <2>1. Switching'
      BY <1>m, <1>s
    <2>2. Tied(g)' /\ \A h \in Goroutine \ {g} : call'[h] = call[h]
      BY <1>0, <1>m DEF Tied
    <2>3. \A h \in Goroutine : Tied(h)'
      BY <1>m, <1>o, <2>2
    <2> QED
      BY <2>1, <2>3 DEF WorkInv
  <1>g. ASSUME NEW g \in Goroutine, NEW s \in CallSteps, CallGoto(g, s), active' = active,
               call[g].at # "return", s \in SwitchSteps <=> call[g].at \in SwitchSteps,
               op'[g] = NoOp, \A h \in Goroutine \ {g} : op'[h] = op[h],
               dm' = dm \/ call[g].at \in SwitchSteps
        PROVE  WorkInv'
    <2>1. PICK c \in Call : /\ call' = [call EXCEPT ![g] = c] /\ c.at = s
                            /\ c.kind = call[g].kind /\ c.owner = call[g].owner
                            /\ c.who = call[g].who
      BY <1>g, CallMoves, Zenon DEF CallGoto
    <2> QED
      BY <1>g, <1>m, <2>1
  \* A request calls the topic table.
  <1>c. ASSUME NEW g \in Goroutine, NEW e \in OpSteps \ {"none"}, NEW t \in Topic,
               CallHost(g, e, t), UNCHANGED <<call, dm, active>>,
               op'[g] = [at |-> e, topic |-> t] => Tied(g)'
        PROVE  WorkInv'
    <2>1. op'[g] = [at |-> e, topic |-> t] /\ \A h \in Goroutine \ {g} : op'[h] = op[h]
      BY <1>0, <1>c DEF CallHost
    <2>2. \A h \in Goroutine : Tied(h)'
      BY <1>c, <1>o, <2>1
    <2>3. Switching'
      BY <1>0, <1>c DEF Switching
    <2> QED
      BY <2>2, <2>3 DEF WorkInv
  <1>r. ASSUME NEW g \in Goroutine, ReturnFromHost(g)
        PROVE  op'[g] = NoOp /\ (\A h \in Goroutine \ {g} : op'[h] = op[h])
               /\ op[g] # NoOp
    BY <1>0, <1>r, <1>k DEF ReturnFromHost
  <1>1. ASSUME NEW g \in Goroutine, Request(g) PROVE WorkInv'
    <2>1. PICK kind \in Kinds \ {"none"}, k \in Owner \cup {Nobody}, p \in Person \cup {Nobody},
               s \in {"check", "lock", "send"} :
             Begin(g, kind, k, p, s) /\ UNCHANGED <<hostVars, dm, active>> /\ kind # "switch"
      <3>1. ASSUME NEW k \in Owner, NEW p \in Person, Follow(g, k, p)
            PROVE  Begin(g, "follow", k, p, "check") /\ UNCHANGED <<hostVars, dm, active>>
        BY <3>1 DEF Follow
      <3>2. ASSUME NEW k \in Owner, NEW p \in Person, Unfollow(g, k, p)
            PROVE  Begin(g, "unfollow", k, p, "check") /\ UNCHANGED <<hostVars, dm, active>>
        BY <3>2 DEF Unfollow
      <3>3. ASSUME NEW k \in Owner, NEW p \in Person, SendDM(g, k, p)
            PROVE  Begin(g, "dm", k, p, "send") /\ UNCHANGED <<hostVars, dm, active>>
        BY <3>3 DEF SendDM
      <3>4. ASSUME NEW k \in Owner, PublishPost(g, k)
            PROVE  Begin(g, "post", k, k, "send") /\ UNCHANGED <<hostVars, dm, active>>
        BY <3>4 DEF PublishPost
      <3>5. ASSUME NEW k \in Owner \cup {Nobody}, SwitchIdentity(g, k)
            PROVE  Begin(g, "await", k, Nobody, "lock") /\ UNCHANGED <<hostVars, dm, active>>
        BY <3>5 DEF SwitchIdentity
      <3> QED
        BY <1>1, <3>1, <3>2, <3>3, <3>4, <3>5 DEF Request, Kinds
    <2> DEFINE c == [NoCall EXCEPT !.kind = kind, !.owner = k, !.who = p, !.at = s]
    <2>2. c.kind = kind /\ c.owner = k /\ c.at = s
      BY DEF NoCall
    <2>3. call[g] = NoCall /\ call' = [call EXCEPT ![g] = c]
      BY <2>1 DEF Begin
    <2> HIDE DEF c
    <2>4. call'[g] = c /\ \A h \in Goroutine \ {g} : call'[h] = call[h]
      BY <1>0, <2>3
    <2>5. op[g] = NoOp
      BY <1>0, <2>3 DEF Tied, NoCall
    <2>6. UNCHANGED op
      BY <2>1 DEF hostVars
    <2>7. \A h \in Goroutine : Tied(h)'
      BY <1>o, <2>1, <2>4, <2>5, <2>6 DEF Tied
    <2>8. call'[g].kind # "switch" /\ call'[g].at \notin SwitchSteps /\ active' = active
      BY <2>1, <2>2, <2>4 DEF SwitchSteps
    <2>9. Switching'
      BY <1>0, <2>4, <2>8 DEF Switching
    <2> QED
      BY <2>7, <2>9 DEF WorkInv
  <1>2. ASSUME NEW g \in Goroutine, StatementFails(g) PROVE WorkInv'
    <2>1. op[g] = NoOp
      BY <1>0, <1>2 DEF StatementFails, Tied
    <2>2. UNCHANGED <<op, active, dm>>
      BY <1>2 DEF StatementFails, OtherFault
    <2>3. CASE call[g].at = "row" /\ Finish(g, "err")
      BY <1>m, <2>1, <2>2, <2>3, CallFinishes DEF SwitchSteps
    <2>4. CASE call[g].at = "load" /\ CallGoto(g, "olddm")
      BY <1>g, <2>1, <2>2, <2>4 DEF SwitchSteps, CallSteps
    <2> QED
      BY <1>2, <2>3, <2>4 DEF StatementFails
  <1>3. ASSUME NEW g \in Goroutine, InHost(g) PROVE WorkInv'
    <2>1. HostStep(g) /\ UNCHANGED <<call, dm, active>>
      BY <1>3 DEF InHost, callVars
    <2>2. Switching'
      BY <1>0, <2>1 DEF Switching
    <2>3. ASSUME NEW h \in Goroutine PROVE Tied(h)'
      <3>1. Tied(h) /\ call'[h] = call[h] /\ op'[h].topic = op[h].topic
        BY <1>0, <2>1, HostMoves
      <3>2. CASE op'[h] = op[h]
        BY <2>1, <3>1, <3>2 DEF Tied
      <3>3. CASE op[h].at = "send" /\ op'[h].at = "err"
        <4>1. op[h] # NoOp /\ call[h].at = "send"
          BY <1>k, <3>1, <3>3 DEF Tied, Joining, Leaving
        <4> QED
          BY <3>1, <3>3, <4>1 DEF Tied, Publishing
      <3>4. CASE h = g
        <4>1. op[g] # NoOp
          BY <1>0, <1>k, <2>1, HostMoves
        <4>2. /\ op[g].at \in Joining => op'[g].at \in Joining
              /\ op[g].at \in Leaving => op'[g].at \in Leaving
              /\ op[g].at \in Publishing => op'[g].at \in Publishing
          BY <1>0, <2>1, HostMoves DEF Joining, Leaving, Publishing
        <4>3. Tied(g) /\ call'[g] = call[g] /\ op'[g].topic = op[g].topic /\ dm' = dm
          BY <2>1, <3>1, <3>4
        <4>4. Tied(g)'
          BY <4>1, <4>2, <4>3 DEF Tied
        <4> QED
          BY <3>4, <4>4
      <3> QED
        BY <1>0, <2>1, <3>2, <3>3, <3>4, HostMoves
    <2> QED
      BY <2>2, <2>3 DEF WorkInv
  <1>4. ASSUME NEW g \in Goroutine, CheckCache(g) \/ ChangeRow(g) \/ ChangeCache(g) PROVE WorkInv'
    <2>1. /\ call[g].at \in {"check", "row", "cache"} /\ UNCHANGED <<hostVars, active, dm>>
          /\ \/ Finish(g, "ok")
             \/ \E s \in {"row", "cache", "topic"} : CallGoto(g, s)
      BY <1>4 DEF CheckCache, ChangeRow, ChangeCache
    <2>2. op[g] = NoOp /\ UNCHANGED op
      BY <1>0, <2>1 DEF Tied, hostVars
    <2>3. CASE Finish(g, "ok")
      BY <1>m, <2>1, <2>2, <2>3, CallFinishes DEF SwitchSteps
    <2>4. ASSUME NEW s \in {"row", "cache", "topic"}, CallGoto(g, s) PROVE WorkInv'
      BY <1>g, <2>1, <2>2, <2>4 DEF SwitchSteps, CallSteps
    <2> QED
      BY <2>1, <2>3, <2>4
  <1>5. ASSUME NEW g \in Goroutine, ChangeTopic(g) PROVE WorkInv'
    <2> DEFINE e == IF call[g].kind = "follow" THEN "ensure" ELSE "unsubscribe"
    <2>1. call[g].at = "topic" /\ call[g].who \in Person /\ UNCHANGED <<active, dm>>
      BY <1>5 DEF ChangeTopic, RuntimeTypeOK
    <2>2. CASE CallHost(g, e, Posts[call[g].who]) /\ UNCHANGED call
      <3>1. op'[g] = [at |-> e, topic |-> Posts[call[g].who]] => Tied(g)'
        BY <2>1, <2>2 DEF Tied, Joining, Leaving
      <3> QED
        BY <1>c, <2>1, <2>2, <3>1 DEF OpSteps
    <2>3. CASE ReturnFromHost(g) /\ Finish(g, op[g].at)
      <3>1. op[g].at \in {"ok", "err"}
        BY <2>3 DEF ReturnFromHost
      <3> QED
        BY <1>m, <1>r, <2>1, <2>3, <3>1, CallFinishes DEF SwitchSteps
    <2> QED
      BY <1>5, <2>2, <2>3 DEF ChangeTopic
  <1>6. ASSUME NEW g \in Goroutine, LoadSubscriptions(g) \/ SwapCache(g) PROVE WorkInv'
    <2>1. /\ call[g].at \in {"load", "swap"} /\ UNCHANGED <<hostVars, active, dm>>
      BY <1>6 DEF LoadSubscriptions, SwapCache
    <2>2. op[g] = NoOp /\ UNCHANGED op
      BY <1>0, <2>1 DEF Tied, hostVars
    <2>3. call[g] \in Call /\ cache \subseteq Person
      BY DEF RuntimeTypeOK
    <2>4. CASE LoadSubscriptions(g)
      <3> DEFINE n == GetSubscriptions(call[g].owner)
                 c == [call[g] EXCEPT !.next = n, !.at = "swap"]
      <3>1. n \subseteq Person
        BY DEF GetSubscriptions
      <3>2. c \in Call /\ c.kind = call[g].kind /\ c.owner = call[g].owner /\ c.at = "swap"
        BY <2>3, <3>1 DEF Call, CallSteps
      <3>3. call' = [call EXCEPT ![g] = c]
        BY <2>4 DEF LoadSubscriptions
      <3> HIDE DEF c
      <3> QED
        BY <1>m, <2>1, <2>2, <3>2, <3>3 DEF SwitchSteps
    <2>5. CASE SwapCache(g)
      <3> DEFINE c == [call[g] EXCEPT !.drop = cache \ call[g].next,
                                      !.add = call[g].next \ cache, !.at = "drop"]
      <3>1. call[g].next \subseteq Person
        BY <2>3 DEF Call
      <3>2. c \in Call /\ c.kind = call[g].kind /\ c.owner = call[g].owner /\ c.at = "drop"
        BY <2>3, <3>1 DEF Call, CallSteps
      <3>3. call' = [call EXCEPT ![g] = c]
        BY <2>5 DEF SwapCache
      <3> HIDE DEF c
      <3> QED
        BY <1>m, <2>1, <2>2, <3>2, <3>3 DEF SwitchSteps
    <2> QED
      BY <1>6, <2>4, <2>5
  <1>7. ASSUME NEW g \in Goroutine, DropTopics(g) PROVE WorkInv'
    <2>1. call[g].at = "drop" /\ call[g].drop \subseteq Person /\ UNCHANGED <<active, dm>>
      BY <1>7 DEF DropTopics, RuntimeTypeOK, Call
    <2>2. ASSUME NEW p \in call[g].drop, CallHost(g, "unsubscribe", Posts[p]), UNCHANGED call
          PROVE  WorkInv'
      <3>1. op'[g] = [at |-> "unsubscribe", topic |-> Posts[p]] => Tied(g)'
        BY <2>1, <2>2 DEF Tied, Leaving
      <3> QED
        BY <1>c, <2>1, <2>2, <3>1 DEF OpSteps
    <2>3. ASSUME NEW S, call' = [call EXCEPT ![g].drop = S], S \subseteq Person, ReturnFromHost(g)
          PROVE  WorkInv'
      <3> DEFINE c == [call[g] EXCEPT !.drop = S]
      <3>1. c \in Call /\ c.kind = call[g].kind /\ c.owner = call[g].owner /\ c.at = call[g].at
        BY <1>0, <2>3 DEF Call
      <3>2. call' = [call EXCEPT ![g] = c]
        BY <2>3
      <3> HIDE DEF c
      <3> QED
        BY <1>m, <1>r, <2>1, <2>3, <3>1, <3>2 DEF SwitchSteps
    <2>4. ASSUME NEW s \in {"olddm", "add"}, CallGoto(g, s), op'[g] = NoOp,
                 \A h \in Goroutine \ {g} : op'[h] = op[h]
          PROVE  WorkInv'
      BY <1>g, <2>1, <2>4 DEF SwitchSteps, CallSteps
    <2> DEFINE S == {p \in call[g].drop : Posts[p] # op[g].topic}
    <2>5. \/ \E p \in call[g].drop : CallHost(g, "unsubscribe", Posts[p]) /\ UNCHANGED call
          \/ ReturnFromHost(g) /\ call' = [call EXCEPT ![g].drop = S]
          \/ ReturnFromHost(g) /\ CallGoto(g, "olddm")
          \/ op[g] = NoOp /\ UNCHANGED hostVars /\ CallGoto(g, "add")
      BY <1>7 DEF DropTopics, CallGoto
    <2>6. S \subseteq Person
      BY <2>1
    <2> HIDE DEF S
    <2> QED
      BY <1>r, <2>2, <2>3, <2>4, <2>5, <2>6 DEF hostVars
  <1>8. ASSUME NEW g \in Goroutine, AddTopics(g) PROVE WorkInv'
    <2>1. call[g].at = "add" /\ call[g].add \subseteq Person /\ UNCHANGED <<active, dm>>
      BY <1>8 DEF AddTopics, RuntimeTypeOK, Call
    <2>2. ASSUME NEW p \in call[g].add, CallHost(g, "ensure", Posts[p]), UNCHANGED call
          PROVE  WorkInv'
      <3>1. op'[g] = [at |-> "ensure", topic |-> Posts[p]] => Tied(g)'
        BY <2>1, <2>2 DEF Tied, Joining
      <3> QED
        BY <1>c, <2>1, <2>2, <3>1 DEF OpSteps
    <2>3. ASSUME NEW S, call' = [call EXCEPT ![g].add = S], S \subseteq Person, ReturnFromHost(g)
          PROVE  WorkInv'
      <3> DEFINE c == [call[g] EXCEPT !.add = S]
      <3>1. c \in Call /\ c.kind = call[g].kind /\ c.owner = call[g].owner /\ c.at = call[g].at
        BY <1>0, <2>3 DEF Call
      <3>2. call' = [call EXCEPT ![g] = c]
        BY <2>3
      <3> HIDE DEF c
      <3> QED
        BY <1>m, <1>r, <2>1, <2>3, <3>1, <3>2 DEF SwitchSteps
    <2>4. ASSUME CallGoto(g, "olddm"), op'[g] = NoOp,
                 \A h \in Goroutine \ {g} : op'[h] = op[h]
          PROVE  WorkInv'
      BY <1>g, <2>1, <2>4 DEF SwitchSteps, CallSteps
    <2> DEFINE S == {p \in call[g].add : Posts[p] # op[g].topic}
    <2>5. \/ \E p \in call[g].add : CallHost(g, "ensure", Posts[p]) /\ UNCHANGED call
          \/ ReturnFromHost(g) /\ call' = [call EXCEPT ![g].add = S]
          \/ ReturnFromHost(g) /\ CallGoto(g, "olddm")
          \/ op[g] = NoOp /\ UNCHANGED hostVars /\ CallGoto(g, "olddm")
      BY <1>8 DEF AddTopics, CallGoto
    <2>6. S \subseteq Person
      BY <2>1
    <2> HIDE DEF S
    <2> QED
      BY <1>r, <2>2, <2>3, <2>4, <2>5, <2>6 DEF hostVars
  <1>9. ASSUME NEW g \in Goroutine, LeaveOldDM(g) PROVE WorkInv'
    <2>1. call[g].at = "olddm" /\ dm \in Owner \cup {Nobody} /\ active' = active
      BY <1>9 DEF LeaveOldDM, RuntimeTypeOK
    <2>2. CASE dm # Nobody /\ CallHost(g, "unsubscribe", DMs[dm]) /\ UNCHANGED <<call, dm>>
      <3>1. op'[g] = [at |-> "unsubscribe", topic |-> DMs[dm]] => Tied(g)'
        BY <2>1, <2>2 DEF Tied, Leaving
      <3>2. DMs[dm] \in Topic
        BY <2>1, <2>2
      <3> QED
        BY <1>c, <2>1, <2>2, <3>1, <3>2 DEF OpSteps
    <2>3. ASSUME CallGoto(g, "newdm"), op'[g] = NoOp,
                 \A h \in Goroutine \ {g} : op'[h] = op[h]
          PROVE  WorkInv'
      BY <1>g, <2>1, <2>3 DEF SwitchSteps, CallSteps
    <2>4. CASE ReturnFromHost(g) /\ CallGoto(g, "newdm")
      BY <1>r, <2>3, <2>4
    <2>5. CASE dm = Nobody /\ CallGoto(g, "newdm") /\ UNCHANGED hostVars
      <3>1. op[g] = NoOp
        BY <1>0, <2>1, <2>5 DEF Tied
      <3> QED
        BY <2>3, <2>5, <3>1 DEF hostVars
    <2> QED
      BY <1>9, <2>2, <2>4, <2>5 DEF LeaveOldDM
  <1>10. ASSUME NEW g \in Goroutine, JoinNewDM(g) PROVE WorkInv'
    <2>1. call[g].at = "newdm" /\ call[g].owner \in Owner \cup {Nobody} /\ active' = active
      BY <1>10 DEF JoinNewDM, RuntimeTypeOK, Call
    <2>2. CASE /\ call[g].owner # Nobody /\ CallHost(g, "ensure", DMs[call[g].owner])
               /\ UNCHANGED <<call, dm>>
      <3>1. op'[g] = [at |-> "ensure", topic |-> DMs[call[g].owner]] => Tied(g)'
        BY <2>1, <2>2 DEF Tied, Joining
      <3>2. DMs[call[g].owner] \in Topic
        BY <2>1, <2>2
      <3> QED
        BY <1>c, <2>1, <2>2, <3>1, <3>2 DEF OpSteps
    <2>3. ASSUME Finish(g, "ok"), op'[g] = NoOp, \A h \in Goroutine \ {g} : op'[h] = op[h]
          PROVE  WorkInv'
      BY <1>m, <2>1, <2>3, CallFinishes DEF SwitchSteps
    <2>4. CASE ReturnFromHost(g) /\ Finish(g, "ok")
      BY <1>r, <2>3, <2>4
    <2>5. CASE call[g].owner = Nobody /\ Finish(g, "ok") /\ UNCHANGED hostVars
      <3>1. op[g] = NoOp
        BY <1>0, <2>1, <2>5 DEF Tied
      <3> QED
        BY <2>3, <2>5, <3>1 DEF hostVars
    <2> QED
      BY <1>10, <2>2, <2>4, <2>5 DEF JoinNewDM
  <1>11. ASSUME NEW g \in Goroutine, Broadcast(g) PROVE WorkInv'
    <2> DEFINE t == IF call[g].kind = "post" THEN Posts[call[g].who] ELSE DMs[call[g].who]
    <2>1. call[g].at = "send" /\ t \in Topic /\ UNCHANGED <<active, dm>>
      BY <1>11 DEF Broadcast, RuntimeTypeOK
    <2>2. CASE CallHost(g, "publish", t) /\ UNCHANGED call
      <3>1. op'[g] = [at |-> "publish", topic |-> t] => Tied(g)'
        BY <2>1, <2>2 DEF Tied, Publishing
      <3> QED
        BY <1>c, <2>1, <2>2, <3>1 DEF OpSteps
    <2>3. CASE ReturnFromHost(g) /\ Finish(g, "ok")
      BY <1>m, <1>r, <2>1, <2>3, CallFinishes DEF SwitchSteps
    <2> QED
      BY <1>11, <2>2, <2>3 DEF Broadcast
  <1>12. ASSUME NEW g \in Goroutine, Return(g) PROVE WorkInv'
    <2>1. /\ call[g].at = "return" /\ UNCHANGED <<op, dm, active>>
          /\ call'[g] = NoCall /\ \A h \in Goroutine \ {g} : call'[h] = call[h]
      BY <1>0, <1>12 DEF Return, hostVars
    <2>2. op[g] = NoOp
      BY <1>0, <2>1 DEF Tied
    <2>3. \A h \in Goroutine : Tied(h)'
      BY <1>o, <2>1, <2>2 DEF Tied
    <2>4. NoCall.kind = "none" /\ NoCall.at = "none"
      BY DEF NoCall
    <2>5. Switching'
      BY <1>0, <2>1, <2>4 DEF Switching, SwitchSteps
    <2> QED
      BY <2>3, <2>5 DEF WorkInv
  <1>13. ASSUME NEW g \in Goroutine, LockSyncer(g) PROVE WorkInv'
    <2> DEFINE c == [call[g] EXCEPT !.kind = "switch", !.at = "load"]
    <2>1. c.kind = "switch" /\ c.at = "load" /\ c.owner = call[g].owner
      BY <1>0 DEF Call
    <2>2. /\ call[g].at = "lock" /\ UNCHANGED <<op, dm>> /\ active' = call[g].owner
          /\ call' = [call EXCEPT ![g] = c]
          /\ \A h \in Goroutine : call[h].kind # "switch"
      BY <1>13 DEF LockSyncer, hostVars
    <2> HIDE DEF c
    <2>3. call'[g] = c /\ \A h \in Goroutine \ {g} : call'[h] = call[h]
      BY <1>0, <2>2
    <2>4. op[g] = NoOp
      BY <1>0, <2>2 DEF Tied
    <2>5. \A h \in Goroutine : Tied(h)'
      BY <1>o, <2>2, <2>3, <2>4 DEF Tied
    <2>6. \A h \in Goroutine \ {g} : call'[h].kind # "switch" /\ call'[h].at \notin SwitchSteps
      BY <1>0, <2>2, <2>3 DEF Switching
    <2>7. Switching'
      BY <2>1, <2>2, <2>3, <2>6 DEF Switching, SwitchSteps
    <2> QED
      BY <2>5, <2>7 DEF WorkInv
  <1>14. CASE UNCHANGED vars
    BY <1>14 DEF vars, callVars, hostVars, WorkInv, Tied, Switching
  <1> QED
    BY <1>1, <1>2, <1>3, <1>4, <1>5, <1>6, <1>7, <1>8, <1>9, <1>10, <1>11, <1>12, <1>13, <1>14
    DEF Next, Step

-----------------------------------------------------------------------------
(* Direct messages are read for the active identity only.                  *)

\* A switch has subscribed to the topic of its identity and not yet recorded it.
Joined(g, k) == call[g].at = "newdm" /\ call[g].owner = k /\ op[g].at = "ok"

DMInv ==
    /\ (\A g \in Goroutine : call[g].kind # "switch") => dm \in {Nobody, active}
    /\ \A g \in Goroutine :
         /\ call[g].at = "newdm" => dm = Nobody
         /\ call[g].kind = "switch" /\ call[g].at = "return" => dm \in {Nobody, active}
         /\ call[g].at = "olddm" /\ op[g].at \in {"ok", "err"} => handle[DMs[dm]] # "read"
    /\ \A k \in Person : handle[DMs[k]] = "read" =>
         k = dm \/ \E g \in Goroutine : Joined(g, k)

\* The steps of a switch, and the calls of the table, keep it so.
LEMMA DMStep ==
    ASSUME RuntimeTypeOK, WorkInv, WorkInv', DMInv, [Next]_vars
    PROVE  DMInv'
  <1> USE RuntimeAssumption
  <1>0. /\ call \in [Goroutine -> Call] /\ HostTypeOK /\ op \in [Goroutine -> Op]
        /\ dm \in Owner \cup {Nobody}
        /\ \A g \in Goroutine : Tied(g)
        /\ Switching /\ Switching'
    BY DEF RuntimeTypeOK, HostTypeOK, WorkInv
  <1>k. NoOp.at = "none" /\ NoCall.kind = "none" /\ NoCall.at = "none"
    BY DEF NoOp, NoCall
  \* Whoever is not switching has no part in it.
  <1>q. ASSUME NEW g \in Goroutine, \A h \in Goroutine \ {g} : call'[h] = call[h],
               \A h \in Goroutine \ {g} : op'[h] = op[h], UNCHANGED <<dm, active, handle>>,
               call[g].kind # "switch", call'[g].kind # "switch"
        PROVE  DMInv'
    <2>1. call[g].at \notin SwitchSteps /\ call'[g].at \notin SwitchSteps
      BY <1>0, <1>q DEF Switching
    <2>2. \A k \in Person : \A h \in Goroutine : Joined(h, k)' <=> Joined(h, k)
      BY <1>q, <2>1 DEF Joined, SwitchSteps
    <2>3. (\A h \in Goroutine : call'[h].kind # "switch") =>
             \A h \in Goroutine : call[h].kind # "switch"
      BY <1>q
    <2>4. ASSUME NEW h \in Goroutine
          PROVE  /\ call'[h].at = "newdm" => dm' = Nobody
                 /\ call'[h].kind = "switch" /\ call'[h].at = "return" => dm' \in {Nobody, active'}
                 /\ call'[h].at = "olddm" /\ op'[h].at \in {"ok", "err"} => handle'[DMs[dm']] # "read"
      BY <1>q, <2>1 DEF DMInv, SwitchSteps
    <2> QED
      BY <1>q, <2>2, <2>3, <2>4 DEF DMInv
  \* A switch on its way to the topics of direct messages.
  <1>w. ASSUME NEW g \in Goroutine, \A h \in Goroutine \ {g} : call'[h] = call[h],
               \A h \in Goroutine \ {g} : op'[h] = op[h], UNCHANGED <<dm, active, handle>>,
               call'[g].kind = "switch", call[g].at \in {"none", "load", "swap", "drop", "add"},
               call'[g].at \in {"load", "swap", "drop", "add", "olddm"},
               call'[g].at = "olddm" => op'[g] = NoOp
        PROVE  DMInv'
    <2>1. \A k \in Person : \A h \in Goroutine : Joined(h, k)' <=> Joined(h, k)
      BY <1>w DEF Joined
    <2>2. ASSUME NEW h \in Goroutine
          PROVE  /\ call'[h].at = "newdm" => dm' = Nobody
                 /\ call'[h].kind = "switch" /\ call'[h].at = "return" => dm' \in {Nobody, active'}
                 /\ call'[h].at = "olddm" /\ op'[h].at \in {"ok", "err"} => handle'[DMs[dm']] # "read"
      BY <1>k, <1>w DEF DMInv
    <2> QED
      BY <1>w, <2>1, <2>2 DEF DMInv
  <1>r. ASSUME NEW g \in Goroutine, ReturnFromHost(g)
        PROVE  /\ op'[g] = NoOp /\ \A h \in Goroutine \ {g} : op'[h] = op[h]
               /\ op[g] # NoOp /\ handle' = handle
    BY <1>0, <1>k, <1>r DEF ReturnFromHost
  <1>c. ASSUME NEW g \in Goroutine, NEW e, NEW t, CallHost(g, e, t)
        PROVE  /\ op'[g].at = e /\ \A h \in Goroutine \ {g} : op'[h] = op[h]
               /\ op[g] = NoOp /\ handle' = handle
    BY <1>0, <1>c DEF CallHost
  <1>f. ASSUME NEW g \in Goroutine, NEW x \in {"ok", "err"}, Finish(g, x)
        PROVE  /\ call'[g].kind = call[g].kind /\ call'[g].at = "return"
               /\ call'[g].owner = call[g].owner
               /\ \A h \in Goroutine \ {g} : call'[h] = call[h]
    BY <1>0, <1>f, CallFinishes
  <1>g. ASSUME NEW g \in Goroutine, NEW s \in CallSteps, CallGoto(g, s)
        PROVE  /\ call'[g].kind = call[g].kind /\ call'[g].at = s
               /\ call'[g].owner = call[g].owner
               /\ \A h \in Goroutine \ {g} : call'[h] = call[h]
    <2>1. PICK c \in Call : /\ call' = [call EXCEPT ![g] = c] /\ c.at = s
                            /\ c.kind = call[g].kind /\ c.owner = call[g].owner
                            /\ c.who = call[g].who
      BY <1>g, CallMoves, Zenon DEF CallGoto
    <2> QED
      BY <1>0, <2>1
  \* The only switch.
  <1>o. ASSUME NEW g \in Goroutine, call[g].at \in SwitchSteps \/ call[g].kind = "switch"
        PROVE  \A h \in Goroutine \ {g} : call[h].at \notin SwitchSteps /\ call[h].kind # "switch"
    BY <1>0, <1>o DEF Switching
  <1>1. ASSUME NEW g \in Goroutine, Request(g) PROVE DMInv'
    <2>1. ASSUME NEW kind, NEW k, NEW p, NEW s, Begin(g, kind, k, p, s), UNCHANGED hostVars
          PROVE  /\ call'[g].kind = kind /\ call'[g].at = s /\ call[g] = NoCall
                 /\ \A h \in Goroutine \ {g} : call'[h] = call[h]
                 /\ \A h \in Goroutine \ {g} : op'[h] = op[h]
                 /\ handle' = handle
      <3> DEFINE c == [NoCall EXCEPT !.kind = kind, !.owner = k, !.who = p, !.at = s]
      <3>1. c.kind = kind /\ c.at = s
        BY DEF NoCall
      <3>2. call[g] = NoCall /\ call' = [call EXCEPT ![g] = c]
        BY <2>1 DEF Begin
      <3> HIDE DEF c
      <3> QED
        BY <1>0, <2>1, <3>1, <3>2 DEF hostVars
    <2>2. ASSUME NEW k \in Owner, NEW p \in Person,
                 Follow(g, k, p) \/ Unfollow(g, k, p) \/ SendDM(g, k, p) \/ PublishPost(g, k)
          PROVE  DMInv'
      <3>1. \E kind \in {"follow", "unfollow", "dm", "post"}, q \in Person, s \in CallSteps :
               Begin(g, kind, k, q, s)
        BY <2>2 DEF Follow, Unfollow, SendDM, PublishPost, CallSteps
      <3>2. UNCHANGED <<dm, active>> /\ UNCHANGED hostVars
        BY <2>2 DEF Follow, Unfollow, SendDM, PublishPost
      <3> QED
        BY <1>k, <1>q, <2>1, <3>1, <3>2
    <2>3. ASSUME NEW k \in Owner \cup {Nobody}, SwitchIdentity(g, k) PROVE DMInv'
      <3>1. Begin(g, "await", k, Nobody, "lock") /\ UNCHANGED <<dm, active>> /\ UNCHANGED hostVars
        BY <2>3 DEF SwitchIdentity
      <3> QED
        BY <1>k, <1>q, <2>1, <3>1
    <2> QED
      BY <1>1, <2>2, <2>3 DEF Request
  <1>2. ASSUME NEW g \in Goroutine, StatementFails(g) PROVE DMInv'
    <2>1. UNCHANGED <<dm, active, handle, op>>
      BY <1>2 DEF StatementFails, OtherFault
    <2>2. CASE call[g].at = "row" /\ Finish(g, "err")
      <3>1. call[g].kind # "switch"
        BY <1>0, <2>2 DEF Switching, SwitchSteps
      <3> QED
        BY <1>f, <1>q, <2>1, <2>2, <3>1
    <2>3. CASE call[g].at = "load" /\ CallGoto(g, "olddm")
      <3>1. call[g].kind = "switch" /\ op[g] = NoOp
        BY <1>0, <2>3 DEF Switching, SwitchSteps, Tied
      <3> QED
        BY <1>g, <1>w, <2>1, <2>3, <3>1 DEF CallSteps
    <2> QED
      BY <1>2, <2>2, <2>3 DEF StatementFails
  <1>3. ASSUME NEW g \in Goroutine, InHost(g) PROVE DMInv'
    <2>1. HostStep(g) /\ UNCHANGED <<call, dm, active>>
      BY <1>3 DEF InHost, callVars
    <2>2. op[g].at \notin {"none", "ok", "err"} /\ op[g] # NoOp /\ op[g].topic \in Topic
      BY <1>0, <1>k, <2>1, HostMoves
    \* Only a switch at its last call begins to read direct messages.
    <2>3. ASSUME NEW k \in Person, handle'[DMs[k]] = "read", handle[DMs[k]] # "read"
          PROVE  call[g].at = "newdm" /\ call[g].owner = k /\ op'[g].at = "ok"
      <3>1. op[g].topic = DMs[k] /\ op[g].at = "subscribe" /\ op'[g].at = "ok"
        BY <1>0, <2>1, <2>3, HostMoves, HostResults
      <3>2. Tied(g)
        BY <1>0
      <3>3. /\ call[g].at = "topic" => call[g].who \in Person
            /\ call[g].drop \subseteq Person /\ call[g].add \subseteq Person
            /\ call[g].owner \in Owner \cup {Nobody}
        BY DEF RuntimeTypeOK, Call
      <3>4. ASSUME NEW q \in Person
            PROVE  op[g].topic # Posts[q] /\ (op[g].topic = DMs[q] => q = k)
        <4>1. Posts[q] # DMs[k] /\ (q # k => DMs[q] # DMs[k])
          BY RuntimeAssumption, Zenon
        <4> QED
          BY <3>1, <4>1
      <3>5. call[g].at = "newdm" /\ call[g].owner # Nobody /\ op[g].topic = DMs[call[g].owner]
        <4>1. call[g].at \notin {"topic", "add"}
          BY <2>2, <3>2, <3>3, <3>4 DEF Tied
        <4> QED
          BY <2>2, <3>1, <3>2, <4>1 DEF Tied, Leaving, Publishing
      <3> QED
        BY <3>1, <3>3, <3>4, <3>5
    <2>4. ASSUME NEW h \in Goroutine, call[h].at = "olddm", op'[h].at \in {"ok", "err"}
          PROVE  handle'[DMs[dm]] # "read"
      <3>1. CASE h = g
        <4>1. dm # Nobody /\ op[g].topic = DMs[dm] /\ op[g].at = "unsubscribe"
          BY <1>0, <2>2, <2>4, <3>1 DEF Tied, Leaving
        <4> QED
          BY <1>0, <2>1, <4>1, HostResults
      <3>2. CASE h # g
        <4>1. op[h].at # "send"
          BY <1>0, <1>k, <2>4 DEF Tied, Leaving
        <4>2. op'[h] = op[h]
          BY <1>0, <2>1, <3>2, <4>1, HostMoves
        <4>3. handle[DMs[dm]] # "read" /\ op[h] # NoOp
          BY <1>k, <2>4, <4>2 DEF DMInv
        <4>4. dm \in Person
          BY <1>0, <2>4, <4>3 DEF Tied
        <4>5. call[g].at # "newdm"
          BY <1>o, <2>4, <3>2 DEF SwitchSteps
        <4> QED
          BY <2>3, <4>3, <4>4, <4>5
      <3> QED
        BY <3>1, <3>2
    <2>5. ASSUME NEW k \in Person, handle'[DMs[k]] = "read"
          PROVE  k = dm \/ \E h \in Goroutine : Joined(h, k)'
      <3>1. CASE handle[DMs[k]] = "read"
        <4>1. CASE k = dm
          BY <4>1
        <4>2. ASSUME NEW h \in Goroutine, Joined(h, k) PROVE Joined(h, k)'
          <5>1. h # g /\ op[h].at = "ok"
            BY <2>2, <4>2 DEF Joined
          <5>2. op'[h] = op[h]
            BY <1>0, <2>1, <5>1, HostMoves
          <5> QED
            BY <2>1, <4>2, <5>2 DEF Joined
        <4> QED
          BY <3>1, <4>1, <4>2 DEF DMInv
      <3>2. CASE handle[DMs[k]] # "read"
        <4>1. Joined(g, k)'
          BY <2>1, <2>3, <2>5, <3>2 DEF Joined
        <4> QED
          BY <4>1
      <3> QED
        BY <3>1, <3>2
    <2> QED
      BY <2>1, <2>4, <2>5 DEF DMInv
  <1>4. ASSUME NEW g \in Goroutine, CheckCache(g) \/ ChangeRow(g) \/ ChangeCache(g) PROVE DMInv'
    <2>1. /\ call[g].at \in {"check", "row", "cache"} /\ UNCHANGED <<hostVars, active, dm>>
          /\ \/ Finish(g, "ok")
             \/ \E s \in {"row", "cache", "topic"} : CallGoto(g, s)
      BY <1>4 DEF CheckCache, ChangeRow, ChangeCache
    <2>2. call'[g].kind = call[g].kind /\ \A h \in Goroutine \ {g} : call'[h] = call[h]
      BY <1>f, <1>g, <2>1 DEF CallSteps
    <2>3. call[g].kind # "switch"
      BY <1>0, <2>1 DEF Switching, SwitchSteps
    <2> QED
      BY <1>q, <2>1, <2>2, <2>3 DEF hostVars
  <1>5. ASSUME NEW g \in Goroutine, ChangeTopic(g) \/ Broadcast(g) PROVE DMInv'
    <2>1. /\ call[g].at \in {"topic", "send"} /\ UNCHANGED <<active, dm>>
          /\ \/ UNCHANGED call /\ \E e, t : CallHost(g, e, t)
             \/ ReturnFromHost(g) /\ Finish(g, op[g].at)
             \/ ReturnFromHost(g) /\ Finish(g, "ok")
      BY <1>5 DEF ChangeTopic, Broadcast
    <2>2. call[g].kind # "switch"
      BY <1>0, <2>1 DEF Switching, SwitchSteps
    <2>3. CASE UNCHANGED call /\ \E e, t : CallHost(g, e, t)
      BY <1>c, <1>q, <2>1, <2>2, <2>3
    <2>4. ASSUME NEW x \in {"ok", "err"}, ReturnFromHost(g), Finish(g, x) PROVE DMInv'
      BY <1>f, <1>q, <1>r, <2>1, <2>2, <2>4
    <2>5. ReturnFromHost(g) => op[g].at \in {"ok", "err"}
      BY DEF ReturnFromHost
    <2> QED
      BY <2>1, <2>3, <2>4, <2>5
  <1>6. ASSUME NEW g \in Goroutine, LoadSubscriptions(g) \/ SwapCache(g) PROVE DMInv'
    <2>1. /\ call[g].at \in {"load", "swap"} /\ UNCHANGED <<hostVars, active, dm>>
      BY <1>6 DEF LoadSubscriptions, SwapCache
    <2>2. call[g].kind = "switch" /\ call[g] \in Call
      BY <1>0, <2>1 DEF Switching, SwitchSteps
    <2>3. /\ call'[g].kind = call[g].kind /\ call'[g].at \in {"swap", "drop"}
          /\ \A h \in Goroutine \ {g} : call'[h] = call[h]
      <3>1. CASE LoadSubscriptions(g)
        <4> DEFINE n == GetSubscriptions(call[g].owner)
                   c == [call[g] EXCEPT !.next = n, !.at = "swap"]
        <4>1. c.kind = call[g].kind /\ c.at = "swap"
          BY <2>2 DEF Call
        <4>2. call' = [call EXCEPT ![g] = c]
          BY <3>1 DEF LoadSubscriptions
        <4> HIDE DEF c
        <4> QED
          BY <1>0, <4>1, <4>2
      <3>2. CASE SwapCache(g)
        <4> DEFINE c == [call[g] EXCEPT !.drop = cache \ call[g].next,
                                        !.add = call[g].next \ cache, !.at = "drop"]
        <4>1. c.kind = call[g].kind /\ c.at = "drop"
          BY <2>2 DEF Call
        <4>2. call' = [call EXCEPT ![g] = c]
          BY <3>2 DEF SwapCache
        <4> HIDE DEF c
        <4> QED
          BY <1>0, <4>1, <4>2
      <3> QED
        BY <1>6, <3>1, <3>2
    <2> QED
      BY <1>w, <2>1, <2>2, <2>3 DEF hostVars
  <1>7. ASSUME NEW g \in Goroutine, DropTopics(g) \/ AddTopics(g) PROVE DMInv'
    <2>1. call[g].at \in {"drop", "add"} /\ UNCHANGED <<active, dm>>
      BY <1>7 DEF DropTopics, AddTopics
    <2>2. call[g].kind = "switch" /\ call[g] \in Call
      BY <1>0, <2>1 DEF Switching, SwitchSteps
    <2>3. CASE UNCHANGED call /\ \E e, t : CallHost(g, e, t)
      BY <1>c, <1>w, <2>1, <2>2, <2>3
    <2>4. ASSUME NEW S, \/ call' = [call EXCEPT ![g].drop = S]
                        \/ call' = [call EXCEPT ![g].add = S],
                 ReturnFromHost(g)
          PROVE  DMInv'
      <3>1. /\ call'[g].kind = call[g].kind /\ call'[g].at = call[g].at
            /\ \A h \in Goroutine \ {g} : call'[h] = call[h]
        <4> DEFINE c == [call[g] EXCEPT !.drop = S]
                   d == [call[g] EXCEPT !.add = S]
        <4>1. c.kind = call[g].kind /\ c.at = call[g].at /\ d.kind = call[g].kind /\ d.at = call[g].at
          BY <2>2 DEF Call
        <4>2. call' = [call EXCEPT ![g] = c] \/ call' = [call EXCEPT ![g] = d]
          BY <2>4
        <4> HIDE DEF c, d
        <4> QED
          BY <1>0, <4>1, <4>2
      <3> QED
        BY <1>r, <1>w, <2>1, <2>2, <2>4, <3>1
    <2>5. ASSUME NEW s \in {"olddm", "add"}, CallGoto(g, s), op'[g] = NoOp, handle' = handle,
                 \A h \in Goroutine \ {g} : op'[h] = op[h]
          PROVE  DMInv'
      BY <1>g, <1>w, <2>1, <2>2, <2>5 DEF CallSteps
    <2>6. \/ UNCHANGED call /\ \E e, t : CallHost(g, e, t)
          \/ /\ ReturnFromHost(g)
             /\ \E S : \/ call' = [call EXCEPT ![g].drop = S]
                       \/ call' = [call EXCEPT ![g].add = S]
          \/ ReturnFromHost(g) /\ CallGoto(g, "olddm")
          \/ op[g] = NoOp /\ UNCHANGED hostVars /\ \E s \in {"olddm", "add"} : CallGoto(g, s)
      <3>1. CASE DropTopics(g)
        BY <3>1 DEF DropTopics, CallGoto
      <3>2. CASE AddTopics(g)
        BY <3>2 DEF AddTopics, CallGoto
      <3> QED
        BY <1>7, <3>1, <3>2
    <2> QED
      BY <1>r, <2>3, <2>4, <2>5, <2>6 DEF hostVars
  <1>8. ASSUME NEW g \in Goroutine, LeaveOldDM(g) PROVE DMInv'
    <2>1. call[g].at = "olddm" /\ active' = active
      BY <1>8 DEF LeaveOldDM
    <2>2. call[g].kind = "switch" /\ \A h \in Goroutine \ {g} : call[h].at \notin SwitchSteps
                                                             /\ call[h].kind # "switch"
      BY <1>0, <1>o, <2>1 DEF Switching, SwitchSteps
    <2>3. \A h \in Goroutine : \A k \in Person : ~Joined(h, k)
      BY <2>1, <2>2 DEF Joined, SwitchSteps
    <2>4. CASE CallHost(g, "unsubscribe", DMs[dm]) /\ UNCHANGED <<call, dm>>
      <3>1. op'[g].at = "unsubscribe" /\ handle' = handle
            /\ \A h \in Goroutine \ {g} : op'[h] = op[h]
        BY <1>c, <2>4
      <3> QED
        BY <2>1, <2>2, <2>3, <2>4, <3>1 DEF DMInv, SwitchSteps
    <2>5. ASSUME CallGoto(g, "newdm"), dm' = Nobody, handle' = handle,
                 \A k \in Person : handle[DMs[k]] # "read"
          PROVE  DMInv'
      <3>1. /\ call'[g].kind = "switch" /\ call'[g].at = "newdm"
            /\ \A h \in Goroutine \ {g} : call'[h] = call[h]
        BY <1>g, <2>2, <2>5 DEF CallSteps
      <3> QED
        BY <2>2, <2>5, <3>1 DEF DMInv, SwitchSteps
    <2>6. CASE ReturnFromHost(g) /\ dm' = Nobody /\ CallGoto(g, "newdm")
      <3>1. op[g].at \in {"ok", "err"} /\ op[g] # NoOp /\ handle' = handle
        BY <1>r, <2>6 DEF ReturnFromHost
      <3>2. handle[DMs[dm]] # "read"
        BY <2>1, <3>1 DEF DMInv
      <3>3. \A k \in Person : handle[DMs[k]] # "read"
        BY <2>3, <3>2 DEF DMInv
      <3> QED
        BY <2>5, <2>6, <3>1, <3>3
    <2>7. CASE dm = Nobody /\ CallGoto(g, "newdm") /\ UNCHANGED <<hostVars, dm>>
      <3>1. \A k \in Person : handle[DMs[k]] # "read"
        BY <2>3, <2>7 DEF DMInv
      <3> QED
        BY <2>5, <2>7, <3>1 DEF hostVars
    <2> QED
      BY <1>8, <2>4, <2>6, <2>7 DEF LeaveOldDM
  <1>9. ASSUME NEW g \in Goroutine, JoinNewDM(g) PROVE DMInv'
    <2>1. call[g].at = "newdm" /\ active' = active
      BY <1>9 DEF JoinNewDM
    <2>2. /\ call[g].kind = "switch" /\ call[g].owner = active /\ dm = Nobody
          /\ \A h \in Goroutine \ {g} : call[h].at \notin SwitchSteps /\ call[h].kind # "switch"
      BY <1>0, <1>o, <2>1 DEF Switching, SwitchSteps, DMInv
    <2>3. \A k \in Person : handle[DMs[k]] = "read" => k = call[g].owner /\ op[g].at = "ok"
      BY <2>1, <2>2 DEF Joined, SwitchSteps, DMInv
    <2>4. CASE CallHost(g, "ensure", DMs[call[g].owner]) /\ UNCHANGED <<call, dm>>
      <3>1. op'[g].at = "ensure" /\ handle' = handle /\ op[g] = NoOp
            /\ \A h \in Goroutine \ {g} : op'[h] = op[h]
        BY <1>c, <2>4
      <3>2. \A k \in Person : handle[DMs[k]] # "read"
        BY <1>k, <2>3, <3>1
      <3> QED
        BY <2>1, <2>2, <2>4, <3>1, <3>2 DEF DMInv, SwitchSteps
    <2>5. ASSUME Finish(g, "ok"), handle' = handle,
                 IF op[g].at = "ok" THEN dm' = call[g].owner ELSE dm' = Nobody
          PROVE  DMInv'
      <3>1. /\ call'[g].kind = "switch" /\ call'[g].at = "return"
            /\ \A h \in Goroutine \ {g} : call'[h] = call[h]
        BY <1>f, <2>2, <2>5
      <3> QED
        BY <2>1, <2>2, <2>3, <2>5, <3>1 DEF DMInv, SwitchSteps
    <2>6. CASE call[g].owner = Nobody /\ Finish(g, "ok") /\ UNCHANGED <<hostVars, dm>>
      <3>1. op[g] = NoOp
        BY <1>0, <2>1, <2>6 DEF Tied
      <3> QED
        BY <1>k, <2>2, <2>5, <2>6, <3>1 DEF hostVars
    <2>7. CASE /\ ReturnFromHost(g) /\ dm' = IF op[g].at = "ok" THEN call[g].owner ELSE dm
               /\ Finish(g, "ok")
      BY <1>r, <2>2, <2>5, <2>7
    <2> QED
      BY <1>9, <2>4, <2>6, <2>7 DEF JoinNewDM
  <1>10. ASSUME NEW g \in Goroutine, Return(g) PROVE DMInv'
    <2>1. /\ call[g].at = "return" /\ UNCHANGED <<op, handle, dm, active>>
          /\ call'[g] = NoCall /\ \A h \in Goroutine \ {g} : call'[h] = call[h]
      BY <1>0, <1>10 DEF Return, hostVars
    <2>2. CASE call[g].kind # "switch"
      BY <1>k, <1>q, <2>1, <2>2
    <2>3. CASE call[g].kind = "switch"
      <3>1. dm \in {Nobody, active}
        BY <2>1, <2>3 DEF DMInv
      <3>2. \A h \in Goroutine \ {g} : call[h].at \notin SwitchSteps /\ call[h].kind # "switch"
        BY <1>o, <2>3
      <3>3. \A k \in Person : handle[DMs[k]] = "read" => k = dm
        BY <2>1, <3>2 DEF DMInv, Joined, SwitchSteps
      <3> QED
        BY <1>k, <2>1, <3>1, <3>2, <3>3 DEF DMInv, SwitchSteps
    <2> QED
      BY <2>2, <2>3
  \* The mutex is free: no other switch is on its way.
  <1>11. ASSUME NEW g \in Goroutine, LockSyncer(g) PROVE DMInv'
    <2> DEFINE c == [call[g] EXCEPT !.kind = "switch", !.at = "load"]
    <2>1. c.kind = "switch" /\ c.at = "load"
      BY <1>0 DEF Call
    <2>2. /\ UNCHANGED <<op, dm, handle>> /\ call' = [call EXCEPT ![g] = c]
          /\ \A h \in Goroutine : call[h].kind # "switch"
      BY <1>11 DEF LockSyncer, hostVars
    <2> HIDE DEF c
    <2>3. call'[g] = c /\ \A h \in Goroutine \ {g} : call'[h] = call[h]
      BY <1>0, <2>2
    <2>4. \A h \in Goroutine \ {g} : call'[h].kind # "switch" /\ call'[h].at \notin SwitchSteps
      BY <1>0, <2>2, <2>3 DEF Switching
    <2>5. \A q \in Person : \A h \in Goroutine : ~Joined(h, q)
      BY <1>0, <2>2 DEF Joined, Switching, SwitchSteps
    <2> QED
      BY <2>1, <2>2, <2>3, <2>4, <2>5 DEF DMInv, SwitchSteps
  <1>12. CASE UNCHANGED vars
    BY <1>12 DEF vars, callVars, hostVars, DMInv, Joined
  <1> QED
    BY <1>1, <1>2, <1>3, <1>4, <1>5, <1>6, <1>7, <1>8, <1>9, <1>10, <1>11, <1>12
    DEF Next, Step

\* With no switch in progress no direct messages are read but those of the active
\* identity (syncRuntimeIdentity), for any people, requests and failures.
THEOREM OnlyActiveDMReadTheorem == Spec => []OnlyActiveDMRead
  <1>1. Init => WorkInv /\ DMInv
    BY RuntimeAssumption DEF Init, HostInit, WorkInv, Tied, Switching, SwitchSteps, DMInv,
       NoCall, NoOp
  <1>2. RuntimeTypeOK /\ WorkInv /\ DMInv /\ [Next]_vars => WorkInv' /\ DMInv'
    BY WorkStep, DMStep
  <1>3. WorkInv /\ DMInv => OnlyActiveDMRead
    BY RuntimeAssumption DEF WorkInv, Switching, SwitchSteps, DMInv, Joined, OnlyActiveDMRead
  <1> QED
    BY <1>1, <1>2, <1>3, RuntimeUsesTopicHost, PTL DEF Spec

-----------------------------------------------------------------------------
(* Table, cache and topics agree.                                          *)

\* The topics are those of the people in S, but for the people in E.
Agree(S, E) ==
    \A p \in Person \ E : IF p \in S THEN handle[Posts[p]] # "none"
                          ELSE handle[Posts[p]] # "read"

Loaded == cache = GetSubscriptions(active)

\* How far a request has brought them together, while it runs alone.
Placed(g) ==
    LET c == call[g]  o == op[g] IN
    /\ c.at # "lock" => c.owner = active
    /\ c.at \in {"check", "row", "lock", "send", "return", "olddm", "newdm"} =>
          Loaded /\ Agree(cache, {})
    /\ c.at = "cache" =>
          /\ GetSubscriptions(active) = IF c.kind = "follow" THEN cache \cup {c.who}
                                        ELSE cache \ {c.who}
          /\ Agree(cache, {})
    /\ c.at = "topic" =>
          /\ Loaded /\ Agree(cache, {c.who})
          /\ c.who \in cache <=> c.kind = "follow"
          /\ o.at \in {"ok", "err"} => Agree(cache, {})
    /\ c.at \in {"load", "swap"} => Agree(cache, {})
    /\ c.at = "swap" => c.next = GetSubscriptions(active)
    /\ c.at \in {"drop", "add"} =>
          /\ Loaded /\ Agree(cache, c.drop \cup c.add)
          /\ c.drop \cap cache = {} /\ c.add \subseteq cache
          /\ o.at # "err"
    /\ c.at = "drop" =>
          /\ o.at = "ok" => handle[o.topic] = "none"
          /\ \A p \in c.drop : (o.at = "ok" /\ o.topic = Posts[p]) \/ handle[Posts[p]] # "none"
    /\ c.at = "add" =>
          /\ c.drop = {}
          /\ o.at = "subscribe" => handle[o.topic] = "none"
          /\ o.at = "ok" => handle[o.topic] # "none"

Together ==
    /\ \A g, h \in Goroutine : call[g] # NoCall /\ call[h] # NoCall => g = h
    /\ \A g \in Goroutine : call[g] # NoCall => Placed(g)
    /\ (\A g \in Goroutine : call[g] = NoCall) => Loaded /\ Agree(cache, {})

TableInv == orderly /\ faults = 0 => Together

\* A follow or unfollow of the active identity changes its subscriptions by one.
LEMMA RowChange ==
    ASSUME NEW k \in Owner, NEW p \in Person, active = k, UNCHANGED active
    PROVE  /\ subs' = subs \cup {<<k, p>>} =>
                 GetSubscriptions(active)' = GetSubscriptions(active) \cup {p}
           /\ subs' = subs \ {<<k, p>>} =>
                 GetSubscriptions(active)' = GetSubscriptions(active) \ {p}
  <1>1. k # Nobody
    BY RuntimeAssumption
  <1>2. GetSubscriptions(active) = {q \in Person : <<k, q>> \in subs}
    BY <1>1 DEF GetSubscriptions
  <1>3. GetSubscriptions(active)' = {q \in Person : <<k, q>> \in subs'}
    BY <1>1 DEF GetSubscriptions
  <1> QED
    BY <1>2, <1>3

\* A call of the topic table by the only request brings its topic in line.
LEMMA PlacedInHost ==
    ASSUME RuntimeTypeOK, JoinsAccounted, NEW g \in Goroutine, Tied(g), Placed(g),
           faults = 0, faults' = 0, HostStep(g),
           \A h \in Goroutine \ {g} : op[h] = NoOp,
           UNCHANGED <<subs, cache, active, dm, call>>
    PROVE  Placed(g)'
  <1> USE RuntimeAssumption
  <1> DEFINE c == call[g]  t == op[g].topic
  <1>0. /\ HostTypeOK /\ call[g] \in Call /\ op[g] \in Op
        /\ t \in Topic /\ op[g].at \notin {"none", "ok", "err"} /\ op[g] # NoOp
        /\ op'[g].topic = t
        /\ \A u \in Topic : u # t => handle'[u] = handle[u]
    BY HostMoves DEF RuntimeTypeOK, HostTypeOK, NoOp
  <1>1. c.drop \subseteq Person /\ c.add \subseteq Person /\ cache \subseteq Person
    BY <1>0 DEF Call, RuntimeTypeOK
  <1>2. c.owner = active' /\ call'[g] = c
    <2>1. c.at # "lock"
      BY <1>0 DEF Tied
    <2> QED
      BY <2>1 DEF Placed
  <1>3. GetSubscriptions(active)' = GetSubscriptions(active)
    BY DEF GetSubscriptions
  <1>4. op[g].at = "subscribe" /\ t \in joined => handle[t] # "none"
    BY <1>0 DEF JoinsAccounted, NoOp
  <1>p. \A p, q \in Person : p # q => Posts[p] # Posts[q]
    OBVIOUS
  <1>5. CASE c.at = "topic"
    <2>1. c.who \in Person /\ t = Posts[c.who]
      BY <1>0, <1>5 DEF RuntimeTypeOK, Tied
    <2>2. Loaded /\ Agree(cache, {c.who}) /\ (c.who \in cache <=> c.kind = "follow")
      BY <1>5 DEF Placed
    <2>3. Loaded'
      BY <1>3, <2>2 DEF Loaded
    <2>4. \A p \in Person \ {c.who} : handle'[Posts[p]] = handle[Posts[p]]
      BY <1>0, <1>p, <2>1
    <2>5. Agree(cache, {c.who})'
      BY <2>2, <2>4 DEF Agree
    <2>6. op'[g].at \in {"ok", "err"} => Agree(cache, {})'
      <3>1. CASE c.kind = "follow"
        <4>1. op[g].at \in {"ensure", "subscribe"}
          BY <1>0, <1>5, <3>1 DEF Tied, Joining
        <4>2. op'[g].at \in {"ok", "err"} => handle'[t] # "none"
          BY <1>0, <1>4, <4>1, HostResults, HostMoves
        <4> QED
          BY <2>1, <2>2, <2>5, <3>1, <4>2 DEF Agree
      <3>2. CASE c.kind # "follow"
        <4>1. op[g].at = "unsubscribe"
          BY <1>0, <1>5, <3>2 DEF Tied, Leaving
        <4>2. handle'[t] = "none"
          BY <1>0, <4>1, HostResults
        <4> QED
          BY <2>1, <2>2, <2>5, <3>2, <4>2 DEF Agree
      <3> QED
        BY <3>1, <3>2
    <2> QED
      BY <1>2, <1>5, <2>2, <2>3, <2>5, <2>6 DEF Placed
  <1>6. CASE c.at = "drop"
    <2>1. PICK p \in c.drop : t = Posts[p] /\ op[g].at = "unsubscribe"
      BY <1>0, <1>6 DEF Tied, Leaving
    <2>2. /\ Loaded /\ Agree(cache, c.drop \cup c.add)
          /\ c.drop \cap cache = {} /\ c.add \subseteq cache
          /\ \A q \in c.drop : handle[Posts[q]] # "none"
      BY <1>6, <2>1 DEF Placed
    <2>3. handle'[t] = "none" /\ op'[g].at = "ok"
      BY <1>0, <2>1, <2>2, HostResults, HostMoves
    <2>4. \A q \in Person \ {p} : handle'[Posts[q]] = handle[Posts[q]]
      BY <1>0, <1>1, <1>p, <2>1
    <2>5. Loaded' /\ Agree(cache, c.drop \cup c.add)'
      BY <1>1, <1>3, <2>2, <2>4 DEF Loaded, Agree
    <2>6. \A q \in c.drop : (op'[g].at = "ok" /\ op'[g].topic = Posts[q]) \/ handle'[Posts[q]] # "none"
      BY <1>0, <1>1, <2>1, <2>2, <2>3, <2>4
    <2> QED
      BY <1>0, <1>2, <1>6, <2>2, <2>3, <2>5, <2>6 DEF Placed
  <1>7. CASE c.at = "add"
    <2>1. PICK p \in c.add : t = Posts[p] /\ op[g].at \in {"ensure", "subscribe"}
      BY <1>0, <1>7 DEF Tied, Joining
    <2>2. /\ Loaded /\ Agree(cache, c.drop \cup c.add)
          /\ c.drop = {} /\ c.add \subseteq cache
          /\ op[g].at = "subscribe" => handle[t] = "none"
      BY <1>7 DEF Placed
    <2>3. op'[g].at # "err"
      BY <1>0, <1>4, <2>1, <2>2, HostResults, HostMoves
    <2>4. \A q \in Person \ {p} : handle'[Posts[q]] = handle[Posts[q]]
      BY <1>0, <1>1, <1>p, <2>1
    <2>5. Loaded' /\ Agree(cache, c.drop \cup c.add)'
      BY <1>1, <1>3, <2>2, <2>4 DEF Loaded, Agree
    <2>6. /\ op'[g].at = "subscribe" => handle'[t] = "none"
          /\ op'[g].at = "ok" => handle'[t] # "none"
      BY <1>0, <2>1, HostResults, HostMoves
    <2> QED
      BY <1>0, <1>2, <1>7, <2>2, <2>3, <2>5, <2>6 DEF Placed
  <1>8. CASE c.at \in {"olddm", "newdm", "send"}
    <2>1. Loaded /\ Agree(cache, {})
      BY <1>8 DEF Placed
    <2>2. Agree(cache, {})'
      <3>1. CASE c.at = "send"
        <4>1. op[g].at \notin {"subscribe", "unsubscribe"}
          BY <1>0, <3>1 DEF Tied, Publishing
        <4>2. /\ handle[t] # "none" => handle'[t] # "none"
              /\ handle'[t] = "read" => handle[t] = "read"
          BY <1>0, <4>1, HostResults
        <4> QED
          BY <1>0, <2>1, <4>2 DEF Agree
      <3>2. CASE c.at # "send"
        <4>1. \E k \in Person : t = DMs[k]
          BY <1>0, <1>8, <3>2 DEF Tied, Call, RuntimeTypeOK
        <4>2. \A p \in Person : Posts[p] # t
          BY <4>1
        <4> QED
          BY <1>0, <2>1, <4>2 DEF Agree
      <3> QED
        BY <3>1, <3>2
    <2>3. Loaded'
      BY <1>3, <2>1 DEF Loaded
    <2> QED
      BY <1>2, <1>8, <2>2, <2>3 DEF Placed
  <1> QED
    BY <1>0, <1>5, <1>6, <1>7, <1>8 DEF Tied

\* The only request takes a step.
LEMMA TogetherStep ==
    ASSUME RuntimeTypeOK, WorkInv, JoinsAccounted, Together, faults = 0, faults' = 0,
           NEW g \in Goroutine, Step(g)
    PROVE  Together'
  <1> USE RuntimeAssumption
  <1> DEFINE c == call[g]
  <1>0. /\ call \in [Goroutine -> Call] /\ c \in Call /\ HostTypeOK
        /\ op \in [Goroutine -> Op] /\ Tied(g) /\ Switching
        /\ cache \subseteq Person
    BY DEF RuntimeTypeOK, HostTypeOK, WorkInv
  <1>k. NoOp.at = "none" /\ NoCall.at = "none"
    BY DEF NoOp, NoCall
  <1>1. c.at # "none"
    <2>1. ASSUME HostStep(g) PROVE c.at # "none"
      BY <1>0, <1>k, <2>1, HostMoves DEF Tied
    <2> QED
      BY <2>1 DEF Step, CheckCache, ChangeRow, ChangeCache, ChangeTopic, LoadSubscriptions,
         SwapCache, DropTopics, AddTopics, LeaveOldDM, JoinNewDM, Broadcast, InHost, Return,
         LockSyncer
  <1>2. /\ Placed(g) /\ (c.at # "lock" => c.owner = active)
        /\ \A h \in Goroutine \ {g} : call[h] = NoCall
    BY <1>1, <1>k DEF Together, Placed
  <1>3. \A h \in Goroutine \ {g} : op[h] = NoOp
    BY <1>2, <1>k DEF WorkInv, Tied
  \* Only this request changes, and it is placed, or has returned.
  <1>m. ASSUME \A h \in Goroutine \ {g} : call'[h] = call[h],
               \/ Placed(g)' /\ call'[g].at # "none"
               \/ Loaded' /\ Agree(cache, {})' /\ call'[g] = NoCall
        PROVE  Together'
    <2>1. \A h \in Goroutine \ {g} : call'[h] = NoCall
      BY <1>2, <1>m
    <2>2. CASE Placed(g)' /\ call'[g].at # "none"
      BY <1>k, <2>1, <2>2 DEF Together
    <2>3. CASE Loaded' /\ Agree(cache, {})' /\ call'[g] = NoCall
      BY <2>1, <2>3 DEF Together
    <2> QED
      BY <1>m, <2>2, <2>3
  <1>g. ASSUME NEW s \in CallSteps, CallGoto(g, s)
        PROVE  /\ call'[g] \in Call /\ call'[g].at = s /\ call'[g].owner = c.owner
               /\ call'[g].kind = c.kind /\ call'[g].who = c.who /\ call'[g].next = c.next
               /\ call'[g].drop = c.drop /\ call'[g].add = c.add
               /\ \A h \in Goroutine \ {g} : call'[h] = call[h]
    <2>1. call'[g] = [c EXCEPT !.at = s] /\ \A h \in Goroutine \ {g} : call'[h] = call[h]
      BY <1>0, <1>g DEF CallGoto
    <2> QED
      BY <1>0, <2>1 DEF Call
  <1>f. ASSUME NEW x \in {"ok", "err"}, Finish(g, x)
        PROVE  /\ call'[g].at = "return" /\ call'[g].owner = c.owner
               /\ \A h \in Goroutine \ {g} : call'[h] = call[h]
    BY <1>0, <1>f, CallFinishes
  <1>s. ASSUME Loaded', Agree(cache, {})', call'[g].owner = active',
               call'[g].at \in {"check", "row", "send", "return", "olddm", "newdm"},
               \A h \in Goroutine \ {g} : call'[h] = call[h]
        PROVE  Together'
    <2>1. Placed(g)'
      BY <1>s DEF Placed
    <2> QED
      BY <1>m, <1>s, <2>1
  <1>u. ASSUME UNCHANGED <<subs, cache, active, handle>>
        PROVE  /\ GetSubscriptions(active)' = GetSubscriptions(active)
               /\ Loaded => Loaded'
               /\ \A E : Agree(cache, E)' <=> Agree(cache, E)
    BY <1>u DEF GetSubscriptions, Loaded, Agree
  <1>r. ASSUME ReturnFromHost(g)
        PROVE  op'[g] = NoOp /\ op[g] # NoOp /\ handle' = handle /\ op[g].at \in {"ok", "err"}
    BY <1>0, <1>k, <1>r DEF ReturnFromHost
  <1>c. ASSUME NEW e, NEW t, CallHost(g, e, t)
        PROVE  op'[g].at = e /\ op[g] = NoOp /\ handle' = handle
    BY <1>0, <1>c DEF CallHost
  <1>4. CASE InHost(g)
    <2>1. HostStep(g) /\ UNCHANGED <<subs, cache, active, dm, call>>
      BY <1>4 DEF InHost, callVars
    <2>2. Placed(g)'
      BY <1>0, <1>2, <1>3, <2>1, PlacedInHost
    <2> QED
      BY <1>1, <1>m, <2>1, <2>2
  <1>5. CASE CheckCache(g)
    <2>1. Loaded /\ Agree(cache, {}) /\ UNCHANGED <<subs, cache, active, handle>>
          /\ (Finish(g, "ok") \/ CallGoto(g, "row")) /\ c.at = "check"
      BY <1>2, <1>5 DEF CheckCache, Placed, hostVars
    <2>2. call'[g].at \in {"row", "return"} /\ call'[g].owner = active'
          /\ \A h \in Goroutine \ {g} : call'[h] = call[h]
      BY <1>2, <1>f, <1>g, <2>1 DEF CallSteps
    <2> QED
      BY <1>s, <1>u, <2>1, <2>2
  <1>6. CASE ChangeRow(g)
    <2>1. /\ c.at = "row" /\ CallGoto(g, "cache") /\ UNCHANGED <<cache, active, handle>>
          /\ subs' = IF c.kind = "follow" THEN subs \cup {<<c.owner, c.who>>}
                     ELSE subs \ {<<c.owner, c.who>>}
      BY <1>6 DEF ChangeRow, hostVars
    <2>2. c.owner \in Owner /\ c.who \in Person
      BY <2>1 DEF RuntimeTypeOK
    <2>3. cache = GetSubscriptions(active) /\ Agree(cache, {})
      BY <1>2, <2>1 DEF Placed, Loaded
    <2>4. GetSubscriptions(active)' = IF c.kind = "follow" THEN cache \cup {c.who}
                                      ELSE cache \ {c.who}
      BY <1>2, <2>1, <2>2, <2>3, RowChange
    <2>5. Agree(cache, {})'
      BY <2>1, <2>3 DEF Agree
    <2>6. /\ call'[g].at = "cache" /\ call'[g].owner = active' /\ call'[g].kind = c.kind
          /\ call'[g].who = c.who
          /\ \A h \in Goroutine \ {g} : call'[h] = call[h]
      BY <1>2, <1>g, <2>1 DEF CallSteps
    <2>7. Placed(g)'
      BY <2>1, <2>4, <2>5, <2>6 DEF Placed
    <2> QED
      BY <1>m, <2>6, <2>7
  <1>7. CASE ChangeCache(g)
    <2>1. /\ c.at = "cache" /\ CallGoto(g, "topic") /\ UNCHANGED <<subs, active, handle, op>>
          /\ cache' = IF c.kind = "follow" THEN cache \cup {c.who} ELSE cache \ {c.who}
      BY <1>7 DEF ChangeCache, hostVars
    <2>2. cache' = GetSubscriptions(active) /\ Agree(cache, {})
      BY <1>2, <2>1 DEF Placed
    <2>3. Loaded'
      BY <2>1, <2>2 DEF Loaded, GetSubscriptions
    <2>4. /\ call'[g].at = "topic" /\ call'[g].owner = active' /\ call'[g].kind = c.kind
          /\ call'[g].who = c.who
          /\ \A h \in Goroutine \ {g} : call'[h] = call[h]
      BY <1>2, <1>g, <2>1 DEF CallSteps
    <2>5. Agree(cache, {c.who})'
      BY <2>1, <2>2, <2>4 DEF Agree
    <2>6. op[g] = NoOp
      BY <1>0, <2>1 DEF Tied
    <2>7. c.who \in cache' <=> c.kind = "follow"
      BY <2>1
    <2>8. Placed(g)'
      BY <1>k, <2>1, <2>3, <2>4, <2>5, <2>6, <2>7 DEF Placed
    <2> QED
      BY <1>m, <2>4, <2>8
  <1>8. CASE ChangeTopic(g)
    <2>1. c.at = "topic" /\ UNCHANGED <<subs, cache, active>>
      BY <1>8 DEF ChangeTopic
    <2>2. /\ Loaded /\ Agree(cache, {c.who}) /\ (c.who \in cache <=> c.kind = "follow")
          /\ op[g].at \in {"ok", "err"} => Agree(cache, {})
      BY <1>2, <2>1 DEF Placed
    <2>3. ASSUME NEW e \in {"ensure", "unsubscribe"}, NEW t, CallHost(g, e, t), UNCHANGED call
          PROVE  Together'
      <3>1. op'[g].at = e /\ handle' = handle
        BY <1>c, <2>3
      <3>2. Loaded' /\ Agree(cache, {c.who})'
        BY <1>u, <2>1, <2>2, <2>3, <3>1
      <3>3. Placed(g)'
        BY <1>2, <2>1, <2>2, <2>3, <3>1, <3>2 DEF Placed
      <3> QED
        BY <1>1, <1>m, <2>3, <3>3
    <2>4. CASE ReturnFromHost(g) /\ Finish(g, op[g].at)
      <3>1. op[g].at \in {"ok", "err"} /\ handle' = handle
        BY <1>r, <2>4
      <3>2. Loaded' /\ Agree(cache, {})'
        BY <1>u, <2>1, <2>2, <3>1
      <3> QED
        BY <1>2, <1>f, <1>s, <2>1, <2>4, <3>1, <3>2
    <2> QED
      BY <1>8, <2>3, <2>4 DEF ChangeTopic
  <1>9. CASE LoadSubscriptions(g)
    <2> DEFINE d == [c EXCEPT !.next = GetSubscriptions(c.owner), !.at = "swap"]
    <2>1. c.at = "load" /\ call' = [call EXCEPT ![g] = d]
          /\ UNCHANGED <<subs, cache, active, handle, op>>
      BY <1>9 DEF LoadSubscriptions, hostVars
    <2>2. d.next = GetSubscriptions(active) /\ d.at = "swap" /\ d.owner = active
      BY <1>0, <1>2, <2>1 DEF Call
    <2> HIDE DEF d
    <2>3. call'[g] = d /\ \A h \in Goroutine \ {g} : call'[h] = call[h]
      BY <1>0, <2>1
    <2>4. Agree(cache, {})
      BY <1>2, <2>1 DEF Placed
    <2>5. Agree(cache, {})' /\ d.next = GetSubscriptions(active)'
      BY <1>u, <2>1, <2>2, <2>4
    <2>6. Placed(g)'
      BY <2>1, <2>2, <2>3, <2>5 DEF Placed
    <2> QED
      BY <1>m, <2>2, <2>3, <2>6
  <1>10. CASE SwapCache(g)
    <2> DEFINE d == [c EXCEPT !.drop = cache \ c.next, !.add = c.next \ cache, !.at = "drop"]
    <2>1. c.at = "swap" /\ call' = [call EXCEPT ![g] = d] /\ cache' = c.next
          /\ UNCHANGED <<subs, active, handle, op>>
      BY <1>10 DEF SwapCache, hostVars
    <2>2. d.drop = cache \ c.next /\ d.add = c.next \ cache /\ d.at = "drop" /\ d.owner = active
      BY <1>0, <1>2, <2>1 DEF Call
    <2> HIDE DEF d
    <2>3. call'[g] = d /\ \A h \in Goroutine \ {g} : call'[h] = call[h]
      BY <1>0, <2>1
    <2>4. Agree(cache, {}) /\ c.next = GetSubscriptions(active) /\ op[g] = NoOp
      BY <1>0, <1>2, <2>1 DEF Placed, Tied
    <2>5. Loaded'
      BY <2>1, <2>4 DEF Loaded, GetSubscriptions
    <2>6. Agree(cache, call[g].drop \cup call[g].add)'
      BY <2>1, <2>2, <2>3, <2>4 DEF Agree
    <2>7. \A p \in d.drop : handle[Posts[p]] # "none"
      BY <1>0, <2>2, <2>4 DEF Agree
    <2>8. Placed(g)'
      BY <1>k, <2>1, <2>2, <2>3, <2>4, <2>5, <2>6, <2>7 DEF Placed
    <2> QED
      BY <1>m, <2>2, <2>3, <2>8
  <1>11. CASE DropTopics(g)
    <2>1. c.at = "drop" /\ c.drop \subseteq Person /\ UNCHANGED <<subs, cache, active>>
      BY <1>0, <1>11 DEF DropTopics, Call
    <2>2. /\ Loaded /\ Agree(cache, c.drop \cup c.add)
          /\ c.drop \cap cache = {} /\ c.add \subseteq cache
          /\ op[g].at # "err" /\ (op[g].at = "ok" => handle[op[g].topic] = "none")
          /\ \A p \in c.drop : (op[g].at = "ok" /\ op[g].topic = Posts[p]) \/ handle[Posts[p]] # "none"
      BY <1>2, <2>1 DEF Placed
    <2>3. ASSUME NEW p \in c.drop, CallHost(g, "unsubscribe", Posts[p]), UNCHANGED call
          PROVE  Together'
      <3>1. op'[g].at = "unsubscribe" /\ op[g] = NoOp /\ handle' = handle
        BY <1>c, <2>3
      <3>2. Loaded' /\ Agree(cache, c.drop \cup c.add)'
        BY <1>u, <2>1, <2>2, <2>3, <3>1
      <3>3. \A q \in c.drop : handle'[Posts[q]] # "none"
        BY <1>k, <2>2, <3>1
      <3>4. Placed(g)'
        BY <1>2, <2>1, <2>2, <2>3, <3>1, <3>2, <3>3 DEF Placed
      <3> QED
        BY <1>1, <1>m, <2>3, <3>4
    <2>4. ASSUME ReturnFromHost(g), op[g].at = "ok",
                 call' = [call EXCEPT ![g].drop = {p \in @ : Posts[p] # op[g].topic}]
          PROVE  Together'
      <3> DEFINE S == {p \in c.drop : Posts[p] # op[g].topic}
                 d == [c EXCEPT !.drop = S]
      <3>1. d.drop = S /\ d.add = c.add /\ d.at = "drop" /\ d.owner = active
        BY <1>0, <1>2, <2>1 DEF Call
      <3>2. call' = [call EXCEPT ![g] = d]
        BY <2>4
      <3>3. /\ S \subseteq c.drop
            /\ \A p \in c.drop \ S : handle[Posts[p]] = "none"
            /\ \A p \in S : handle[Posts[p]] # "none"
        BY <2>2, <2>4
      <3> HIDE DEF S, d
      <3>4. call'[g] = d /\ \A h \in Goroutine \ {g} : call'[h] = call[h]
        BY <1>0, <3>2
      <3>5. op'[g] = NoOp /\ handle' = handle
        BY <1>r, <2>4
      <3>6. \A p \in Person \ (S \cup c.add) : IF p \in cache THEN handle[Posts[p]] # "none"
                                              ELSE handle[Posts[p]] # "read"
        BY <2>1, <2>2, <3>3 DEF Agree
      <3>7. Loaded' /\ Agree(cache, call[g].drop \cup call[g].add)'
        BY <1>u, <2>1, <2>2, <3>1, <3>4, <3>5, <3>6 DEF Agree
      <3>8. Placed(g)'
        BY <1>k, <2>1, <2>2, <3>1, <3>3, <3>4, <3>5, <3>7 DEF Placed
      <3> QED
        BY <1>m, <3>1, <3>4, <3>8
    <2>5. CASE c.drop = {} /\ op[g] = NoOp /\ CallGoto(g, "add") /\ UNCHANGED hostVars
      <3>1. op'[g] = NoOp /\ handle' = handle
        BY <2>5 DEF hostVars
      <3>2. /\ call'[g].at = "add" /\ call'[g].owner = active' /\ call'[g].drop = c.drop
            /\ call'[g].add = c.add /\ \A h \in Goroutine \ {g} : call'[h] = call[h]
        BY <1>2, <1>g, <2>1, <2>5 DEF CallSteps
      <3>3. Loaded' /\ Agree(cache, call[g].drop \cup call[g].add)'
        BY <1>u, <2>1, <2>2, <3>1, <3>2 DEF Agree
      <3>4. Placed(g)'
        BY <1>k, <2>1, <2>2, <2>5, <3>1, <3>2, <3>3 DEF Placed
      <3> QED
        BY <1>m, <3>2, <3>4
    <2> QED
      BY <1>11, <1>r, <2>2, <2>3, <2>4, <2>5 DEF DropTopics
  <1>12. CASE AddTopics(g)
    <2>1. c.at = "add" /\ c.add \subseteq Person /\ UNCHANGED <<subs, cache, active>>
      BY <1>0, <1>12 DEF AddTopics, Call
    <2>2. /\ Loaded /\ Agree(cache, c.drop \cup c.add)
          /\ c.drop = {} /\ c.add \subseteq cache
          /\ op[g].at # "err" /\ (op[g].at = "ok" => handle[op[g].topic] # "none")
      BY <1>2, <2>1 DEF Placed
    <2>3. ASSUME NEW p \in c.add, CallHost(g, "ensure", Posts[p]), UNCHANGED call
          PROVE  Together'
      <3>1. op'[g].at = "ensure" /\ op[g] = NoOp /\ handle' = handle
        BY <1>c, <2>3
      <3>2. Loaded' /\ Agree(cache, c.drop \cup c.add)'
        BY <1>u, <2>1, <2>2, <2>3, <3>1
      <3>3. Placed(g)'
        BY <1>2, <2>1, <2>2, <2>3, <3>1, <3>2 DEF Placed
      <3> QED
        BY <1>1, <1>m, <2>3, <3>3
    <2>4. ASSUME ReturnFromHost(g), op[g].at = "ok",
                 call' = [call EXCEPT ![g].add = {p \in @ : Posts[p] # op[g].topic}]
          PROVE  Together'
      <3> DEFINE S == {p \in c.add : Posts[p] # op[g].topic}
                 d == [c EXCEPT !.add = S]
      <3>1. d.drop = {} /\ d.add = S /\ d.at = "add" /\ d.owner = active
        BY <1>0, <1>2, <2>1, <2>2 DEF Call
      <3>2. call' = [call EXCEPT ![g] = d]
        BY <2>4
      <3>3. S \subseteq c.add /\ \A p \in c.add \ S : handle[Posts[p]] # "none"
        BY <2>2, <2>4
      <3> HIDE DEF S, d
      <3>4. call'[g] = d /\ \A h \in Goroutine \ {g} : call'[h] = call[h]
        BY <1>0, <3>2
      <3>5. op'[g] = NoOp /\ handle' = handle
        BY <1>r, <2>4
      <3>6. \A p \in Person \ S : IF p \in cache THEN handle[Posts[p]] # "none"
                                  ELSE handle[Posts[p]] # "read"
        BY <2>1, <2>2, <3>3 DEF Agree
      <3>7. Loaded' /\ Agree(cache, call[g].drop \cup call[g].add)'
        BY <1>u, <2>1, <2>2, <3>1, <3>4, <3>5, <3>6 DEF Agree
      <3>8. Placed(g)'
        BY <1>k, <2>1, <2>2, <3>1, <3>3, <3>4, <3>5, <3>7 DEF Placed
      <3> QED
        BY <1>m, <3>1, <3>4, <3>8
    <2>5. CASE c.add = {} /\ op[g] = NoOp /\ CallGoto(g, "olddm") /\ UNCHANGED hostVars
      <3>1. handle' = handle /\ Agree(cache, {})
        BY <2>2, <2>5 DEF hostVars
      <3> QED
        BY <1>2, <1>g, <1>s, <1>u, <2>1, <2>2, <2>5, <3>1 DEF CallSteps
    <2> QED
      BY <1>12, <1>r, <2>2, <2>3, <2>4, <2>5 DEF AddTopics
  <1>13. CASE LeaveOldDM(g) \/ JoinNewDM(g) \/ Broadcast(g)
    <2>1. /\ c.at \in {"olddm", "newdm", "send"} /\ UNCHANGED <<subs, cache, active>>
          /\ Loaded /\ Agree(cache, {})
      BY <1>2, <1>13 DEF LeaveOldDM, JoinNewDM, Broadcast, Placed
    <2>2. handle' = handle
      BY <1>13 DEF LeaveOldDM, JoinNewDM, Broadcast, CallHost, ReturnFromHost, hostVars
    <2>3. UNCHANGED call \/ CallGoto(g, "newdm") \/ Finish(g, "ok")
      BY <1>13 DEF LeaveOldDM, JoinNewDM, Broadcast
    <2>4. /\ call'[g].at \in {"olddm", "newdm", "send", "return"} /\ call'[g].owner = active'
          /\ \A h \in Goroutine \ {g} : call'[h] = call[h]
      BY <1>2, <1>f, <1>g, <2>1, <2>3 DEF CallSteps
    <2> QED
      BY <1>s, <1>u, <2>1, <2>2, <2>4
  <1>14. CASE Return(g)
    <2>1. /\ c.at = "return" /\ UNCHANGED <<subs, cache, active, handle>>
          /\ call'[g] = NoCall /\ \A h \in Goroutine \ {g} : call'[h] = call[h]
      BY <1>0, <1>14 DEF Return, hostVars
    <2>2. Loaded /\ Agree(cache, {})
      BY <1>2, <2>1 DEF Placed
    <2>3. Loaded' /\ Agree(cache, {})'
      BY <1>u, <2>1, <2>2
    <2> QED
      BY <1>m, <2>1, <2>3
  <1>15. CASE LockSyncer(g)
    <2> DEFINE d == [c EXCEPT !.kind = "switch", !.at = "load"]
    <2>1. c.at = "lock" /\ call' = [call EXCEPT ![g] = d] /\ active' = c.owner
          /\ UNCHANGED <<subs, cache, handle, op>>
      BY <1>15 DEF LockSyncer, hostVars
    <2>2. d.at = "load" /\ d.owner = c.owner
      BY <1>0 DEF Call
    <2> HIDE DEF d
    <2>3. call'[g] = d /\ \A h \in Goroutine \ {g} : call'[h] = call[h]
      BY <1>0, <2>1
    <2>4. Agree(cache, {})
      BY <1>2, <2>1 DEF Placed
    <2>5. Agree(cache, {})'
      BY <2>1, <2>4 DEF Agree
    <2>6. Placed(g)'
      BY <2>1, <2>2, <2>3, <2>5 DEF Placed
    <2> QED
      BY <1>m, <2>2, <2>3, <2>6
  <1> QED
    BY <1>4, <1>5, <1>6, <1>7, <1>8, <1>9, <1>10, <1>11, <1>12, <1>13, <1>14, <1>15 DEF Step

\* The first request of an orderly run finds table, cache and topics in agreement.
LEMMA TableStep ==
    ASSUME RuntimeTypeOK, WorkInv, JoinsAccounted, TableInv, [Next]_vars
    PROVE  TableInv'
  <1> SUFFICES ASSUME orderly', faults' = 0 PROVE Together'
    BY DEF TableInv
  <1>1. faults \in Nat /\ (faults' = faults \/ faults' = faults + 1)
    BY HostStepOrStutter DEF RuntimeTypeOK, HostTypeOK, HostNext, HostStep, CallHost,
       ReturnFromHost, EnsureSubscribed, Subscribe, Unsubscribe, PublishFind, PublishJoin,
       PublishStore, PublishSend, GossipFails, OtherFault, hostVars
  <1>2. faults = 0
    BY <1>1
  <1>3. ASSUME NEW g \in Goroutine, Request(g) PROVE Together'
    <2>1. PICK kind \in Kinds \ {"none"}, k \in Owner \cup {Nobody}, p \in Person \cup {Nobody},
               s \in {"check", "lock", "send"} :
             /\ Begin(g, kind, k, p, s) /\ UNCHANGED <<hostVars, subs, cache, active>>
             /\ s # "lock" => kind # "await"
      <3>1. ASSUME NEW k \in Owner, NEW p \in Person, Follow(g, k, p)
            PROVE  Begin(g, "follow", k, p, "check") /\ UNCHANGED <<hostVars, subs, cache, active>>
        BY <3>1 DEF Follow
      <3>2. ASSUME NEW k \in Owner, NEW p \in Person, Unfollow(g, k, p)
            PROVE  Begin(g, "unfollow", k, p, "check") /\ UNCHANGED <<hostVars, subs, cache, active>>
        BY <3>2 DEF Unfollow
      <3>3. ASSUME NEW k \in Owner, NEW p \in Person, SendDM(g, k, p)
            PROVE  Begin(g, "dm", k, p, "send") /\ UNCHANGED <<hostVars, subs, cache, active>>
        BY <3>3 DEF SendDM
      <3>4. ASSUME NEW k \in Owner, PublishPost(g, k)
            PROVE  Begin(g, "post", k, k, "send") /\ UNCHANGED <<hostVars, subs, cache, active>>
        BY <3>4 DEF PublishPost
      <3>5. ASSUME NEW k \in Owner \cup {Nobody}, SwitchIdentity(g, k)
            PROVE  Begin(g, "await", k, Nobody, "lock") /\ UNCHANGED <<hostVars, subs, cache, active>>
        BY <3>5 DEF SwitchIdentity
      <3> QED
        BY <1>3, <3>1, <3>2, <3>3, <3>4, <3>5, RuntimeAssumption DEF Request, Kinds
    <2> DEFINE c == [NoCall EXCEPT !.kind = kind, !.owner = k, !.who = p, !.at = s]
    <2>2. c.kind = kind /\ c.owner = k /\ c.at = s
      BY DEF NoCall
    <2>3. call' = [call EXCEPT ![g] = c] /\ orderly
          /\ (\A h \in Goroutine : call[h] = NoCall) /\ (kind # "await" => k = active)
      BY <2>1 DEF Begin
    <2> HIDE DEF c
    <2>4. call'[g] = c /\ \A h \in Goroutine \ {g} : call'[h] = NoCall
      BY <2>3 DEF RuntimeTypeOK
    <2>5. Loaded /\ Agree(cache, {})
      BY <1>2, <2>3 DEF TableInv, Together
    <2>6. Agree(cache, {})' /\ Loaded'
      BY <2>1, <2>5 DEF Agree, Loaded, GetSubscriptions, hostVars
    <2>7. (c.at # "lock" => c.owner = active') /\ c.at \in {"check", "lock", "send"}
      BY <2>1, <2>2, <2>3
    <2>8. Placed(g)'
      BY <2>4, <2>6, <2>7 DEF Placed
    <2>9. c # NoCall
      BY <2>1, <2>2 DEF NoCall
    <2> QED
      BY <2>4, <2>8, <2>9 DEF Together
  <1>4. ASSUME NEW g \in Goroutine, StatementFails(g) PROVE FALSE
    BY <1>1, <1>2, <1>4 DEF StatementFails, OtherFault
  <1>5. ASSUME NEW g \in Goroutine, Step(g) PROVE orderly
    BY <1>5 DEF Step, CheckCache, ChangeRow, ChangeCache, ChangeTopic, LoadSubscriptions,
       SwapCache, DropTopics, AddTopics, LeaveOldDM, JoinNewDM, Broadcast, InHost, Return,
       LockSyncer, callVars
  <1>6. ASSUME NEW g \in Goroutine, Step(g) PROVE Together'
    BY <1>2, <1>5, <1>6, TogetherStep DEF TableInv
  <1>7. CASE UNCHANGED vars
    <2>1. Together /\ UNCHANGED <<call, op, handle, cache, subs, active>>
      BY <1>2, <1>7 DEF vars, callVars, hostVars, TableInv
    <2>2. Loaded' <=> Loaded
      BY <2>1 DEF Loaded, GetSubscriptions
    <2>3. GetSubscriptions(active)' = GetSubscriptions(active)
      BY <2>1 DEF GetSubscriptions
    <2>4. ASSUME NEW g \in Goroutine, Placed(g) PROVE Placed(g)'
      BY <2>1, <2>2, <2>3, <2>4 DEF Placed, Agree
    <2> QED
      BY <2>1, <2>2, <2>4 DEF Together, Agree
  <1> QED
    BY <1>3, <1>4, <1>6, <1>7 DEF Next

\* While requests come one at a time from the active identity and nothing fails,
\* every request leaves table, cache and topics in agreement (Follow, Unfollow and
\* ReloadSubscriptions of the feed manager), for any people, identities and topics.
THEOREM RuntimeMatchesTableTheorem == Spec => []RuntimeMatchesTable
  <1>1. Init => WorkInv /\ TableInv
    BY RuntimeAssumption DEF Init, HostInit, WorkInv, Tied, Switching, SwitchSteps, TableInv,
       Together, Loaded, Agree, GetSubscriptions, NoCall, NoOp
  <1>2. /\ RuntimeTypeOK /\ JoinsAccounted /\ WorkInv /\ TableInv /\ [Next]_vars
        => WorkInv' /\ TableInv'
    BY WorkStep, TableStep
  <1>3. TableInv => RuntimeMatchesTable
    BY DEF TableInv, Together, Loaded, Agree, RuntimeMatchesTable
  <1> QED
    BY <1>1, <1>2, <1>3, RuntimeUsesTopicHost, RuntimeTopics, PTL DEF Spec

=============================================================================
