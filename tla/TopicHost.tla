------------------------------ MODULE TopicHost ------------------------------
(***************************************************************************)
(* The topic table of a p2p.Host (pkg/p2p/pubsub.go): the map h.topics     *)
(* from topic names to handles, the topics that GossipSub (external) has   *)
(* joined, and the read loops.  EnsureSubscribed and Publish test the map  *)
(* under the read lock and act after releasing it; Subscribe and           *)
(* Unsubscribe hold the write lock throughout, so each is one step.        *)
(***************************************************************************)
EXTENDS Naturals

CONSTANTS
    Topic,          \* topic names
    NoTopic,        \* the topic of a goroutine that is in no host call
    Goroutine,      \* the callers
    MaxFaults       \* bound: failing GossipSub calls and statements

ASSUME HostAssumption == NoTopic \notin Topic /\ MaxFaults \in Nat

VARIABLES
    handle,     \* h.topics: "none", "publish" (no subscription) or "read"
    joined,     \* topics joined in GossipSub, which joins a topic only once
    loops,      \* per topic, the read loops whose context is not cancelled
    op,         \* the host call of each goroutine
    faults

hostVars == <<handle, joined, loops, op, faults>>

Handles == {"none", "publish", "read"}

\* "ok" and "err" are returned and not yet seen by the caller.
OpSteps == {"none", "ensure", "subscribe", "unsubscribe",
            "publish", "join", "store", "send", "ok", "err"}

NoOp == [at |-> "none", topic |-> NoTopic]

Op == [at : OpSteps, topic : Topic \cup {NoTopic}]

-----------------------------------------------------------------------------

\* A goroutine calls EnsureSubscribed, Unsubscribe or Publish.
CallHost(g, entry, t) ==
    /\ op[g] = NoOp
    /\ op' = [op EXCEPT ![g] = [at |-> entry, topic |-> t]]
    /\ UNCHANGED <<handle, joined, loops, faults>>

ReturnFromHost(g) ==
    /\ op[g].at \in {"ok", "err"}
    /\ op' = [op EXCEPT ![g] = NoOp]
    /\ UNCHANGED <<handle, joined, loops, faults>>

OpAt(g, step) == op[g].at = step

OpGoto(g, step) == op' = [op EXCEPT ![g].at = step]

\* A topic in the map, reading or not, counts as subscribed.
EnsureSubscribed(g) ==
    /\ OpAt(g, "ensure")
    /\ OpGoto(g, IF handle[op[g].topic] # "none" THEN "ok" ELSE "subscribe")
    /\ UNCHANGED <<handle, joined, loops, faults>>

\* Mutant: neither the map nor GossipSub refuses a second subscription.
SubscribeAnyway(g) ==
    LET t == op[g].topic IN
    /\ OpAt(g, "subscribe")
    /\ handle' = [handle EXCEPT ![t] = "read"]
    /\ joined' = joined \cup {t}
    /\ loops' = [loops EXCEPT ![t] = @ + 1]
    /\ OpGoto(g, "ok")
    /\ UNCHANGED faults

\* Join fails for a topic that is joined already.
Subscribe(g) ==
    LET t == op[g].topic IN
    /\ OpAt(g, "subscribe")
    /\ IF handle[t] # "none" \/ t \in joined
       THEN OpGoto(g, "err") /\ UNCHANGED <<handle, joined, loops>>
       ELSE /\ handle' = [handle EXCEPT ![t] = "read"]
            /\ joined' = joined \cup {t}
            /\ loops' = [loops EXCEPT ![t] = @ + 1]
            /\ OpGoto(g, "ok")
    /\ UNCHANGED faults

\* What Unsubscribe's cancel and delete leave.  Whoever was about to publish
\* on the closed handle gets an error.
Forget(g, t, result) ==
    /\ handle' = [handle EXCEPT ![t] = "none"]
    /\ loops' = [loops EXCEPT ![t] = IF handle[t] = "read" THEN @ - 1 ELSE @]
    /\ op' = [h \in Goroutine |->
                 IF h = g THEN [op[g] EXCEPT !.at = result]
                 ELSE IF op[h].at = "send" /\ op[h].topic = t
                      THEN [op[h] EXCEPT !.at = "err"] ELSE op[h]]

\* Mutant: the topic is forgotten and not closed.
UnsubscribeOpen(g) ==
    LET t == op[g].topic IN
    /\ OpAt(g, "unsubscribe")
    /\ handle[t] # "none"
    /\ Forget(g, t, "ok")
    /\ UNCHANGED <<joined, faults>>

Unsubscribe(g) ==
    LET t == op[g].topic IN
    /\ OpAt(g, "unsubscribe")
    /\ \/ /\ handle[t] = "none"
          /\ OpGoto(g, "err")
          /\ UNCHANGED <<handle, joined, loops, faults>>
       \/ /\ handle[t] # "none"
          /\ Forget(g, t, "ok")
          /\ joined' = joined \ {t}
          /\ UNCHANGED faults
       \/ /\ handle[t] # "none"          \* topic.Close fails
          /\ faults < MaxFaults
          /\ Forget(g, t, "err")
          /\ faults' = faults + 1
          /\ UNCHANGED joined

\* Publish looks for a handle, joins the topic without one, then stores it.
PublishFind(g) ==
    /\ OpAt(g, "publish")
    /\ OpGoto(g, IF handle[op[g].topic] # "none" THEN "send" ELSE "join")
    /\ UNCHANGED <<handle, joined, loops, faults>>

PublishJoin(g) ==
    LET t == op[g].topic IN
    /\ OpAt(g, "join")
    /\ joined' = joined \cup {t}
    /\ OpGoto(g, IF t \in joined THEN "err" ELSE "store")
    /\ UNCHANGED <<handle, loops, faults>>

\* The double-check: another handle is used and the new topic closed.
PublishStore(g) ==
    LET t == op[g].topic IN
    /\ OpAt(g, "store")
    /\ IF handle[t] # "none"
       THEN joined' = joined \ {t} /\ UNCHANGED handle
       ELSE handle' = [handle EXCEPT ![t] = "publish"] /\ UNCHANGED joined
    /\ OpGoto(g, "send")
    /\ UNCHANGED <<loops, faults>>

PublishSend(g) ==
    /\ OpAt(g, "send")
    /\ OpGoto(g, "ok")
    /\ UNCHANGED <<handle, joined, loops, faults>>

\* Join, Subscribe or Publish of GossipSub fails; a joined topic is closed.
GossipFails(g) ==
    /\ faults < MaxFaults
    /\ op[g].at \in {"subscribe", "join", "send"}
    /\ OpGoto(g, "err")
    /\ faults' = faults + 1
    /\ UNCHANGED <<handle, joined, loops>>

HostStep(g) ==
    \/ EnsureSubscribed(g) \/ Subscribe(g) \/ Unsubscribe(g)
    \/ PublishFind(g) \/ PublishJoin(g) \/ PublishStore(g) \/ PublishSend(g)
    \/ GossipFails(g)

\* A failing statement of a caller counts against the same bound.
OtherFault ==
    /\ faults < MaxFaults
    /\ faults' = faults + 1
    /\ UNCHANGED <<handle, joined, loops, op>>

HostInit ==
    /\ handle = [t \in Topic |-> "none"]
    /\ joined = {}
    /\ loops = [t \in Topic |-> 0]
    /\ op = [g \in Goroutine |-> NoOp]
    /\ faults = 0

HostNext ==
    \/ \E g \in Goroutine :
         \/ HostStep(g) \/ ReturnFromHost(g)
         \/ \E t \in Topic, entry \in {"ensure", "unsubscribe", "publish"} :
               CallHost(g, entry, t)
    \/ OtherFault

HostSpec == HostInit /\ [][HostNext]_hostVars

-----------------------------------------------------------------------------

\* Every variable of the topic table has its type, and a call has a topic.
HostTypeOK ==
    /\ handle \in [Topic -> Handles]
    /\ joined \subseteq Topic
    /\ loops \in [Topic -> Nat]
    /\ op \in [Goroutine -> Op]
    /\ \A g \in Goroutine : op[g].at # "none" => op[g].topic \in Topic
    /\ faults \in Nat

\* A topic has exactly one live read loop while its handle reads and none
\* otherwise, whatever EnsureSubscribed, Publish and Unsubscribe calls race:
\* no message is handled twice because of two loops, and none is handled for
\* a topic that was left.
OneReadLoop ==
    \A t \in Topic : loops[t] = IF handle[t] = "read" THEN 1 ELSE 0

\* Unless closing a topic failed, what GossipSub has joined is what the map
\* holds, plus the topics of publishers between Join and the map update; so a
\* topic is never stuck in a joined state that Subscribe can only fail on, and
\* Publish's double-check never closes a topic in use.
JoinsAccounted ==
    faults = 0 =>
        /\ joined = {t \in Topic : \/ handle[t] # "none"
                                   \/ \E g \in Goroutine :
                                        op[g].at = "store" /\ op[g].topic = t}
        /\ \A g \in Goroutine : op[g].at = "store" => handle[op[g].topic] = "none"
=============================================================================
