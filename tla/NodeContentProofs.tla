-------------------------- MODULE NodeContentProofs --------------------------
(***************************************************************************)
(* Theorems about NodeContent, for any number of people, items, workers    *)
(* and follow threads, any storage limit and any bound on faults, crashes  *)
(* and deliveries.                                                         *)
(***************************************************************************)
EXTENDS NodeContent, FiniteSetTheorems, TLAPS

-----------------------------------------------------------------------------
(* The step relation.                                                      *)

\* Which steps a call of an origin can be at, and where its steps lead.
LEMMA LeadsFacts ==
    ASSUME NEW i, NEW o, NEW s, NEW t, Leads(i, o, s, t)
    PROVE  /\ t \in Steps \ {"idle", "check"}
           /\ s = "check" => t = "put"
           /\ t = "put" => s = "check"
           /\ s = "put" => t = "insert"
           /\ t = "insert" => s = "put"
           /\ s = "insert" => t = "policy"
           /\ t = "policy" => s = "insert"
           /\ s \notin {"done", "idle"}
           /\ t = "target" => s = "policy" /\ KindOf[i] = "like"
           /\ t = "track" => s \in {"policy", "target"}
           /\ t = "publish" => o = "local"
           /\ t = "notify" /\ IsPost(i) => s = "track"
  BY DEF Leads, createPost, createReaction, sendDM, handlePost, handleResponse,
         handleReaction, handleDM, Store, UpdateReactionCount, Steps, IsPost, PostKinds

\* The responses to a post are finitely many.
LEMMA AboutFinite ==
    ASSUME NEW R, R \subseteq Item, NEW k, NEW p
    PROVE  /\ IsFiniteSet(About(R, k, p))
           /\ Cardinality(About(R, k, p)) \in Nat
  <1>1. About(R, k, p) \subseteq Item
    BY DEF About
  <1> QED
    BY <1>1, ConstantsAssumption, FS_Subset, FS_CardinalityType

\* The three COUNT queries give three numbers.
LEMMA CountType ==
    ASSUME NEW R, R \subseteq Item, NEW p
    PROVE  Count(R, p) \in Tally
  BY AboutFinite DEF Count, Tally

\* INSERT OR IGNORE loses no row.
LEMMA InsertIgnoringType ==
    ASSUME NEW R, R \subseteq Item, NEW i \in Item
    PROVE  InsertIgnoring(i, R) \subseteq Item /\ R \subseteq InsertIgnoring(i, R)
  BY DEF InsertIgnoring

-----------------------------------------------------------------------------
(* Type correctness.                                                       *)

\* The part of TypeOK about the workers: a busy worker has an item.
JobsTyped ==
    /\ job \in [Worker -> Job]
    /\ \A w \in Worker : job[w].step # "idle" => job[w].item \in Item

\* The updates of a job that the workers make keep its type and its item.
LEMMA StepUpdate ==
    ASSUME NEW j \in Job, NEW t \in Steps
    PROVE  [j EXCEPT !.step = t] \in Job /\ [j EXCEPT !.step = t].item = j.item
  BY DEF Job

LEMMA PinUpdate ==
    ASSUME NEW j \in Job, NEW t \in Steps, NEW b \in BOOLEAN
    PROVE  /\ [j EXCEPT !.pin = b, !.step = t] \in Job
           /\ [j EXCEPT !.pin = b, !.step = t].item = j.item
  BY DEF Job

LEMMA SeenUpdate ==
    ASSUME NEW j \in Job, NEW t \in Steps, NEW y \in Tally
    PROVE  /\ [j EXCEPT !.seen = y, !.step = t] \in Job
           /\ [j EXCEPT !.seen = y, !.step = t].item = j.item
  BY DEF Job

\* A worker's job is replaced by one that has an item or is idle.
LEMMA ReplaceTyped ==
    ASSUME JobsTyped, NEW w \in Worker, NEW j \in Job,
           j.step # "idle" => j.item \in Item, job' = [job EXCEPT ![w] = j]
    PROVE  JobsTyped'
  BY DEF JobsTyped

\* A busy worker goes to another step of its call.
LEMMA GotoTyped ==
    ASSUME JobsTyped, NEW w \in Worker, job[w].step # "idle", NEW t \in Steps,
           Goto(w, t)
    PROVE  JobsTyped'
  <1> DEFINE j == [job[w] EXCEPT !.step = t]
  <1>1. job[w] \in Job /\ job[w].item \in Item
    BY DEF JobsTyped
  <1>2. j \in Job /\ j.item \in Item
    BY <1>1, StepUpdate
  <1>3. job' = [job EXCEPT ![w] = j]
    BY DEF Goto, JobsTyped
  <1> HIDE DEF j
  <1> QED
    BY <1>2, <1>3, ReplaceTyped

\* A busy worker goes on to the next step of its call.
LEMMA AdvanceTyped ==
    ASSUME JobsTyped, NEW w \in Worker, job[w].step # "idle", Advance(w)
    PROVE  JobsTyped'
  <1>1. PICK t \in Steps : Goto(w, t)
    BY DEF Advance, After
  <1> QED
    BY <1>1, GotoTyped

\* A worker ends its call.
LEMMA StopTyped ==
    ASSUME JobsTyped, NEW w \in Worker, Stop(w)
    PROVE  JobsTyped'
  <1>1. IdleJob \in Job /\ IdleJob.step = "idle"
    BY DEF IdleJob, Job, Steps, Origins, Tally, ZeroTally
  <1> QED
    BY <1>1, ReplaceTyped DEF Stop

\* Every variable keeps its type, for every handler, service call, follow
\* request, eviction step, failure and crash.
THEOREM TypeCorrect == Spec => []TypeOK
  <1>1. Init => TypeOK
    BY ConstantsAssumption
    DEF Init, TypeOK, IdleJob, IdleFollow, IdleEvict, Job, FollowJob, EvictJob,
        Tally, ZeroTally, Access, Steps, Origins, FollowSteps, EvictSteps, At
  <1>2. TypeOK /\ [Next]_vars => TypeOK'
    <2> SUFFICES ASSUME TypeOK, [Next]_vars PROVE TypeOK'
      OBVIOUS
    <2> USE ConstantsAssumption
    <2>0. /\ IdleJob \in Job /\ IdleJob.step = "idle"
          /\ IdleFollow \in FollowJob /\ IdleFollow.step = "idle"
          /\ IdleEvict \in EvictJob /\ IdleEvict.step = "idle"
      BY DEF IdleJob, Job, IdleFollow, FollowJob, IdleEvict, EvictJob, Steps,
             Origins, Tally, ZeroTally, FollowSteps, EvictSteps
    <2>1. ASSUME NEW w \in Worker, NEW i \in Item, HandleMessage(w, i)
          PROVE  TypeOK'
      <3> DEFINE v == [IdleJob EXCEPT !.step = "check", !.item = i,
                                      !.origin = "remote"]
      <3>1. v \in Job /\ v.item = i
        BY <2>0 DEF IdleJob, Job, Steps, Origins
      <3>2. job' = [job EXCEPT ![w] = v]
        BY <2>1 DEF HandleMessage, Start
      <3> QED
        BY <2>1, <3>1, <3>2 DEF TypeOK, HandleMessage, At, store, ghosts
    <2>2. ASSUME NEW w \in Worker, NEW i \in Item, CreateLocal(w, i)
          PROVE  TypeOK'
      <3> DEFINE v == [IdleJob EXCEPT !.step = "put", !.item = i,
                                      !.origin = "local"]
      <3>1. v \in Job /\ v.item = i
        BY <2>0 DEF IdleJob, Job, Steps, Origins
      <3>2. job' = [job EXCEPT ![w] = v]
        BY <2>2 DEF CreateLocal, Start
      <3> QED
        BY <2>2, <3>1, <3>2 DEF TypeOK, CreateLocal, At, store, env
    <2>w. JobsTyped
      BY DEF TypeOK, JobsTyped, At
    <2>3. ASSUME NEW w \in Worker, DedupCheck(w) PROVE TypeOK'
      <3>1. job[w].step # "idle" /\ "done" \in Steps
        BY <2>3 DEF DedupCheck, At, Steps
      <3>2. JobsTyped'
        BY <2>w, <2>3, <3>1, GotoTyped, AdvanceTyped DEF DedupCheck
      <3> QED
        BY <2>3, <3>2 DEF TypeOK, JobsTyped, DedupCheck, At, store, ghosts, env
    <2>4. ASSUME NEW w \in Worker, CasPut(w) PROVE TypeOK'
      <3>1. JobsTyped' /\ job[w].item \in Item
        BY <2>w, <2>4, AdvanceTyped DEF CasPut, At, JobsTyped
      <3> QED
        BY <2>4, <3>1 DEF TypeOK, JobsTyped, CasPut, At, ghosts, env
    <2>5. ASSUME NEW w \in Worker, InsertRow(w) PROVE TypeOK'
      <3>1. job[w].step # "idle" /\ job[w].item \in Item
        BY <2>w, <2>5 DEF InsertRow, At, JobsTyped
      <3>2. JobsTyped'
        BY <2>w, <2>5, <3>1, AdvanceTyped, StopTyped DEF InsertRow
      <3>3. rows' \subseteq Item
        BY <2>5, <3>1, InsertIgnoringType DEF TypeOK, InsertRow
      <3> QED
        BY <2>5, <3>2, <3>3 DEF TypeOK, JobsTyped, InsertRow, At, ghosts, env
    <2>6. ASSUME NEW w \in Worker, InsertTx(w) PROVE TypeOK'
      <3>1. job[w].step # "idle" /\ job[w].item \in Item
        BY <2>w, <2>6 DEF InsertTx, At, JobsTyped
      <3>2. JobsTyped'
        BY <2>w, <2>6, <3>1, AdvanceTyped, StopTyped DEF InsertTx
      <3>3. rows' \subseteq Item
        BY <2>6, <3>1, InsertIgnoringType DEF TypeOK, InsertTx
      <3>4. counts' \in [Item -> Tally]
        <4>1. InsertIgnoring(job[w].item, rows) \subseteq Item
          BY <3>1, InsertIgnoringType DEF TypeOK
        <4>2. Count(InsertIgnoring(job[w].item, rows), TargetOf[job[w].item])
                 \in Tally
          BY <4>1, CountType
        <4> QED
          BY <2>6, <4>2 DEF TypeOK, InsertTx
      <3> QED
        BY <2>6, <3>2, <3>3, <3>4 DEF TypeOK, JobsTyped, InsertTx, At, ghosts, env
    <2>7. ASSUME NEW w \in Worker, ReadPolicy(w) \/ ReadTargetPolicy(w)
          PROVE  TypeOK'
      <3>1. job[w] \in Job /\ job[w].item \in Item
        BY <2>w, <2>7 DEF ReadPolicy, ReadTargetPolicy, At, JobsTyped
      <3>2. PICK b \in BOOLEAN, t \in Steps :
                job' = [job EXCEPT ![w] = [job[w] EXCEPT !.pin = b, !.step = t]]
        <4>1. PICK b \in BOOLEAN, t \in Steps :
                  job' = [job EXCEPT ![w] = [@ EXCEPT !.pin = b, !.step = t]]
          <5>1. CASE ReadPolicy(w)
            <6> DEFINE p == IF KindOf[job[w].item] = "dm" THEN ShouldPinDM(job[w].item)
                            ELSE ShouldPinAuthor(AuthorOf[job[w].item])
            <6>1. p \in BOOLEAN
              BY Zenon DEF ShouldPinDM, ShouldPinAuthor
            <6>2. \E t \in IF p THEN {"track"} ELSE After(w, "policy") :
                     job' = [job EXCEPT ![w] = [@ EXCEPT !.pin = p, !.step = t]]
              BY <5>1, Zenon DEF ReadPolicy
            <6> HIDE DEF p
            <6>3. (IF p THEN {"track"} ELSE After(w, "policy")) \subseteq Steps
              BY DEF After, Steps
            <6> QED
              BY <6>1, <6>2, <6>3, Zenon
          <5>2. CASE ReadTargetPolicy(w)
            BY <5>2, Zenon DEF ReadTargetPolicy, After, TargetPinned
          <5> QED
            BY <2>7, <5>1, <5>2
        <4> QED
          BY <4>1
      <3> DEFINE j == [job[w] EXCEPT !.pin = b, !.step = t]
      <3>3. j \in Job /\ j.item \in Item
        BY <3>1, PinUpdate, Zenon
      <3>4. job' = [job EXCEPT ![w] = j]
        BY <3>2
      <3> HIDE DEF j
      <3>5. JobsTyped'
        BY <2>w, <3>3, <3>4, ReplaceTyped
      <3> QED
        BY <2>7, <3>5 DEF TypeOK, JobsTyped, ReadPolicy, ReadTargetPolicy, At,
           store, ghosts, env
    <2>9. ASSUME NEW w \in Worker, Track(w) PROVE TypeOK'
      <3>1. JobsTyped'
        BY <2>w, <2>9, AdvanceTyped DEF Track, At
      <3>2. access' \in [Item -> Access]
        BY <2>9 DEF TypeOK, Track, Access, TrackContentAccess
      <3> QED
        BY <2>9, <3>1, <3>2 DEF TypeOK, JobsTyped, Track, At, ghosts, env
    <2>10. ASSUME NEW w \in Worker,
                  ReadLikes(w) \/ ReadReplies(w) \/ ReadReposts(w)
           PROVE  TypeOK'
      <3>1. PICK s \in Steps \ {"idle"}, k \in Responses : ReadCount(w, s, k)
        BY <2>10 DEF ReadLikes, ReadReplies, ReadReposts, Steps, Responses
      <3>2. job[w] \in Job /\ job[w].item \in Item
        BY <2>w, <3>1 DEF ReadCount, At, JobsTyped
      <3>3. Observed(w, k) \in Tally
        BY <3>2, AboutFinite DEF Observed, TypeOK, Job, Tally
      <3>4. PICK t \in Steps :
                job' = [job EXCEPT ![w] =
                            [job[w] EXCEPT !.seen = Observed(w, k), !.step = t]]
        BY <2>w, <3>1 DEF ReadCount, After, JobsTyped
      <3> DEFINE j == [job[w] EXCEPT !.seen = Observed(w, k), !.step = t]
      <3>5. j \in Job /\ j.item \in Item
        BY <3>2, <3>3, SeenUpdate
      <3>6. job' = [job EXCEPT ![w] = j]
        BY <3>4
      <3> HIDE DEF j
      <3>7. JobsTyped'
        BY <2>w, <3>5, <3>6, ReplaceTyped
      <3> QED
        BY <3>1, <3>7 DEF TypeOK, JobsTyped, ReadCount, At, store, ghosts, env
    <2>11. ASSUME NEW w \in Worker, UpsertCounts(w) PROVE TypeOK'
      <3>1. JobsTyped' /\ job[w].seen \in Tally
        BY <2>w, <2>11, AdvanceTyped DEF UpsertCounts, At, JobsTyped, Job
      <3>2. counts' \in [Item -> Tally]
        BY <2>11, <3>1 DEF TypeOK, UpsertCounts
      <3> QED
        BY <2>11, <3>1, <3>2 DEF TypeOK, JobsTyped, UpsertCounts, At, ghosts, env
    <2>12. ASSUME NEW w \in Worker, Notify(w) PROVE TypeOK'
      <3>1. JobsTyped'
        BY <2>w, <2>12, AdvanceTyped DEF Notify, At
      <3>2. notes' \in [Item -> Nat]
        <4>1. notes \in [Item -> Nat] /\ job[w].item \in Item
          BY <2>w, <2>12 DEF TypeOK, JobsTyped, Notify, At
        <4>2. \/ notes' = [notes EXCEPT ![job[w].item] = @ + 1]
              \/ notes' = notes
          BY <2>12 DEF Notify
        <4> QED
          BY <4>1, <4>2
      <3> QED
        BY <2>12, <3>1, <3>2 DEF TypeOK, JobsTyped, Notify, At, ghosts, env
    <2>13. ASSUME NEW w \in Worker, Publish(w) PROVE TypeOK'
      <3>1. JobsTyped' /\ job[w].item \in Item
        BY <2>w, <2>13, AdvanceTyped DEF Publish, At, JobsTyped
      <3> QED
        BY <2>13, <3>1 DEF TypeOK, JobsTyped, Publish, At, store, env
    <2>14. ASSUME NEW w \in Worker, Return(w) PROVE TypeOK'
      <3>1. JobsTyped' /\ job[w].item \in Item
        BY <2>w, <2>14, StopTyped DEF Return, At, JobsTyped
      <3> QED
        BY <2>14, <3>1 DEF TypeOK, JobsTyped, Return, At, store, env
    <2>15. ASSUME NEW w \in Worker, FailAndReturn(w) PROVE TypeOK'
      <3>1. JobsTyped'
        BY <2>w, <2>15, StopTyped DEF FailAndReturn
      <3> QED
        BY <2>15, <3>1 DEF TypeOK, JobsTyped, FailAndReturn, At, store, ghosts
    <2>16. ASSUME NEW w \in Worker, FailAndContinue(w) PROVE TypeOK'
      <3>1. job[w].step # "idle" /\ \E t \in Steps : Goto(w, t)
        BY <2>16 DEF FailAndContinue, RecountSteps, Advance, After
      <3>2. JobsTyped'
        BY <2>w, <3>1, GotoTyped
      <3> QED
        BY <2>16, <3>2 DEF TypeOK, JobsTyped, FailAndContinue, At, store, ghosts
    <2>17. ASSUME NEW f \in FollowThread, NEW p \in Person, NEW add \in BOOLEAN,
                  ChangeFollow(f, p, add)
           PROVE  TypeOK'
      BY <2>17 DEF TypeOK, ChangeFollow, FollowJob, FollowSteps, At, store, ghosts
    <2>18. ASSUME NEW f \in FollowThread, FollowStep(f) \/ FollowFails(f)
           PROVE  TypeOK'
      <3>1. CASE Subscribe(f)
        BY <3>1 DEF TypeOK, Subscribe, FollowGoto, FollowJob, FollowSteps, At,
           store, ghosts, env
      <3>2. CASE RecomputePin(f)
        BY <3>2 DEF TypeOK, RecomputePin, ShouldPinAuthor, FollowJob, FollowSteps,
           At, store, ghosts, env
      <3>3. CASE PinPosts(f)
        BY <3>3 DEF TypeOK, PinPosts, SetPinned, Access, FollowGoto, FollowJob,
           FollowSteps, At, ghosts, env
      <3>4. CASE PinLikes(f)
        BY <2>0, <3>4 DEF TypeOK, PinLikes, SetPinned, Access, At, ghosts, env
      <3>5. CASE FollowFails(f)
        BY <2>0, <3>5 DEF TypeOK, FollowFails, At, store, ghosts
      <3> QED
        BY <2>18, <3>1, <3>2, <3>3, <3>4, <3>5 DEF FollowStep
    <2>19. CASE EvictStep
      <3>1. cas \subseteq Item => Cardinality(cas) \in Nat
        BY FS_Subset, FS_CardinalityType
      <3>2. CASE EvictStart
        BY <3>1, <3>2 DEF TypeOK, EvictStart, IdleEvict, EvictJob, EvictSteps, At,
           store, ghosts, env
      <3>3. CASE EvictBatch
        <4>1. evict' \in EvictJob /\ evict'.step # "forget"
          <5>1. \A B \in Batches : B \subseteq Item
            BY DEF Batches, Loose
          <5>2. \/ \E B \in SUBSET Item :
                       evict' = [evict EXCEPT !.step = "delete", !.batch = B]
                \/ evict' = IdleEvict
            BY <3>3, <5>1 DEF EvictBatch
          <5> QED
            BY <2>0, <5>2 DEF TypeOK, EvictJob, EvictSteps
        <4> QED
          BY <3>3, <4>1 DEF TypeOK, EvictBatch, At, store, ghosts, env
      <3>4. CASE EvictDelete
        <4>1. PICK i \in evict.batch :
                  evict' = [evict EXCEPT !.step = "forget", !.cur = i,
                                         !.batch = @ \ {i}]
          BY <3>4 DEF EvictDelete
        <4>2. evict' \in EvictJob /\ evict'.cur \in Item
          BY <4>1 DEF TypeOK, EvictJob, EvictSteps
        <4>3. cas' \subseteq Item /\ faults' \in Nat
          BY <3>4 DEF TypeOK, EvictDelete
        <4> QED
          BY <3>4, <4>2, <4>3 DEF TypeOK, EvictDelete, At, ghosts
      <3>5. CASE EvictForget
        BY <3>5 DEF TypeOK, EvictForget, Access, EvictJob, EvictSteps, At, ghosts, env
      <3>6. CASE EvictResize
        <4>1. evict' \in EvictJob /\ evict'.step # "forget"
          BY <2>0, <3>1, <3>6 DEF TypeOK, EvictResize, EvictJob, EvictSteps
        <4> QED
          BY <3>6, <4>1 DEF TypeOK, EvictResize, At, store, ghosts, env
      <3>7. CASE EvictFails
        <4>1. evict' \in EvictJob /\ evict'.step # "forget"
          BY <2>0, <3>7 DEF TypeOK, EvictFails, EvictJob, EvictSteps
        <4> QED
          BY <3>7, <4>1 DEF TypeOK, EvictFails, At, store, ghosts
      <3> QED
        BY <2>19, <3>2, <3>3, <3>4, <3>5, <3>6, <3>7 DEF EvictStep
    <2>20. CASE CrashAndRestart
      BY <2>0, <2>20 DEF TypeOK, CrashAndRestart, Backfilled, Access, At, ghosts
    <2>21. CASE UNCHANGED vars
      BY <2>21 DEF TypeOK, At, vars
    <2> QED
      BY <2>1, <2>2, <2>3, <2>4, <2>5, <2>6, <2>7, <2>9, <2>10, <2>11,
         <2>12, <2>13, <2>14, <2>15, <2>16, <2>17, <2>18, <2>19, <2>20, <2>21
      DEF Next, WorkerStep
  <1> QED
    BY <1>1, <1>2, PTL DEF Spec

-----------------------------------------------------------------------------
(* How the job of a worker changes.                                        *)

\* Worker w goes from its step to a later step t of the same call.
Moves(w, t) ==
    /\ Leads(job[w].item, job[w].origin, job[w].step, t)
    /\ job' = [job EXCEPT ![w].step = t]

\* Advancing is moving along the call's step relation.
LEMMA AdvanceMoves ==
    ASSUME NEW w \in Worker, Advance(w)
    PROVE  \E t \in Steps : Moves(w, t)
  BY DEF Advance, After, Goto, Moves

\* What a move changes of the job function.
LEMMA MovesJob ==
    ASSUME TypeOK, NEW w \in Worker, NEW t \in Steps,
           job' = [job EXCEPT ![w].step = t]
    PROVE  /\ job'[w].step = t
           /\ \A v \in Worker : /\ job'[v].item = job[v].item
                                /\ job'[v].origin = job[v].origin
                                /\ job'[v].pin = job[v].pin
                                /\ job'[v].seen = job[v].seen
           /\ \A v \in Worker \ {w} : job'[v].step = job[v].step
  <1>1. job[w] \in Job /\ job' = [job EXCEPT ![w] = [job[w] EXCEPT !.step = t]]
    BY DEF TypeOK
  <1> QED
    BY <1>1 DEF TypeOK, Job

\* Replacing the whole job of a worker.
LEMMA ReplaceJob ==
    ASSUME TypeOK, NEW w \in Worker, NEW j, job' = [job EXCEPT ![w] = j]
    PROVE  /\ job'[w] = j
           /\ \A v \in Worker \ {w} : job'[v] = job[v]
  BY DEF TypeOK

-----------------------------------------------------------------------------
(* Own content is kept.                                                    *)

\* Items of local authors are never unpinned, hence never in a batch; and a
\* local call past its CasPut has its file in the store.
OwnJob(j) ==
    /\ j.step = "check" => j.origin = "remote"
    /\ j.step = "publish" => j.origin = "local"
    /\ j.origin = "local" => /\ j.step # "idle" /\ AuthorOf[j.item] \in Local
                             /\ j.step # "put" => j.item \in cas
    /\ j.step = "target" => AuthorOf[j.item] \notin Local
    /\ j.step = "track" /\ AuthorOf[j.item] \in Local => j.pin = TRUE

OwnFollow(g) == g.step \in {"posts", "likes"} /\ g.who \in Local => g.pin = TRUE

OwnInv ==
    /\ \A i \in Item : AuthorOf[i] \in Local => access[i] # "loose"
    /\ \A i \in evict.batch : AuthorOf[i] \notin Local
    /\ \A w \in Worker : OwnJob(job[w])
    /\ \A f \in FollowThread : OwnFollow(follow[f])
    /\ \A i \in published : AuthorOf[i] \in Local /\ i \in cas

\* Idle threads owe nothing.
LEMMA OwnIdle == OwnJob(IdleJob) /\ OwnFollow(IdleFollow)
  BY DEF OwnJob, OwnFollow, IdleJob, IdleFollow

\* A step of worker w that leaves what other workers rely on alone.
LEMMA OwnWorkers ==
    ASSUME TypeOK, OwnInv, NEW w \in Worker, cas \subseteq cas', OwnJob(job[w])',
           \A v \in Worker \ {w} : job'[v].item = job[v].item
                                   /\ job'[v].origin = job[v].origin
                                   /\ job'[v].pin = job[v].pin
                                   /\ job'[v].step = job[v].step
    PROVE  \A v \in Worker : OwnJob(job[v])'
  BY DEF OwnInv, OwnJob

\* A move to a step that needs no more than the file being stored.
LEMMA OwnMove ==
    ASSUME TypeOK, OwnInv, NEW w \in Worker, NEW t \in Steps, Moves(w, t),
           t \notin {"target", "track"}, cas \subseteq cas',
           job[w].step = "put" => job[w].item \in cas'
    PROVE  \A v \in Worker : OwnJob(job[v])'
  <1>1. /\ job'[w].step = t
        /\ \A v \in Worker : /\ job'[v].item = job[v].item
                             /\ job'[v].origin = job[v].origin
                             /\ job'[v].pin = job[v].pin
        /\ \A v \in Worker \ {w} : job'[v].step = job[v].step
    BY MovesJob DEF Moves
  <1>2. /\ t \notin {"check", "idle"} /\ job[w].step # "idle"
        /\ t = "put" => job[w].step = "check"
        /\ t = "publish" => job[w].origin = "local"
    BY LeadsFacts DEF Moves
  <1>3. OwnJob(job[w])'
    BY <1>1, <1>2 DEF OwnInv, OwnJob
  <1> QED
    BY <1>1, <1>3, OwnWorkers

\* The file of everything published under an own identity stays in the content
\* store: what checkAndEvict deletes is never own content.
THEOREM OwnContentKeptTheorem == Spec => []OwnContentKept
  <1>1. Init => OwnInv
    BY OwnIdle DEF Init, OwnInv, IdleEvict
  <1>2. TypeOK /\ OwnInv /\ [Next]_vars => OwnInv'
    <2> SUFFICES ASSUME TypeOK, OwnInv, [Next]_vars PROVE OwnInv'
      OBVIOUS
    <2> USE ConstantsAssumption
    <2>1. ASSUME NEW w \in Worker, NEW i \in Item, HandleMessage(w, i)
          PROVE  OwnInv'
      <3> DEFINE j == [IdleJob EXCEPT !.step = "check", !.item = i,
                                      !.origin = "remote"]
      <3>1. job' = [job EXCEPT ![w] = j]
        BY <2>1 DEF HandleMessage, Start
      <3>2. job'[w] = j /\ \A v \in Worker \ {w} : job'[v] = job[v]
        BY <3>1, ReplaceJob
      <3>3. OwnJob(job[w])'
        BY <3>2 DEF OwnJob, IdleJob
      <3>4. UNCHANGED <<cas, access, published, evict, follow>>
        BY <2>1 DEF HandleMessage, store, ghosts
      <3> QED
        BY <3>2, <3>3, <3>4, OwnWorkers DEF OwnInv, OwnFollow
    <2>2. ASSUME NEW w \in Worker, NEW i \in Item, CreateLocal(w, i)
          PROVE  OwnInv'
      <3> DEFINE j == [IdleJob EXCEPT !.step = "put", !.item = i,
                                      !.origin = "local"]
      <3>1. job' = [job EXCEPT ![w] = j]
        BY <2>2 DEF CreateLocal, Start
      <3>2. job'[w] = j /\ \A v \in Worker \ {w} : job'[v] = job[v]
        BY <3>1, ReplaceJob
      <3>3. OwnJob(job[w])'
        BY <2>2, <3>2 DEF OwnJob, IdleJob, CreateLocal
      <3>4. UNCHANGED <<cas, access, published, evict, follow>>
        BY <2>2 DEF CreateLocal, store
      <3> QED
        BY <3>2, <3>3, <3>4, OwnWorkers DEF OwnInv, OwnFollow
    <2>3. ASSUME NEW w \in Worker, DedupCheck(w) PROVE OwnInv'
      <3>1. UNCHANGED <<cas, access, published, evict, follow>>
        BY <2>3 DEF DedupCheck, store, ghosts
      <3>2. CASE Duplicate(job[w].item)
        <4>1. job' = [job EXCEPT ![w].step = "done"]
          BY <2>3, <3>2 DEF DedupCheck, Goto
        <4>2. /\ job'[w].step = "done"
              /\ \A v \in Worker : /\ job'[v].item = job[v].item
                                   /\ job'[v].origin = job[v].origin
                                   /\ job'[v].pin = job[v].pin
              /\ \A v \in Worker \ {w} : job'[v].step = job[v].step
          BY <4>1, MovesJob DEF Steps
        <4>3. OwnJob(job[w])'
          BY <2>3, <3>1, <4>2 DEF OwnInv, OwnJob, DedupCheck, At
        <4> QED
          BY <3>1, <4>2, <4>3, OwnWorkers DEF OwnInv, OwnFollow
      <3>3. CASE ~Duplicate(job[w].item)
        <4>1. PICK t \in Steps : Moves(w, t)
          BY <2>3, <3>3, AdvanceMoves DEF DedupCheck
        <4>2. t = "put"
          BY <2>3, <4>1, LeadsFacts DEF DedupCheck, At, Moves
        <4> QED
          BY <2>3, <3>1, <4>1, <4>2, OwnMove DEF OwnInv, OwnFollow, DedupCheck, At
      <3> QED
        BY <3>2, <3>3
    <2>4. ASSUME NEW w \in Worker, CasPut(w) PROVE OwnInv'
      <3>1. PICK t \in Steps : Moves(w, t)
        BY <2>4, AdvanceMoves DEF CasPut
      <3>2. t = "insert"
        BY <2>4, <3>1, LeadsFacts DEF CasPut, At, Moves
      <3>3. /\ UNCHANGED <<access, published, evict, follow>>
            /\ cas' = cas \cup {job[w].item}
        BY <2>4 DEF CasPut, ghosts
      <3> QED
        BY <3>1, <3>2, <3>3, OwnMove DEF OwnInv, OwnFollow
    <2>5. ASSUME NEW w \in Worker, InsertRow(w) \/ InsertTx(w) PROVE OwnInv'
      <3>1. UNCHANGED <<cas, access, published, evict, follow>>
        BY <2>5 DEF InsertRow, InsertTx, ghosts
      <3>2. CASE PrimaryKeyFree(job[w].item)
        <4>1. PICK t \in Steps : Moves(w, t)
          BY <2>5, <3>2, AdvanceMoves DEF InsertRow, InsertTx
        <4>2. t = "policy" /\ job[w].step = "insert"
          BY <2>5, <4>1, LeadsFacts DEF InsertRow, InsertTx, At, Moves
        <4> QED
          BY <3>1, <4>1, <4>2, OwnMove DEF OwnInv, OwnFollow
      <3>3. CASE ~PrimaryKeyFree(job[w].item)
        <4>1. job' = [job EXCEPT ![w] = IdleJob]
          BY <2>5, <3>3 DEF InsertRow, InsertTx, Stop
        <4>2. job'[w] = IdleJob /\ \A v \in Worker \ {w} : job'[v] = job[v]
          BY <4>1, ReplaceJob
        <4>3. OwnJob(job[w])'
          BY <4>2 DEF OwnJob, IdleJob
        <4> QED
          BY <3>1, <4>2, <4>3, OwnWorkers DEF OwnInv, OwnFollow
      <3> QED
        BY <3>2, <3>3
    <2>6. ASSUME NEW w \in Worker, ReadPolicy(w) PROVE OwnInv'
      <3>1. UNCHANGED <<cas, access, published, evict, follow>>
        BY <2>6 DEF ReadPolicy, store, ghosts
      <3> DEFINE i == job[w].item
                 pin == IF KindOf[i] = "dm" THEN ShouldPinDM(i)
                        ELSE ShouldPinAuthor(AuthorOf[i])
      <3>2. PICK t \in IF pin THEN {"track"} ELSE After(w, "policy") :
                job' = [job EXCEPT ![w] =
                            [job[w] EXCEPT !.pin = pin, !.step = t]]
        BY <2>6 DEF ReadPolicy
      <3>3. /\ job'[w] = [job[w] EXCEPT !.pin = pin, !.step = t]
            /\ \A v \in Worker \ {w} : job'[v] = job[v]
        BY <3>2, ReplaceJob
      <3>4. /\ job'[w].pin = pin /\ job'[w].step = t
            /\ job'[w].item = i /\ job'[w].origin = job[w].origin
        BY <3>3 DEF TypeOK, Job
      <3>5. AuthorOf[i] \in Local => pin = TRUE
        BY DEF ShouldPinDM, ShouldPinAuthor
      <3>6. t \in {"target", "track"}
        <4>1. ASSUME t \in After(w, "policy") PROVE t \in {"target", "track"}
          BY <4>1 DEF After, Leads, createPost, createReaction, sendDM, handlePost,
             handleResponse, handleReaction, handleDM, Store, UpdateReactionCount
        <4> QED
          BY <3>2, <4>1
      <3>7. t = "target" => ~pin
        BY <3>2
      <3>8. OwnJob(job[w])'
        BY <2>6, <3>1, <3>4, <3>5, <3>6, <3>7
        DEF OwnInv, OwnJob, ReadPolicy, At
      <3> QED
        BY <3>1, <3>3, <3>8, OwnWorkers DEF OwnInv, OwnFollow
    <2>7. ASSUME NEW w \in Worker, ReadTargetPolicy(w) PROVE OwnInv'
      <3>1. UNCHANGED <<cas, access, published, evict, follow>>
        BY <2>7 DEF ReadTargetPolicy, store, ghosts
      <3> DEFINE pin == TargetPinned(job[w].item)
      <3>2. PICK t \in After(w, "target") :
                job' = [job EXCEPT ![w] =
                            [job[w] EXCEPT !.pin = pin, !.step = t]]
        BY <2>7 DEF ReadTargetPolicy
      <3>3. /\ job'[w] = [job[w] EXCEPT !.pin = pin, !.step = t]
            /\ \A v \in Worker \ {w} : job'[v] = job[v]
        BY <3>2, ReplaceJob
      <3>4. /\ job'[w].step = t
            /\ job'[w].item = job[w].item /\ job'[w].origin = job[w].origin
        BY <3>3 DEF TypeOK, Job
      <3>5. t = "track"
        BY <3>2 DEF After, Leads, createPost, createReaction, sendDM, handlePost,
             handleResponse, handleReaction, handleDM, Store, UpdateReactionCount
      <3>6. OwnJob(job[w])'
        BY <2>7, <3>1, <3>4, <3>5 DEF OwnInv, OwnJob, ReadTargetPolicy, At
      <3> QED
        BY <3>1, <3>3, <3>6, OwnWorkers DEF OwnInv, OwnFollow
    <2>8. ASSUME NEW w \in Worker, Track(w) PROVE OwnInv'
      <3>1. UNCHANGED <<cas, published, evict, follow>>
        BY <2>8 DEF Track, ghosts
      <3>2. PICK t \in Steps : Moves(w, t)
        BY <2>8, AdvanceMoves DEF Track
      <3>3. t \notin {"target", "track"}
        BY <2>8, <3>2, LeadsFacts DEF Track, At, Moves
      <3>4. \A i \in Item : AuthorOf[i] \in Local => access'[i] # "loose"
        BY <2>8 DEF OwnInv, OwnJob, Track, At, TrackContentAccess, TypeOK
      <3> QED
        BY <2>8, <3>1, <3>2, <3>3, <3>4, OwnMove DEF OwnInv, OwnFollow, Track, At
    <2>9. ASSUME NEW w \in Worker, NEW s \in RecountSteps, NEW k \in Responses,
                 ReadCount(w, s, k)
          PROVE  OwnInv'
      <3>1. UNCHANGED <<cas, access, published, evict, follow>>
        BY <2>9 DEF ReadCount, store, ghosts
      <3>2. PICK t \in After(w, s) :
                job' = [job EXCEPT ![w] =
                            [job[w] EXCEPT !.seen = Observed(w, k), !.step = t]]
        BY <2>9 DEF ReadCount
      <3>3. /\ job'[w] = [job[w] EXCEPT !.seen = Observed(w, k), !.step = t]
            /\ \A v \in Worker \ {w} : job'[v] = job[v]
        BY <3>2, ReplaceJob
      <3>4. /\ job'[w].step = t
            /\ job'[w].item = job[w].item /\ job'[w].origin = job[w].origin
        BY <3>3 DEF TypeOK, Job
      <3>5. /\ t \notin {"idle", "check", "put", "target", "track"}
            /\ t = "publish" => job[w].origin = "local"
        BY <3>2, LeadsFacts DEF After, RecountSteps
      <3>6. OwnJob(job[w])'
        BY <2>9, <3>1, <3>4, <3>5 DEF OwnInv, OwnJob, ReadCount, At, RecountSteps
      <3> QED
        BY <3>1, <3>3, <3>6, OwnWorkers DEF OwnInv, OwnFollow
    <2>10. ASSUME NEW w \in Worker, UpsertCounts(w) \/ Notify(w) PROVE OwnInv'
      <3>1. UNCHANGED <<cas, access, published, evict, follow>>
        BY <2>10 DEF UpsertCounts, Notify, ghosts
      <3>2. PICK t \in Steps : Moves(w, t)
        BY <2>10, AdvanceMoves DEF UpsertCounts, Notify
      <3>3. t \notin {"target", "track"} /\ job[w].step # "put"
        BY <2>10, <3>2, LeadsFacts DEF UpsertCounts, Notify, At, Moves
      <3> QED
        BY <3>1, <3>2, <3>3, OwnMove DEF OwnInv, OwnFollow
    <2>11. ASSUME NEW w \in Worker, Publish(w) PROVE OwnInv'
      <3>1. /\ UNCHANGED <<cas, access, evict, follow>>
            /\ published' = published \cup {job[w].item}
        BY <2>11 DEF Publish, store
      <3>2. PICK t \in Steps : Moves(w, t)
        BY <2>11, AdvanceMoves DEF Publish
      <3>3. t \notin {"target", "track"} /\ job[w].step = "publish"
        BY <2>11, <3>2, LeadsFacts DEF Publish, At, Moves
      <3>4. job[w].item \in cas /\ AuthorOf[job[w].item] \in Local
        BY <3>3 DEF OwnInv, OwnJob
      <3> QED
        BY <3>1, <3>2, <3>3, <3>4, OwnMove DEF OwnInv, OwnFollow
    <2>12. ASSUME NEW w \in Worker, Return(w) \/ FailAndReturn(w) PROVE OwnInv'
      <3>1. UNCHANGED <<cas, access, published, evict, follow>>
        BY <2>12 DEF Return, FailAndReturn, store, ghosts
      <3>2. job' = [job EXCEPT ![w] = IdleJob]
        BY <2>12 DEF Return, FailAndReturn, Stop
      <3>3. job'[w] = IdleJob /\ \A v \in Worker \ {w} : job'[v] = job[v]
        BY <3>2, ReplaceJob
      <3>4. OwnJob(job[w])'
        BY <3>3 DEF OwnJob, IdleJob
      <3> QED
        BY <3>1, <3>3, <3>4, OwnWorkers DEF OwnInv, OwnFollow
    <2>13. ASSUME NEW w \in Worker, FailAndContinue(w) PROVE OwnInv'
      <3>1. UNCHANGED <<cas, access, published, evict, follow>>
        BY <2>13 DEF FailAndContinue, store, ghosts
      <3>2a. PICK s \in RecountSteps \cup {"check", "notify", "publish"} :
                \E t \in After(w, s) : job' = [job EXCEPT ![w].step = t]
        BY <2>13 DEF FailAndContinue, Advance, Goto, RecountSteps
      <3>2. PICK t \in After(w, s) : job' = [job EXCEPT ![w].step = t]
        BY <3>2a
      <3>3. /\ t \notin {"idle", "check", "target", "track"}
            /\ t = "publish" => job[w].origin = "local"
        BY <3>2, LeadsFacts DEF After, RecountSteps
      <3>4. /\ job'[w].step = t
            /\ \A v \in Worker : /\ job'[v].item = job[v].item
                                 /\ job'[v].origin = job[v].origin
                                 /\ job'[v].pin = job[v].pin
            /\ \A v \in Worker \ {w} : job'[v].step = job[v].step
        BY <3>2, MovesJob DEF After
      <3>5. OwnJob(job[w])'
        BY <2>13, <3>1, <3>3, <3>4
        DEF OwnInv, OwnJob, FailAndContinue, RecountSteps
      <3> QED
        BY <3>1, <3>4, <3>5, OwnWorkers DEF OwnInv, OwnFollow
    <2>14. ASSUME NEW f \in FollowThread, NEW p \in Person, NEW add \in BOOLEAN,
                  ChangeFollow(f, p, add)
           PROVE  OwnInv'
      BY <2>14 DEF OwnInv, OwnJob, OwnFollow, ChangeFollow, store, ghosts, TypeOK
    <2>15. ASSUME NEW f \in FollowThread, FollowStep(f) \/ FollowFails(f)
           PROVE  OwnInv'
      <3>1. CASE Subscribe(f)
        BY <3>1 DEF OwnInv, OwnJob, OwnFollow, Subscribe, FollowGoto, store,
           ghosts, TypeOK, FollowJob
      <3>2. CASE RecomputePin(f)
        <4>1. follow'[f].pin = ShouldPinAuthor(follow[f].who)
              /\ follow'[f].who = follow[f].who
              /\ \A g \in FollowThread \ {f} : follow'[g] = follow[g]
          BY <3>2 DEF RecomputePin, TypeOK, FollowJob
        <4>2. follow[f].who \in Local => follow'[f].pin = TRUE
          BY <4>1 DEF ShouldPinAuthor
        <4>3. \A g \in FollowThread : OwnFollow(follow[g])'
          BY <4>1, <4>2 DEF OwnInv, OwnFollow
        <4>4. UNCHANGED <<cas, access, evict, job, published>>
          BY <3>2 DEF RecomputePin, store, ghosts
        <4> QED
          BY <4>3, <4>4 DEF OwnInv, OwnJob
      <3>3. CASE PinPosts(f)
        <4>1. \A i \in Item : AuthorOf[i] \in Local => access'[i] # "loose"
          BY <3>3 DEF OwnInv, OwnFollow, PinPosts, SetPinned, PostsBy, TypeOK
        <4>2. \A g \in FollowThread : OwnFollow(follow'[g])
          BY <3>3 DEF OwnInv, OwnFollow, PinPosts, FollowGoto, TypeOK, FollowJob
        <4> QED
          BY <3>3, <4>1, <4>2 DEF OwnInv, OwnJob, OwnFollow, PinPosts, ghosts
      <3>4. CASE PinLikes(f)
        <4>1. \A i \in Item : AuthorOf[i] \in Local => access'[i] # "loose"
          BY <3>4 DEF OwnInv, OwnFollow, PinLikes, SetPinned, LikesBy, TypeOK
        <4>2. \A g \in FollowThread : OwnFollow(follow'[g])
          BY <3>4, OwnIdle DEF OwnInv, PinLikes, TypeOK
        <4> QED
          BY <3>4, <4>1, <4>2 DEF OwnInv, OwnJob, OwnFollow, PinLikes, ghosts
      <3>5. CASE FollowFails(f)
        <4>1. \A g \in FollowThread : OwnFollow(follow'[g])
          BY <3>5, OwnIdle DEF OwnInv, FollowFails, TypeOK
        <4> QED
          BY <3>5, <4>1 DEF OwnInv, OwnJob, OwnFollow, FollowFails, store, ghosts
      <3> QED
        BY <2>15, <3>1, <3>2, <3>3, <3>4, <3>5 DEF FollowStep
    <2>16. CASE EvictStep
      <3>1. CASE EvictStart \/ EvictResize
        <4>a. ASSUME EvictStart PROVE evict'.batch = {}
          BY <4>a DEF EvictStart, IdleEvict
        <4>b. ASSUME EvictResize PROVE evict'.batch \in {{}, evict.batch}
          <5>1. CASE evict' = IdleEvict
            BY <5>1 DEF IdleEvict
          <5>2. CASE evict' = [evict EXCEPT !.step = "batch", !.size = Cardinality(cas)]
            BY <5>2 DEF TypeOK, EvictJob
          <5> QED
            BY <4>b, <5>1, <5>2 DEF EvictResize
        <4>1. \A i \in evict'.batch : AuthorOf[i] \notin Local
          BY <3>1, <4>a, <4>b DEF OwnInv
        <4>2. UNCHANGED <<cas, access, published, job, follow>>
          BY <3>1 DEF EvictStart, EvictResize, store, ghosts
        <4> QED
          BY <4>1, <4>2 DEF OwnInv, OwnJob, OwnFollow
      <3>2. CASE EvictBatch
        <4>1. evict'.batch = {} \/ evict'.batch \subseteq Loose
          <5>1. CASE evict' = IdleEvict
            BY <5>1 DEF IdleEvict
          <5>2. ASSUME NEW B \in Batches,
                       evict' = [evict EXCEPT !.step = "delete", !.batch = B]
                PROVE  evict'.batch \subseteq Loose
            BY <5>2 DEF Batches, TypeOK, EvictJob
          <5> QED
            BY <3>2, <5>1, <5>2 DEF EvictBatch
        <4>2. \A i \in evict'.batch : AuthorOf[i] \notin Local
          BY <4>1 DEF OwnInv, Loose
        <4>3. UNCHANGED <<cas, access, published, job, follow>>
          BY <3>2 DEF EvictBatch, store, ghosts
        <4> QED
          BY <4>2, <4>3 DEF OwnInv, OwnJob, OwnFollow
      <3>3. CASE EvictDelete
        <4>1. PICK i \in evict.batch :
                  /\ evict' = [evict EXCEPT !.step = "forget", !.cur = i,
                                            !.batch = @ \ {i}]
                  /\ cas \ {i} \subseteq cas'
          BY <3>3 DEF EvictDelete
        <4>2. i \in Item /\ AuthorOf[i] \notin Local
          BY DEF OwnInv, TypeOK, EvictJob
        <4>3. \A b \in evict'.batch : AuthorOf[b] \notin Local
          BY <4>1 DEF OwnInv, TypeOK, EvictJob
        <4>4. UNCHANGED <<access, published, job, follow>>
          BY <3>3 DEF EvictDelete, ghosts
        <4>5. published \subseteq cas'
          BY <4>1, <4>2 DEF OwnInv
        <4> QED
          BY <4>1, <4>2, <4>3, <4>4, <4>5 DEF OwnInv, OwnJob, OwnFollow
      <3>4. CASE EvictForget
        BY <3>4 DEF OwnInv, OwnJob, OwnFollow, EvictForget, TypeOK, EvictJob, ghosts
      <3>5. CASE EvictFails
        <4>1. evict'.batch \in {{}, evict.batch}
          <5>1. CASE evict' = IdleEvict
            BY <5>1 DEF IdleEvict
          <5>2. CASE evict' # IdleEvict
            BY <3>5, <5>2 DEF EvictFails, TypeOK, EvictJob
          <5> QED
            BY <5>1, <5>2
        <4>2. UNCHANGED <<cas, rows, access, subs, published, job, follow>>
          BY <3>5 DEF EvictFails, store, ghosts
        <4> QED
          BY <4>1, <4>2 DEF OwnInv, OwnJob, OwnFollow
      <3> QED
        BY <2>16, <3>1, <3>2, <3>3, <3>4, <3>5 DEF EvictStep
    <2>17. CASE CrashAndRestart
      <3>1. \A i \in Item : AuthorOf[i] \in Local => access'[i] # "loose"
        BY <2>17 DEF OwnInv, CrashAndRestart, Backfilled
      <3> QED
        BY <2>17, <3>1, OwnIdle
        DEF OwnInv, OwnJob, OwnFollow, CrashAndRestart, IdleEvict, IdleJob, ghosts
    <2>18. CASE UNCHANGED vars
      BY <2>18 DEF OwnInv, OwnJob, OwnFollow, vars
    <2>19. ASSUME NEW w \in Worker,
                  ReadLikes(w) \/ ReadReplies(w) \/ ReadReposts(w)
           PROVE  OwnInv'
      BY <2>9, <2>19 DEF ReadLikes, ReadReplies, ReadReposts, RecountSteps, Responses
    <2> QED
      BY <2>1, <2>2, <2>3, <2>4, <2>5, <2>6, <2>7, <2>8, <2>10, <2>11, <2>12,
         <2>13, <2>14, <2>15, <2>16, <2>17, <2>18, <2>19
      DEF Next, WorkerStep
  <1>3. OwnInv => OwnContentKept
    BY DEF OwnInv, OwnContentKept
  <1> QED
    BY <1>1, <1>2, <1>3, TypeCorrect, PTL DEF Spec

-----------------------------------------------------------------------------
(* Posts are notified about once, and a handled post is stored.            *)

Early == {"idle", "check", "put", "insert"}
Unnotified == {"policy", "target", "track", "notify"}

\* A call past its insert has its row; until it has notified, nobody has.
PostJob(j) ==
    j.step \notin Early /\ IsPost(j.item) =>
        /\ j.item \in rows
        /\ j.step \in Unnotified => notes[j.item] = 0

\* The insert admits one call per post, so two calls never both get to notify.
Exclusive(j, k) ==
    ~ (/\ j.item = k.item /\ IsPost(j.item)
       /\ j.step \in Unnotified /\ k.step \in Unnotified)

PostInv ==
    /\ \A w \in Worker : PostJob(job[w])
    /\ \A v, w \in Worker : v # w => Exclusive(job[v], job[w])
    /\ \A i \in Item : IsPost(i) => notes[i] \in {0, 1} /\ (notes[i] = 1 => i \in rows)
    /\ HandledPostStored

\* Worker w goes on within its call, or its call ends, or it starts another.
Plain(w) ==
    \/ job'[w].step \in Early
    \/ /\ job'[w].item = job[w].item
       /\ IsPost(job[w].item) =>
            /\ job[w].item \in rows
            /\ job'[w].step \in Unnotified => job[w].step \in Unnotified

\* A plain step of one worker that adds no notification keeps the invariant.
LEMMA PlainStep ==
    ASSUME TypeOK, PostInv, NEW w \in Worker, Plain(w), rows \subseteq rows',
           notes' = notes, HandledPostStored',
           \A v \in Worker \ {w} : job'[v].item = job[v].item
                                   /\ job'[v].step = job[v].step
    PROVE  PostInv'
  <1>1. \A v \in Worker \ {w} : PostJob(job[v])'
    BY DEF PostInv, PostJob, IsPost
  <1>2. PostJob(job[w])'
    BY DEF PostInv, PostJob, Plain, IsPost, Early, Unnotified
  <1>3. \A u, v \in Worker : u # v => Exclusive(job'[u], job'[v])
    <2> SUFFICES ASSUME NEW u \in Worker, NEW v \in Worker, u # v
                 PROVE  Exclusive(job'[u], job'[v])
      OBVIOUS
    <2>1. Exclusive(job[u], job[v])
      BY DEF PostInv
    <2>2. CASE w \notin {u, v}
      BY <2>1, <2>2 DEF Exclusive
    <2>3. CASE w \in {u, v}
      BY <2>1, <2>3 DEF Exclusive, Plain, Early, Unnotified
    <2> QED
      BY <2>2, <2>3
  <1> QED
    BY <1>1, <1>2, <1>3 DEF PostInv

\* Any move but the one from the insert is plain.
LEMMA PlainMove ==
    ASSUME TypeOK, PostInv, NEW w \in Worker, NEW t,
           Leads(job[w].item, job[w].origin, job[w].step, t),
           job[w].step # "insert",
           job'[w].item = job[w].item, job'[w].step = t
    PROVE  Plain(w)
  <1> DEFINE s == job[w].step
  <1>0. /\ s \notin {"idle", "insert"}
        /\ s \in {"check", "put"} => t \in {"put", "insert"}
        /\ IsPost(job[w].item) /\ t \in Unnotified => s \in Unnotified
    BY LeadsFacts DEF Unnotified
  <1>1. CASE s \in {"check", "put"}
    BY <1>0, <1>1 DEF Plain, Early
  <1>2. CASE s \notin {"check", "put"}
    <2>1. IsPost(job[w].item) => job[w].item \in rows
      BY <1>0, <1>2 DEF PostInv, PostJob, Early
    <2> QED
      BY <1>0, <2>1 DEF Plain
  <1> QED
    BY <1>1, <1>2

\* No post, reply or repost causes two notifications, and a post for which
\* handlePost returned nil is in the posts table.
THEOREM PostsNotifiedOnce == Spec => [](PostNotifiedOnce /\ HandledPostStored)
  <1>1. Init => PostInv
    BY DEF Init, PostInv, PostJob, Exclusive, HandledPostStored, IdleJob, Early,
           Unnotified
  <1>2. TypeOK /\ PostInv /\ [Next]_vars => PostInv'
    <2> SUFFICES ASSUME TypeOK, PostInv, [Next]_vars PROVE PostInv'
      OBVIOUS
    <2> USE ConstantsAssumption
    <2>h. ASSUME rows \subseteq rows', UNCHANGED handled
          PROVE  HandledPostStored'
      BY <2>h DEF PostInv, HandledPostStored, IsPost
    <2>j. ASSUME UNCHANGED <<job, rows, notes, handled>> PROVE PostInv'
      BY <2>h, <2>j DEF PostInv, PostJob, IsPost
    <2>1. ASSUME NEW w \in Worker, NEW i \in Item,
                 HandleMessage(w, i) \/ CreateLocal(w, i)
          PROVE  PostInv'
      <3>1. UNCHANGED <<rows, notes, handled>>
        BY <2>1 DEF HandleMessage, CreateLocal, store, ghosts
      <3>2. PICK j : job' = [job EXCEPT ![w] = j] /\ j.step \in Early
        <4>1. ASSUME NEW o, NEW s \in {"check", "put"}, Start(w, i, o, s)
              PROVE \E j : job' = [job EXCEPT ![w] = j] /\ j.step \in Early
          <5>1. [IdleJob EXCEPT !.step = s, !.item = i, !.origin = o].step = s
            BY DEF IdleJob
          <5> QED
            BY <4>1, <5>1 DEF Start, Early
        <4> QED
          BY <2>1, <4>1 DEF HandleMessage, CreateLocal
      <3>3. job'[w] = j /\ \A v \in Worker \ {w} : job'[v] = job[v]
        BY <3>2, ReplaceJob
      <3> QED
        BY <2>h, <3>1, <3>2, <3>3, PlainStep DEF Plain
    <2>2. ASSUME NEW w \in Worker, NEW t \in Steps, Moves(w, t),
                 job[w].step # "insert", UNCHANGED <<rows, notes, handled>>
          PROVE  PostInv'
      <3>1. /\ job'[w].step = t
            /\ \A v \in Worker : job'[v].item = job[v].item
            /\ \A v \in Worker \ {w} : job'[v].step = job[v].step
        BY <2>2, MovesJob DEF Moves
      <3>2. Plain(w)
        BY <2>2, <3>1, PlainMove DEF Moves
      <3> QED
        BY <2>2, <2>h, <3>1, <3>2, PlainStep
    <2>3. ASSUME NEW w \in Worker, DedupCheck(w) PROVE PostInv'
      <3>1. UNCHANGED <<rows, notes, handled>>
        BY <2>3 DEF DedupCheck, store, ghosts
      <3>2. CASE Duplicate(job[w].item)
        <4>1. job' = [job EXCEPT ![w].step = "done"]
          BY <2>3, <3>2 DEF DedupCheck, Goto
        <4>2. /\ job'[w].step = "done"
              /\ \A v \in Worker : job'[v].item = job[v].item
              /\ \A v \in Worker \ {w} : job'[v].step = job[v].step
          BY <4>1, MovesJob DEF Steps
        <4>3. Plain(w)
          BY <3>2, <4>2 DEF Plain, Duplicate, Unnotified
        <4> QED
          BY <2>h, <3>1, <4>2, <4>3, PlainStep
      <3>3. CASE ~Duplicate(job[w].item)
        BY <2>2, <2>3, <3>1, <3>3, AdvanceMoves DEF DedupCheck, At
      <3> QED
        BY <3>2, <3>3
    <2>4. ASSUME NEW w \in Worker, CasPut(w) \/ Track(w) \/ UpsertCounts(w) \/ Publish(w)
          PROVE  PostInv'
      BY <2>2, <2>4, AdvanceMoves
      DEF CasPut, Track, UpsertCounts, Publish, At, store, ghosts
    <2>5. ASSUME NEW w \in Worker, InsertRow(w) \/ InsertTx(w) PROVE PostInv'
      <3>1. UNCHANGED <<notes, handled>> /\ job[w].step = "insert"
        BY <2>5 DEF InsertRow, InsertTx, ghosts, At
      <3>2. CASE PrimaryKeyFree(job[w].item)
        <4> DEFINE i == job[w].item
        <4>1. i \in Item /\ rows' = InsertIgnoring(i, rows)
          BY <2>5, <3>1, <3>2 DEF InsertRow, InsertTx, TypeOK, At
        <4>2. rows \subseteq rows' /\ (IsPost(i) => i \in rows' /\ i \notin rows)
          BY <3>2, <4>1 DEF InsertIgnoring, IsPost, PostKinds, PrimaryKeyFree
        <4>3. PICK t \in Steps : Moves(w, t)
          BY <2>5, <3>2, AdvanceMoves DEF InsertRow, InsertTx
        <4>4. /\ job'[w].step = t
              /\ \A v \in Worker : job'[v].item = job[v].item
              /\ \A v \in Worker \ {w} : job'[v].step = job[v].step
          BY <4>3, MovesJob DEF Moves
        <4>5. IsPost(i) => notes[i] = 0
          BY <4>1, <4>2 DEF PostInv
        <4>6. \A v \in Worker : PostJob(job[v])'
          BY <3>1, <4>2, <4>4, <4>5 DEF PostInv, PostJob, IsPost
        <4>7. \A v \in Worker \ {w} :
                 IsPost(i) /\ job[v].item = i => job[v].step \notin Unnotified
          BY <4>2 DEF PostInv, PostJob, Early, Unnotified
        <4>8. \A u, v \in Worker : u # v => Exclusive(job'[u], job'[v])
          BY <4>4, <4>7 DEF PostInv, Exclusive
        <4> QED
          BY <2>h, <3>1, <4>2, <4>6, <4>8 DEF PostInv
      <3>3. CASE ~PrimaryKeyFree(job[w].item)
        <4>1. job' = [job EXCEPT ![w] = IdleJob] /\ UNCHANGED rows
          BY <2>5, <3>3 DEF InsertRow, InsertTx, Stop
        <4>2. job'[w] = IdleJob /\ \A v \in Worker \ {w} : job'[v] = job[v]
          BY <4>1, ReplaceJob
        <4> QED
          BY <2>h, <3>1, <4>1, <4>2, PlainStep DEF Plain, IdleJob, Early
      <3> QED
        BY <3>2, <3>3
    <2>6. ASSUME NEW w \in Worker, NEW j, NEW t, job[w].step # "insert",
                 Leads(job[w].item, job[w].origin, job[w].step, t),
                 job' = [job EXCEPT ![w] = j], j.item = job[w].item, j.step = t,
                 UNCHANGED <<rows, notes, handled>>
          PROVE  PostInv'
      <3>1. job'[w] = j /\ \A v \in Worker \ {w} : job'[v] = job[v]
        BY <2>6, ReplaceJob
      <3>2. Plain(w)
        BY <2>6, <3>1, PlainMove
      <3> QED
        BY <2>6, <2>h, <3>1, <3>2, PlainStep
    <2>7. ASSUME NEW w \in Worker, ReadPolicy(w) PROVE PostInv'
      <3> DEFINE i == job[w].item
                 pin == IF KindOf[i] = "dm" THEN ShouldPinDM(i)
                        ELSE ShouldPinAuthor(AuthorOf[i])
      <3>1. PICK t \in IF pin THEN {"track"} ELSE After(w, "policy") :
                job' = [job EXCEPT ![w] = [job[w] EXCEPT !.pin = pin, !.step = t]]
        BY <2>7 DEF ReadPolicy, TypeOK
      <3> DEFINE j == [job[w] EXCEPT !.pin = pin, !.step = t]
      <3>2. j.item = i /\ j.step = t
        BY DEF TypeOK, Job
      <3>3. job[w].step = "policy" /\ UNCHANGED <<rows, notes, handled>>
        BY <2>7 DEF ReadPolicy, At, store, ghosts
      <3>4. job'[w] = j /\ \A v \in Worker \ {w} : job'[v] = job[v]
        BY <3>1, ReplaceJob
      <3>5. IsPost(i) => i \in rows
        BY <3>3 DEF PostInv, PostJob, Early
      <3>6. Plain(w)
        BY <3>2, <3>3, <3>4, <3>5 DEF Plain, Unnotified
      <3> QED
        BY <2>h, <3>3, <3>4, <3>6, PlainStep
    <2>8. ASSUME NEW w \in Worker, ReadTargetPolicy(w) PROVE PostInv'
      <3> DEFINE pin == TargetPinned(job[w].item)
      <3>1. PICK t \in After(w, "target") :
                job' = [job EXCEPT ![w] = [job[w] EXCEPT !.pin = pin, !.step = t]]
        BY <2>8 DEF ReadTargetPolicy, TypeOK
      <3> DEFINE j == [job[w] EXCEPT !.pin = pin, !.step = t]
      <3>2. j.item = job[w].item /\ j.step = t
        BY DEF TypeOK, Job
      <3>3. job[w].step = "target" /\ UNCHANGED <<rows, notes, handled>>
        BY <2>8 DEF ReadTargetPolicy, At, store, ghosts
      <3>4. Leads(job[w].item, job[w].origin, "target", t)
        BY <3>1 DEF After
      <3>5. job' = [job EXCEPT ![w] = j]
        BY <3>1
      <3> HIDE DEF j
      <3> QED
        BY <2>6, <3>2, <3>3, <3>4, <3>5
    <2>9. ASSUME NEW w \in Worker, ReadLikes(w) \/ ReadReplies(w) \/ ReadReposts(w)
          PROVE  PostInv'
      <3>1. PICK s \in RecountSteps, k \in Responses : ReadCount(w, s, k)
        BY <2>9 DEF ReadLikes, ReadReplies, ReadReposts, RecountSteps, Responses
      <3>2. PICK t \in After(w, s) :
                job' = [job EXCEPT ![w] =
                            [job[w] EXCEPT !.seen = Observed(w, k), !.step = t]]
        BY <3>1 DEF ReadCount, TypeOK
      <3> DEFINE j == [job[w] EXCEPT !.seen = Observed(w, k), !.step = t]
      <3>3. j.item = job[w].item /\ j.step = t
        BY DEF TypeOK, Job
      <3>4. job[w].step = s /\ s # "insert" /\ UNCHANGED <<rows, notes, handled>>
        BY <3>1 DEF ReadCount, At, RecountSteps, store, ghosts
      <3>5. Leads(job[w].item, job[w].origin, s, t)
        BY <3>2 DEF After
      <3> QED
        BY <2>6, <3>2, <3>3, <3>4, <3>5
    <2>10. ASSUME NEW w \in Worker, Notify(w) PROVE PostInv'
      <3> DEFINE i == job[w].item
      <3>1. /\ UNCHANGED <<rows, handled>> /\ job[w].step = "notify" /\ i \in Item
            /\ notes' = notes \/ notes' = [notes EXCEPT ![i] = @ + 1]
        BY <2>10 DEF Notify, At, ghosts, TypeOK
      <3>2. PICK t \in Steps : Moves(w, t)
        BY <2>10, AdvanceMoves DEF Notify
      <3>3. /\ job'[w].step = t
            /\ \A v \in Worker : job'[v].item = job[v].item
            /\ \A v \in Worker \ {w} : job'[v].step = job[v].step
        BY <3>2, MovesJob DEF Moves
      <3>4. IsPost(i) => t \notin Unnotified
        BY <3>1, <3>2, LeadsFacts DEF Moves, Unnotified
      <3>5. IsPost(i) => i \in rows /\ notes[i] = 0
        BY <3>1 DEF PostInv, PostJob, Early, Unnotified
      <3>6. \A v \in Worker \ {w} :
               IsPost(i) /\ job[v].item = i => job[v].step \notin Unnotified
        BY <3>1 DEF PostInv, Exclusive, Unnotified
      <3>7. \A k \in Item : k # i => notes'[k] = notes[k]
        BY <3>1 DEF TypeOK
      <3>8. IsPost(i) => notes'[i] \in {0, 1}
        BY <3>1, <3>5 DEF TypeOK
      <3>9. \A v \in Worker : PostJob(job[v])'
        <4> SUFFICES ASSUME NEW v \in Worker, IsPost(job[v].item) PROVE PostJob(job[v])'
          BY <3>3 DEF PostJob, IsPost
        <4>1. PostJob(job[v])
          BY DEF PostInv
        <4>2. CASE v = w
          BY <3>1, <3>3, <3>4, <3>5, <4>2 DEF PostJob, IsPost
        <4>3. CASE v # w /\ job[v].item = i
          BY <3>1, <3>3, <3>6, <4>1, <4>3 DEF PostJob, IsPost, Unnotified
        <4>4. CASE v # w /\ job[v].item # i
          BY <3>1, <3>3, <3>7, <4>1, <4>4 DEF PostJob, IsPost, Early, TypeOK, At
        <4> QED
          BY <4>2, <4>3, <4>4
      <3>10. \A u, v \in Worker : u # v => Exclusive(job'[u], job'[v])
        BY <3>3, <3>4 DEF PostInv, Exclusive
      <3> QED
        BY <2>h, <3>1, <3>5, <3>7, <3>8, <3>9, <3>10 DEF PostInv, IsPost
    <2>11. ASSUME NEW w \in Worker, Stop(w), rows' = rows, notes' = notes,
                  HandledPostStored'
           PROVE  PostInv'
      <3>1. job'[w] = IdleJob /\ \A v \in Worker \ {w} : job'[v] = job[v]
        BY <2>11, ReplaceJob DEF Stop
      <3> QED
        BY <2>11, <3>1, PlainStep DEF Plain, IdleJob, Early
    <2>12. ASSUME NEW w \in Worker, Return(w) PROVE PostInv'
      <3>1. job[w].step = "done" /\ Stop(w) /\ UNCHANGED <<rows, notes>>
        BY <2>12 DEF Return, At, store
      <3>2. IsPost(job[w].item) => job[w].item \in rows
        BY <3>1 DEF PostInv, PostJob, Early
      <3>3. HandledPostStored'
        BY <2>12, <3>1, <3>2 DEF Return, PostInv, HandledPostStored, IsPost
      <3> QED
        BY <2>11, <3>1, <3>3
    <2>13. ASSUME NEW w \in Worker, FailAndReturn(w) PROVE PostInv'
      BY <2>h, <2>11, <2>13 DEF FailAndReturn, store, ghosts
    <2>14. ASSUME NEW w \in Worker, FailAndContinue(w) PROVE PostInv'
      <3>1. UNCHANGED <<rows, notes, handled>>
        BY <2>14 DEF FailAndContinue, store, ghosts
      <3>2. CASE job[w].step \in {"check", "notify", "publish"} /\ Advance(w)
        BY <2>2, <3>1, <3>2, AdvanceMoves
      <3>3. ASSUME job[w].step \in RecountSteps,
                   NEW t \in After(w, "upsert"), Goto(w, t)
            PROVE  PostInv'
        <4>1. Leads(job[w].item, job[w].origin, "upsert", t) /\ t \in Steps
          BY DEF After
        <4>2. /\ job'[w].step = t
              /\ \A v \in Worker : job'[v].item = job[v].item
              /\ \A v \in Worker \ {w} : job'[v].step = job[v].step
          BY <3>3, <4>1, MovesJob DEF Goto
        <4>3. IsPost(job[w].item) => job[w].item \in rows /\ t \notin Unnotified
          BY <3>3, <4>1, LeadsFacts DEF PostInv, PostJob, Early, RecountSteps, Unnotified
        <4>4. Plain(w)
          BY <4>2, <4>3 DEF Plain
        <4> QED
          BY <2>h, <3>1, <4>2, <4>4, PlainStep
      <3> QED
        BY <2>14, <3>2, <3>3 DEF FailAndContinue
    <2>15. ASSUME NEW f \in FollowThread, NEW p, NEW add, ChangeFollow(f, p, add)
           PROVE  PostInv'
      BY <2>j, <2>15 DEF ChangeFollow, store, ghosts
    <2>16. ASSUME NEW f \in FollowThread, FollowStep(f) \/ FollowFails(f)
           PROVE  PostInv'
      BY <2>j, <2>16 DEF FollowStep, Subscribe, RecomputePin, PinPosts, PinLikes,
         FollowFails, store, ghosts
    <2>17. CASE EvictStep
      BY <2>j, <2>17 DEF EvictStep, EvictStart, EvictBatch, EvictDelete,
         EvictForget, EvictResize, EvictFails, store, ghosts
    <2>18. CASE CrashAndRestart
      <3>1. UNCHANGED <<rows, notes, handled>> /\ \A w \in Worker : job'[w] = IdleJob
        BY <2>18 DEF CrashAndRestart, ghosts
      <3> QED
        BY <2>h, <3>1 DEF PostInv, PostJob, Exclusive, IdleJob, Early, Unnotified
    <2>19. CASE UNCHANGED vars
      BY <2>j, <2>19 DEF vars
    <2> QED
      BY <2>1, <2>3, <2>4, <2>5, <2>7, <2>8, <2>9, <2>10, <2>12, <2>13, <2>14,
         <2>15, <2>16, <2>17, <2>18, <2>19 DEF Next, WorkerStep
  <1>3. TypeOK /\ PostInv => PostNotifiedOnce /\ HandledPostStored
    BY DEF PostInv, PostNotifiedOnce
  <1> QED
    BY <1>1, <1>2, <1>3, TypeCorrect, PTL DEF Spec

\* A post whose handlePost returned nil is in the posts table, for any number of
\* handlers at work on its copies, failing statements and crashes among them.
THEOREM HandledPostStoredTheorem == Spec => []HandledPostStored
  BY PostsNotifiedOnce, PTL

-----------------------------------------------------------------------------
(* The materialized counts never overstate.                                *)

\* What a recount has read so far was true when it was read, and rows only
\* grow, so it is still a lower bound when it is written.
Read(j) ==
    j.item \in Item =>
        \A k \in Responses :
            j.seen[k] <= Cardinality(About(rows, k, TargetOf[j.item]))

CountInv ==
    /\ \A w \in Worker : Read(job[w])
    /\ CountsNeverOverstate

\* More rows, no fewer responses.
LEMMA AboutGrows ==
    ASSUME NEW R, NEW S, R \subseteq S, S \subseteq Item, NEW k, NEW p
    PROVE  Cardinality(About(R, k, p)) <= Cardinality(About(S, k, p))
  <1>1. About(R, k, p) \subseteq About(S, k, p)
    BY DEF About
  <1> QED
    BY <1>1, AboutFinite, FS_Subset

\* One component of the counts.
LEMMA CountsAre ==
    ASSUME NEW R, NEW p, NEW k \in Responses
    PROVE  Count(R, p)[k] = Cardinality(About(R, k, p))
  BY DEF Count

\* A step that adds rows and leaves the counts alone, or changes those of one
\* post to a lower bound of the new truth.
LEMMA CountsStep ==
    ASSUME TypeOK, TypeOK', CountInv, rows \subseteq rows',
           \A p \in Item : \/ counts'[p] = counts[p]
                          \/ \A k \in Responses :
                                counts'[p][k] <= Cardinality(About(rows', k, p))
    PROVE  CountsNeverOverstate'
  <1> SUFFICES ASSUME NEW p \in Item, NEW k \in Responses
               PROVE  counts'[p][k] <= Count(rows', p)[k]
    BY DEF CountsNeverOverstate
  <1>1. Cardinality(About(rows, k, p)) <= Cardinality(About(rows', k, p))
    BY AboutGrows DEF TypeOK
  <1>2. counts[p][k] <= Cardinality(About(rows, k, p))
    BY CountsAre DEF CountInv, CountsNeverOverstate
  <1>3. /\ counts[p][k] \in Nat /\ counts'[p][k] \in Nat
        /\ Cardinality(About(rows, k, p)) \in Nat
        /\ Cardinality(About(rows', k, p)) \in Nat
    BY AboutFinite DEF TypeOK, Tally
  <1> QED
    BY <1>1, <1>2, <1>3, CountsAre

\* A step after which every worker is idle, in a fresh call or has the item and
\* the counts it had before.
LEMMA ReadStep ==
    ASSUME TypeOK, TypeOK', CountInv, rows \subseteq rows',
           \A w \in Worker :
              \/ job'[w].seen = ZeroTally
              \/ job'[w].item = job[w].item /\ job'[w].seen = job[w].seen
              \/ Read(job[w])'
    PROVE  \A w \in Worker : Read(job[w])'
  <1> SUFFICES ASSUME NEW w \in Worker, job'[w].item \in Item, NEW k \in Responses,
                      ~Read(job[w])'
               PROVE  job'[w].seen[k]
                        <= Cardinality(About(rows', k, TargetOf[job'[w].item]))
    BY DEF Read
  <1> DEFINE p == TargetOf[job'[w].item]
  <1>1. Cardinality(About(rows, k, p)) <= Cardinality(About(rows', k, p))
    BY AboutGrows DEF TypeOK
  <1>2. /\ Cardinality(About(rows, k, p)) \in Nat
        /\ Cardinality(About(rows', k, p)) \in Nat
        /\ job[w].seen[k] \in Nat
    BY AboutFinite DEF TypeOK, Job, Tally
  <1>3. CASE job'[w].seen = ZeroTally
    BY <1>2, <1>3 DEF ZeroTally
  <1>4. CASE job'[w].item = job[w].item /\ job'[w].seen = job[w].seen
    <2>1. job[w].seen[k] <= Cardinality(About(rows, k, p))
      BY <1>4 DEF CountInv, Read
    <2> QED
      BY <1>1, <1>2, <1>4, <2>1
  <1> QED
    BY <1>3, <1>4

\* The materialized reaction counts of a post never exceed the rows of the
\* tables, whatever recounts, inserts, failures and crashes interleave.
THEOREM CountsNeverOverstateTheorem == Spec => []CountsNeverOverstate
  <1>1. Init => CountInv
    <2> SUFFICES ASSUME Init PROVE CountInv
      OBVIOUS
    <2>1. \A w \in Worker : Read(job[w])
      BY ConstantsAssumption DEF Init, Read, IdleJob
    <2>2. CountsNeverOverstate
      <3> SUFFICES ASSUME NEW p \in Item, NEW k \in Responses
                   PROVE  counts[p][k] <= Count(rows, p)[k]
        BY DEF CountsNeverOverstate
      <3>1. counts[p][k] = 0 /\ rows \subseteq Item
        BY DEF Init, ZeroTally
      <3> QED
        BY <3>1, AboutFinite, CountsAre
    <2> QED
      BY <2>1, <2>2 DEF CountInv
  <1>2. TypeOK /\ TypeOK' /\ CountInv /\ [Next]_vars => CountInv'
    <2> SUFFICES ASSUME TypeOK, TypeOK', CountInv, [Next]_vars PROVE CountInv'
      OBVIOUS
    <2> USE ConstantsAssumption
    <2>j. ASSUME UNCHANGED <<job, rows, counts>> PROVE CountInv'
      BY <2>j DEF CountInv, Read, CountsNeverOverstate
    <2>c. ASSUME UNCHANGED <<rows, counts>> PROVE CountsNeverOverstate'
      BY <2>c, CountsStep
    \* A worker moves on within its call.
    <2>m. ASSUME NEW w \in Worker, NEW t \in Steps, rows \subseteq rows',
                 job' = [job EXCEPT ![w].step = t]
          PROVE  \A v \in Worker : Read(job[v])'
      BY <2>m, MovesJob, ReadStep
    <2>a. ASSUME NEW w \in Worker, rows \subseteq rows', Advance(w)
          PROVE  \A v \in Worker : Read(job[v])'
      BY <2>a, <2>m DEF Advance, After, Goto
    <2>s. ASSUME NEW w \in Worker, NEW j, rows \subseteq rows',
                 job' = [job EXCEPT ![w] = j], j.seen = ZeroTally
          PROVE  \A v \in Worker : Read(job[v])'
      <3>1. job'[w] = j /\ \A v \in Worker \ {w} : job'[v] = job[v]
        BY <2>s, ReplaceJob
      <3> QED
        BY <2>s, <3>1, ReadStep
    <2>t. ASSUME NEW w \in Worker, rows \subseteq rows', Stop(w)
          PROVE  \A v \in Worker : Read(job[v])'
      <3>1. IdleJob.seen = ZeroTally
        BY DEF IdleJob
      <3> QED
        BY <2>t, <2>s, <3>1 DEF Stop
    <2>1. ASSUME NEW w \in Worker, NEW i \in Item,
                 HandleMessage(w, i) \/ CreateLocal(w, i)
          PROVE  CountInv'
      <3>1. UNCHANGED <<rows, counts>>
        BY <2>1 DEF HandleMessage, CreateLocal, store
      <3>2. ASSUME NEW o, NEW s, Start(w, i, o, s)
            PROVE  \A v \in Worker : Read(job[v])'
        <4> DEFINE j == [IdleJob EXCEPT !.step = s, !.item = i, !.origin = o]
        <4>1. j.seen = ZeroTally
          BY DEF IdleJob
        <4> QED
          BY <2>s, <3>1, <3>2, <4>1 DEF Start
      <3> QED
        BY <2>1, <2>c, <3>1, <3>2 DEF CountInv, HandleMessage, CreateLocal
    <2>2. ASSUME NEW w \in Worker,
                 CasPut(w) \/ Track(w) \/ Notify(w) \/ Publish(w)
          PROVE  CountInv'
      <3>1. UNCHANGED <<rows, counts>> /\ Advance(w)
        BY <2>2 DEF CasPut, Track, Notify, Publish, store
      <3> QED
        BY <2>a, <2>c, <3>1 DEF CountInv
    <2>3. ASSUME NEW w \in Worker, DedupCheck(w) PROVE CountInv'
      <3>1. UNCHANGED <<rows, counts>>
        BY <2>3 DEF DedupCheck, store
      <3>2. CASE Duplicate(job[w].item)
        <4>1. job' = [job EXCEPT ![w].step = "done"] /\ "done" \in Steps
          BY <2>3, <3>2 DEF DedupCheck, Goto, Steps
        <4> QED
          BY <2>c, <2>m, <3>1, <4>1 DEF CountInv
      <3>3. CASE ~Duplicate(job[w].item)
        BY <2>3, <2>a, <2>c, <3>1, <3>3 DEF DedupCheck, CountInv
      <3> QED
        BY <3>2, <3>3
    <2>4. ASSUME NEW w \in Worker, InsertRow(w) PROVE CountInv'
      <3>1. UNCHANGED counts /\ rows \subseteq rows'
        BY <2>4 DEF InsertRow, InsertIgnoring
      <3>2. \A v \in Worker : Read(job[v])'
        BY <2>4, <2>a, <2>t, <3>1 DEF InsertRow
      <3> QED
        BY <3>1, <3>2, CountsStep DEF CountInv
    <2>5. ASSUME NEW w \in Worker, InsertTx(w) PROVE CountInv'
      <3> DEFINE p == TargetOf[job[w].item]
      <3>1. rows \subseteq rows'
        BY <2>5 DEF InsertTx, InsertIgnoring
      <3>2. \A v \in Worker : Read(job[v])'
        BY <2>5, <2>a, <2>t, <3>1 DEF InsertTx
      <3>3. counts' = counts \/ counts' = [counts EXCEPT ![p] = Count(rows', p)]
        BY <2>5 DEF InsertTx
      <3>4. \A k \in Responses : /\ Count(rows', p)[k] = Cardinality(About(rows', k, p))
                                 /\ Cardinality(About(rows', k, p)) \in Nat
        BY CountsAre, AboutFinite DEF TypeOK
      <3>5. \A q \in Item : \/ counts'[q] = counts[q]
                            \/ \A k \in Responses :
                                 counts'[q][k] <= Cardinality(About(rows', k, q))
        BY <3>3, <3>4 DEF TypeOK
      <3> QED
        BY <3>1, <3>2, <3>5, CountsStep DEF CountInv
    \* A worker's pin flag and step change.
    <2>p. ASSUME NEW w \in Worker, NEW j, job' = [job EXCEPT ![w] = j],
                 j.item = job[w].item, j.seen = job[w].seen,
                 UNCHANGED <<rows, counts>>
          PROVE  CountInv'
      <3>1. job'[w] = j /\ \A v \in Worker \ {w} : job'[v] = job[v]
        BY <2>p, ReplaceJob
      <3>2. \A v \in Worker : Read(job[v])'
        BY <2>p, <3>1, ReadStep
      <3> QED
        BY <2>p, <2>c, <3>2 DEF CountInv
    <2>6. ASSUME NEW w \in Worker, ReadPolicy(w) \/ ReadTargetPolicy(w)
          PROVE  CountInv'
      <3>1. PICK b, t :
                job' = [job EXCEPT ![w] = [job[w] EXCEPT !.pin = b, !.step = t]]
        BY <2>6 DEF ReadPolicy, ReadTargetPolicy, TypeOK
      <3> DEFINE j == [job[w] EXCEPT !.pin = b, !.step = t]
      <3>2. j.item = job[w].item /\ j.seen = job[w].seen
        BY DEF TypeOK, Job
      <3>3. UNCHANGED <<rows, counts>>
        BY <2>6 DEF ReadPolicy, ReadTargetPolicy, store
      <3> QED
        BY <2>p, <3>1, <3>2, <3>3
    <2>7. ASSUME NEW w \in Worker, ReadLikes(w) \/ ReadReplies(w) \/ ReadReposts(w)
          PROVE  CountInv'
      <3>1. PICK s \in RecountSteps, k \in Responses : ReadCount(w, s, k)
        BY <2>7 DEF ReadLikes, ReadReplies, ReadReposts, RecountSteps, Responses
      <3>2. PICK t \in Steps :
                job' = [job EXCEPT ![w] =
                            [job[w] EXCEPT !.seen = Observed(w, k), !.step = t]]
        BY <3>1 DEF ReadCount, After, TypeOK
      <3> DEFINE j == [job[w] EXCEPT !.seen = Observed(w, k), !.step = t]
      <3>3. j.item = job[w].item /\ j.seen = Observed(w, k)
        BY DEF TypeOK, Job
      <3>4. UNCHANGED <<rows, counts>>
        BY <3>1 DEF ReadCount, store
      <3>5. job'[w] = j /\ \A v \in Worker \ {w} : job'[v] = job[v]
        BY <3>2, ReplaceJob
      <3>6. Read(job[w])'
        <4> SUFFICES ASSUME job[w].item \in Item, NEW l \in Responses
                     PROVE  Observed(w, k)[l]
                              <= Cardinality(About(rows, l, TargetOf[job[w].item]))
          BY <3>3, <3>4, <3>5 DEF Read
        <4>1. job[w].seen[l] <= Cardinality(About(rows, l, TargetOf[job[w].item]))
          BY DEF CountInv, Read
        <4>2. Cardinality(About(rows, l, TargetOf[job[w].item])) \in Nat
          BY AboutFinite DEF TypeOK
        <4>3. job[w].seen \in Tally
          BY DEF TypeOK, Job
        <4> QED
          BY <4>1, <4>2, <4>3 DEF Observed, Tally
      <3>7. \A v \in Worker : Read(job[v])'
        BY <3>4, <3>5, <3>6, ReadStep
      <3> QED
        BY <2>c, <3>4, <3>7 DEF CountInv
    <2>8. ASSUME NEW w \in Worker, UpsertCounts(w) PROVE CountInv'
      <3> DEFINE p == TargetOf[job[w].item]
      <3>1. rows' = rows /\ counts' = [counts EXCEPT ![p] = job[w].seen]
        BY <2>8 DEF UpsertCounts
      <3>2. \A v \in Worker : Read(job[v])'
        BY <2>8, <2>a, <3>1 DEF UpsertCounts
      <3>3. job[w].item \in Item
        BY <2>8 DEF UpsertCounts, TypeOK, At
      <3>4. \A q \in Item : \/ counts'[q] = counts[q]
                            \/ \A k \in Responses :
                                 counts'[q][k] <= Cardinality(About(rows', k, q))
        BY <3>1, <3>3 DEF TypeOK, CountInv, Read
      <3> QED
        BY <3>1, <3>2, <3>4, CountsStep DEF CountInv
    <2>9. ASSUME NEW w \in Worker, Return(w) \/ FailAndReturn(w) PROVE CountInv'
      <3>1. UNCHANGED <<rows, counts>> /\ Stop(w)
        BY <2>9 DEF Return, FailAndReturn, store
      <3> QED
        BY <2>c, <2>t, <3>1 DEF CountInv
    <2>10. ASSUME NEW w \in Worker, FailAndContinue(w) PROVE CountInv'
      <3>1. UNCHANGED <<rows, counts>>
        BY <2>10 DEF FailAndContinue, store
      <3>2. PICK t \in Steps : job' = [job EXCEPT ![w].step = t]
        BY <2>10 DEF FailAndContinue, Advance, After, Goto
      <3> QED
        BY <2>c, <2>m, <3>1, <3>2 DEF CountInv
    <2>11. ASSUME NEW f \in FollowThread, NEW p, NEW add, ChangeFollow(f, p, add)
           PROVE  CountInv'
      BY <2>j, <2>11 DEF ChangeFollow, store
    <2>12. ASSUME NEW f \in FollowThread, FollowStep(f) \/ FollowFails(f)
           PROVE  CountInv'
      BY <2>j, <2>12 DEF FollowStep, Subscribe, RecomputePin, PinPosts, PinLikes,
         FollowFails, store
    <2>13. CASE EvictStep
      BY <2>j, <2>13 DEF EvictStep, EvictStart, EvictBatch, EvictDelete,
         EvictForget, EvictResize, EvictFails, store
    <2>14. CASE CrashAndRestart
      <3>1. /\ UNCHANGED <<rows, counts>>
            /\ \A w \in Worker : job'[w].seen = ZeroTally
        BY <2>14 DEF CrashAndRestart, IdleJob
      <3> QED
        BY <2>c, <3>1, ReadStep DEF CountInv
    <2>15. CASE UNCHANGED vars
      BY <2>j, <2>15 DEF vars
    <2> QED
      BY <2>1, <2>2, <2>3, <2>4, <2>5, <2>6, <2>7, <2>8, <2>9, <2>10, <2>11,
         <2>12, <2>13, <2>14, <2>15 DEF Next, WorkerStep
  <1>3. CountInv => CountsNeverOverstate
    BY DEF CountInv
  <1> QED
    BY <1>1, <1>2, <1>3, TypeCorrect, PTL DEF Spec

-----------------------------------------------------------------------------
(* The posts of followed authors are pinned.                               *)

\* A handler with job j is about to pin the stored post i of a followed author.
WillPin(j, i) ==
    /\ j.item = i
    /\ j.step = "policy" \/ (j.step = "track" /\ j.pin)

\* A follow request in state g is about to go over the author of i.
WillRepin(g, i) == g.who = AuthorOf[i] /\ g.step \in {"policy", "posts"}

PinHeld(i) ==
    \/ access[i] = "pinned"
    \/ \E f \in FollowThread : WillRepin(follow[f], i)
    \/ \E w \in Worker : WillPin(job[w], i)

\* What a follow request has read of the policy still holds.
PinCurrent(g) == g.step \in {"posts", "likes"} => g.pin = ShouldPinAuthor(g.who)

FollowedHeld ==
    \A i \in rows \ evicted : IsPost(i) /\ AuthorOf[i] \in subs => PinHeld(i)

PinInv ==
    faults = 0 =>
        /\ evict.step = "forget" => evict.cur \in evicted
        /\ \A f \in FollowThread : PinCurrent(follow[f])
        /\ FollowedHeld

\* No two follow requests for one author overlap.
RequestsApart ==
    \A f, g \in FollowThread :
        /\ follow[f].step # "idle" /\ follow[g].step # "idle"
        /\ follow[f].who = follow[g].who
        => f = g

\* A step of worker w: pins are kept, a post it inserts is one it will look at,
\* and a pin that was to come from it comes.
LEMMA PinWorker ==
    ASSUME TypeOK, PinInv, NEW w \in Worker,
           UNCHANGED <<subs, evicted, follow, evict, faults>>,
           \A v \in Worker \ {w} : /\ job'[v].item = job[v].item
                                   /\ job'[v].step = job[v].step
                                   /\ job'[v].pin = job[v].pin,
           \A i \in Item : access[i] = "pinned" => access'[i] = "pinned",
           rows' \subseteq Item,
           \A i \in rows' \ rows : IsPost(i) => WillPin(job'[w], i),
           \A i \in Item : /\ IsPost(i) /\ AuthorOf[i] \in subs /\ WillPin(job[w], i)
                           => WillPin(job'[w], i) \/ access'[i] = "pinned"
    PROVE  PinInv'
  <1> SUFFICES ASSUME faults = 0 PROVE PinInv'
    BY DEF PinInv
  <1>1. (evict.step = "forget" => evict.cur \in evicted)'
    BY DEF PinInv
  <1>2. (\A f \in FollowThread : PinCurrent(follow[f]))'
    BY DEF PinInv, PinCurrent, ShouldPinAuthor
  <1>3. FollowedHeld'
    <2> SUFFICES ASSUME NEW i \in rows' \ evicted', IsPost(i), AuthorOf[i] \in subs'
                 PROVE  PinHeld(i)'
      BY DEF FollowedHeld, IsPost
    <2>1. CASE i \notin rows
      BY <2>1 DEF PinHeld, WillPin
    <2>2. CASE i \in rows
      <3>1. PinHeld(i)
        BY <2>2 DEF PinInv, FollowedHeld
      <3>2. CASE access[i] = "pinned" \/ \E f \in FollowThread : WillRepin(follow[f], i)
        BY <3>2 DEF PinHeld
      <3>3. ASSUME NEW v \in Worker, WillPin(job[v], i) PROVE PinHeld(i)'
        <4>1. CASE v = w
          BY <3>3, <4>1 DEF PinHeld, WillPin
        <4>2. CASE v # w
          BY <3>3, <4>2 DEF PinHeld, WillPin
        <4> QED
          BY <4>1, <4>2
      <3> QED
        BY <3>1, <3>2, <3>3 DEF PinHeld
    <2> QED
      BY <2>1, <2>2
  <1> QED
    BY <1>1, <1>2, <1>3 DEF PinInv

\* The same for a worker that is neither to pin nor inserting.
LEMMA PinOtherWorker ==
    ASSUME TypeOK, PinInv, NEW w \in Worker, job[w].step \notin {"policy", "track"},
           UNCHANGED <<access, rows, subs, evicted, follow, evict, faults>>,
           \A v \in Worker \ {w} : /\ job'[v].item = job[v].item
                                   /\ job'[v].step = job[v].step
                                   /\ job'[v].pin = job[v].pin
    PROVE  PinInv'
  BY PinWorker DEF WillPin, TypeOK

LEMMA PinWorkerStep ==
    ASSUME TypeOK, PinInv, NEW w \in Worker, WorkerStep(w)
    PROVE  PinInv'
  <1> USE ConstantsAssumption
  <1> DEFINE i == job[w].item
  <1>1. ASSUME NEW t \in Steps, Moves(w, t), job[w].step \notin {"policy", "track"},
               UNCHANGED <<access, rows, subs, evicted, follow, evict, faults>>
        PROVE  PinInv'
    BY <1>1, MovesJob, PinOtherWorker DEF Moves
  <1>2. CASE DedupCheck(w)
    <2>1. /\ job[w].step = "check"
          /\ UNCHANGED <<access, rows, subs, evicted, follow, evict, faults>>
      BY <1>2 DEF DedupCheck, At, store, ghosts, env
    <2>2. CASE Duplicate(job[w].item)
      <3>1. job' = [job EXCEPT ![w].step = "done"] /\ "done" \in Steps
        BY <1>2, <2>2 DEF DedupCheck, Goto, Steps
      <3> QED
        BY <2>1, <3>1, MovesJob, PinOtherWorker
    <2>3. CASE ~Duplicate(job[w].item)
      BY <1>1, <1>2, <2>1, <2>3, AdvanceMoves DEF DedupCheck
    <2> QED
      BY <2>2, <2>3
  <1>3. CASE CasPut(w) \/ UpsertCounts(w) \/ Notify(w) \/ Publish(w)
    BY <1>1, <1>3, AdvanceMoves
    DEF CasPut, UpsertCounts, Notify, Publish, At, store, ghosts, env
  <1>4. CASE InsertRow(w) \/ InsertTx(w)
    <2>1. /\ job[w].step = "insert" /\ i \in Item
          /\ UNCHANGED <<access, subs, evicted, follow, evict, faults>>
      BY <1>4 DEF InsertRow, InsertTx, At, ghosts, env, TypeOK
    <2>2. CASE PrimaryKeyFree(i)
      <3>1. rows' = InsertIgnoring(i, rows)
        BY <1>4, <2>2 DEF InsertRow, InsertTx
      <3>2. rows' \subseteq rows \cup {i} /\ rows' \subseteq Item
        BY <2>1, <3>1 DEF InsertIgnoring, TypeOK
      <3>3. PICK t \in Steps : Moves(w, t)
        BY <1>4, <2>2, AdvanceMoves DEF InsertRow, InsertTx
      <3>4. t = "policy"
        BY <2>1, <3>3, LeadsFacts DEF Moves
      <3>5. /\ job'[w].step = "policy"
            /\ \A v \in Worker : job'[v].item = job[v].item /\ job'[v].pin = job[v].pin
            /\ \A v \in Worker \ {w} : job'[v].step = job[v].step
        BY <3>3, <3>4, MovesJob DEF Moves
      <3>6. \A k \in rows' \ rows : WillPin(job'[w], k)
        BY <3>2, <3>5 DEF WillPin
      <3>7. \A k \in Item : ~WillPin(job[w], k)
        BY <2>1 DEF WillPin
      <3> QED
        BY <2>1, <3>2, <3>5, <3>6, <3>7, PinWorker
    <2>3. CASE ~PrimaryKeyFree(i)
      <3>1. job' = [job EXCEPT ![w] = IdleJob] /\ rows' = rows
        BY <1>4, <2>3 DEF InsertRow, InsertTx, Stop
      <3> QED
        BY <2>1, <3>1, ReplaceJob, PinOtherWorker
    <2> QED
      BY <2>2, <2>3
  <1>5. CASE ReadPolicy(w)
    <2> DEFINE pin == IF KindOf[i] = "dm" THEN ShouldPinDM(i)
                      ELSE ShouldPinAuthor(AuthorOf[i])
    <2>1. PICK t \in IF pin THEN {"track"} ELSE After(w, "policy") :
              job' = [job EXCEPT ![w] = [job[w] EXCEPT !.pin = pin, !.step = t]]
      BY <1>5 DEF ReadPolicy, TypeOK
    <2>2. /\ job'[w] = [job[w] EXCEPT !.pin = pin, !.step = t]
          /\ \A v \in Worker \ {w} : job'[v] = job[v]
      BY <2>1, ReplaceJob
    <2>3. job'[w].item = i /\ job'[w].pin = pin /\ job'[w].step = t
      BY <2>2 DEF TypeOK, Job
    <2>4. /\ UNCHANGED <<access, rows, subs, evicted, follow, evict, faults>>
          /\ rows \subseteq Item
      BY <1>5 DEF ReadPolicy, store, ghosts, env, TypeOK
    <2>5. ASSUME IsPost(i), AuthorOf[i] \in subs PROVE pin /\ t = "track"
      <3>1. pin
        BY <2>5 DEF IsPost, PostKinds, ShouldPinAuthor
      <3> QED
        BY <2>1, <3>1
    <2>6. \A k \in Item : /\ IsPost(k) /\ AuthorOf[k] \in subs /\ WillPin(job[w], k)
                          => WillPin(job'[w], k)
      BY <2>3, <2>5 DEF WillPin
    <2> HIDE DEF pin
    <2> QED
      BY <2>2, <2>4, <2>6, PinWorker
  <1>6. CASE ReadTargetPolicy(w)
    <2>1. PICK j : job' = [job EXCEPT ![w] = j]
      BY <1>6 DEF ReadTargetPolicy
    <2>2. \A v \in Worker \ {w} : job'[v] = job[v]
      BY <2>1, ReplaceJob
    <2>3. job[w].step = "target"
          /\ UNCHANGED <<access, rows, subs, evicted, follow, evict, faults>>
      BY <1>6 DEF ReadTargetPolicy, At, store, ghosts, env
    <2> QED
      BY <2>2, <2>3, PinOtherWorker
  <1>7. CASE Track(w)
    <2>1. PICK t \in Steps : Moves(w, t)
      BY <1>7, AdvanceMoves DEF Track
    <2>2. /\ \A v \in Worker : job'[v].item = job[v].item /\ job'[v].pin = job[v].pin
          /\ \A v \in Worker \ {w} : job'[v].step = job[v].step
      BY <2>1, MovesJob DEF Moves
    <2>3. /\ UNCHANGED <<rows, subs, evicted, follow, evict, faults>>
          /\ access' = [access EXCEPT ![i] = TrackContentAccess(access[i], job[w].pin)]
          /\ job[w].step = "track" /\ i \in Item /\ rows \subseteq Item
      BY <1>7 DEF Track, At, ghosts, env, TypeOK
    <2>4. /\ access'[i] = TrackContentAccess(access[i], job[w].pin)
          /\ \A k \in Item \ {i} : access'[k] = access[k]
      BY <2>3 DEF TypeOK
    <2>5. \A k \in Item : access[k] = "pinned" => access'[k] = "pinned"
      BY <2>4 DEF TrackContentAccess
    <2>6. \A k \in Item : WillPin(job[w], k) => access'[k] = "pinned"
      BY <2>3, <2>4 DEF WillPin, TrackContentAccess
    <2> QED
      BY <2>2, <2>3, <2>5, <2>6, PinWorker
  <1>8. CASE ReadLikes(w) \/ ReadReplies(w) \/ ReadReposts(w)
    <2>1. PICK s \in RecountSteps, k \in Responses : ReadCount(w, s, k)
      BY <1>8 DEF ReadLikes, ReadReplies, ReadReposts, RecountSteps, Responses
    <2>2. PICK j : job' = [job EXCEPT ![w] = j]
      BY <2>1 DEF ReadCount
    <2>3. \A v \in Worker \ {w} : job'[v] = job[v]
      BY <2>2, ReplaceJob
    <2>4. job[w].step \notin {"policy", "track"}
          /\ UNCHANGED <<access, rows, subs, evicted, follow, evict, faults>>
      BY <2>1 DEF ReadCount, At, RecountSteps, store, ghosts, env
    <2> QED
      BY <2>3, <2>4, PinOtherWorker
  <1>9. CASE Return(w)
    <2>1. job' = [job EXCEPT ![w] = IdleJob] /\ job[w].step = "done"
          /\ UNCHANGED <<access, rows, subs, evicted, follow, evict, faults>>
      BY <1>9 DEF Return, Stop, At, store, env
    <2> QED
      BY <2>1, ReplaceJob, PinOtherWorker
  <1> QED
    BY <1>2, <1>3, <1>4, <1>5, <1>6, <1>7, <1>8, <1>9 DEF WorkerStep

\* A step of follow thread f that leaves the subscriptions alone.
LEMMA PinFollow ==
    ASSUME TypeOK, PinInv, NEW f \in FollowThread, NEW g,
           follow' = [follow EXCEPT ![f] = g], PinCurrent(g),
           UNCHANGED <<rows, subs, evicted, job, evict, faults>>,
           \A i \in Item : /\ IsPost(i) /\ AuthorOf[i] \in subs
                           /\ access[i] = "pinned" \/ WillRepin(follow[f], i)
                           => access'[i] = "pinned" \/ WillRepin(g, i)
    PROVE  PinInv'
  <1> SUFFICES ASSUME faults = 0 PROVE PinInv'
    BY DEF PinInv
  <1>0. follow'[f] = g /\ \A h \in FollowThread \ {f} : follow'[h] = follow[h]
    BY DEF TypeOK
  <1>1. (evict.step = "forget" => evict.cur \in evicted)'
    BY DEF PinInv
  <1>2. (\A h \in FollowThread : PinCurrent(follow[h]))'
    BY <1>0 DEF PinInv, PinCurrent, ShouldPinAuthor
  <1>3. FollowedHeld'
    <2> SUFFICES ASSUME NEW i \in rows \ evicted, IsPost(i), AuthorOf[i] \in subs
                 PROVE  PinHeld(i)'
      BY DEF FollowedHeld, IsPost
    <2>1. PinHeld(i) /\ i \in Item
      BY DEF PinInv, FollowedHeld, TypeOK
    <2>2. CASE access[i] = "pinned" \/ WillRepin(follow[f], i)
      BY <1>0, <2>1, <2>2 DEF PinHeld, WillRepin
    <2>3. CASE \E h \in FollowThread \ {f} : WillRepin(follow[h], i)
      BY <1>0, <2>3 DEF PinHeld, WillRepin
    <2>4. CASE \E w \in Worker : WillPin(job[w], i)
      BY <2>4 DEF PinHeld, WillPin
    <2> QED
      BY <2>1, <2>2, <2>3, <2>4 DEF PinHeld
  <1> QED
    BY <1>1, <1>2, <1>3 DEF PinInv

LEMMA PinFollowStep ==
    ASSUME TypeOK, RequestsApart, PinInv, NEW f \in FollowThread,
           FollowStep(f) \/ \E p \in Person, add \in BOOLEAN : ChangeFollow(f, p, add)
    PROVE  PinInv'
  <1> USE ConstantsAssumption
  <1> DEFINE h == follow[f]
  <1>0. h \in FollowJob /\ (h.step # "idle" => h.who \in Person)
    BY DEF TypeOK
  <1>1. ASSUME NEW p \in Person, NEW add \in BOOLEAN, ChangeFollow(f, p, add)
        PROVE  PinInv'
    <2> DEFINE g == [step |-> "subscribe", who |-> p, add |-> add, pin |-> FALSE]
    <2>1. h.step = "idle" /\ follow' = [follow EXCEPT ![f] = g]
          /\ UNCHANGED <<access, rows, subs, evicted, job, evict, faults>>
      BY <1>1 DEF ChangeFollow, store, ghosts
    <2>2. PinCurrent(g) /\ \A i \in Item : ~WillRepin(h, i)
      BY <2>1 DEF PinCurrent, WillRepin
    <2> HIDE DEF g
    <2> QED
      BY <2>1, <2>2, PinFollow
  <1>2. CASE Subscribe(f)
    <2> DEFINE g == [h EXCEPT !.step = "policy"]
    <2>1. /\ h.step = "subscribe" /\ follow' = [follow EXCEPT ![f] = g]
          /\ subs' = IF h.add THEN subs \cup {h.who} ELSE subs \ {h.who}
          /\ UNCHANGED <<access, rows, evicted, job, evict, faults>>
      BY <1>2 DEF Subscribe, FollowGoto, store, ghosts, env
    <2>2. g.step = "policy" /\ g.who = h.who
      BY <1>0 DEF FollowJob
    <2> HIDE DEF g
    <2>3. follow'[f] = g /\ \A k \in FollowThread \ {f} : follow'[k] = follow[k]
      BY <2>1 DEF TypeOK
    <2> SUFFICES ASSUME faults = 0 PROVE PinInv'
      BY <2>1 DEF PinInv
    <2>4. (evict.step = "forget" => evict.cur \in evicted)'
      BY <2>1 DEF PinInv
    <2>5. ASSUME NEW k \in FollowThread PROVE PinCurrent(follow[k])'
      <3>1. CASE k = f
        BY <2>2, <2>3, <3>1 DEF PinCurrent
      <3>2. CASE k # f /\ follow[k].step \in {"posts", "likes"}
        <4>1. follow[k].who # h.who
          BY <2>1, <3>2 DEF RequestsApart
        <4>2. PinCurrent(follow[k])
          BY DEF PinInv
        <4> QED
          BY <2>1, <2>3, <3>2, <4>1, <4>2 DEF PinCurrent, ShouldPinAuthor
      <3>3. CASE k # f /\ follow[k].step \notin {"posts", "likes"}
        BY <2>3, <3>3 DEF PinCurrent
      <3> QED
        BY <3>1, <3>2, <3>3
    <2>6. FollowedHeld'
      <3> SUFFICES ASSUME NEW i \in rows \ evicted, IsPost(i), AuthorOf[i] \in subs'
                   PROVE  PinHeld(i)'
        BY <2>1 DEF FollowedHeld, IsPost
      <3>1. CASE AuthorOf[i] = h.who
        BY <2>2, <2>3, <3>1 DEF PinHeld, WillRepin
      <3>2. CASE AuthorOf[i] # h.who
        <4>1. PinHeld(i)
          BY <2>1, <3>2 DEF PinInv, FollowedHeld
        <4>2. CASE access[i] = "pinned"
          BY <2>1, <4>2 DEF PinHeld
        <4>3. ASSUME NEW k \in FollowThread, WillRepin(follow[k], i) PROVE PinHeld(i)'
          <5>1. k # f
            BY <3>2, <4>3 DEF WillRepin
          <5> QED
            BY <2>3, <4>3, <5>1 DEF PinHeld, WillRepin
        <4>4. CASE \E w \in Worker : WillPin(job[w], i)
          BY <2>1, <4>4 DEF PinHeld, WillPin
        <4> QED
          BY <4>1, <4>2, <4>3, <4>4 DEF PinHeld
      <3> QED
        BY <3>1, <3>2
    <2> QED
      BY <2>4, <2>5, <2>6 DEF PinInv
  <1>3. CASE RecomputePin(f)
    <2> DEFINE g == [h EXCEPT !.pin = ShouldPinAuthor(h.who), !.step = "posts"]
    <2>1. /\ h.step = "policy" /\ follow' = [follow EXCEPT ![f] = g]
          /\ UNCHANGED <<access, rows, subs, evicted, job, evict, faults>>
      BY <1>3 DEF RecomputePin, store, ghosts, env, TypeOK
    <2>2. g.step = "posts" /\ g.who = h.who /\ g.pin = ShouldPinAuthor(h.who)
      BY <1>0 DEF FollowJob
    <2> HIDE DEF g
    <2>3. PinCurrent(g) /\ \A i \in Item : WillRepin(h, i) => WillRepin(g, i)
      BY <2>2 DEF PinCurrent, WillRepin
    <2> QED
      BY <2>1, <2>3, PinFollow
  <1>4. CASE PinPosts(f)
    <2> DEFINE g == [h EXCEPT !.step = "likes"]
    <2>1. /\ h.step = "posts" /\ follow' = [follow EXCEPT ![f] = g]
          /\ access' = SetPinned(access, PostsBy(rows, h.who), h.pin)
          /\ UNCHANGED <<rows, subs, evicted, job, evict, faults>>
      BY <1>4 DEF PinPosts, FollowGoto, ghosts, env
    <2>2. g.step = "likes" /\ g.who = h.who /\ g.pin = h.pin
      BY <1>0 DEF FollowJob
    <2> HIDE DEF g
    <2> SUFFICES ASSUME faults = 0 PROVE PinInv'
      BY <2>1 DEF PinInv
    <2>3. PinCurrent(h)
      BY DEF PinInv
    <2>4. PinCurrent(g)
      BY <2>1, <2>2, <2>3 DEF PinCurrent
    <2>5. follow'[f] = g /\ \A k \in FollowThread \ {f} : follow'[k] = follow[k]
      BY <2>1 DEF TypeOK
    <2>6. (\A k \in FollowThread : PinCurrent(follow[k]))'
      BY <2>1, <2>4, <2>5 DEF PinInv, PinCurrent, ShouldPinAuthor
    <2>7. FollowedHeld'
      <3> SUFFICES ASSUME NEW i \in rows \ evicted, IsPost(i), AuthorOf[i] \in subs
                   PROVE  PinHeld(i)'
        BY <2>1 DEF FollowedHeld, IsPost
      <3>0. i \in Item /\ PinHeld(i)
        BY DEF PinInv, FollowedHeld, TypeOK
      <3>1. CASE AuthorOf[i] = h.who
        <4>1. h.pin
          BY <2>1, <2>3, <3>1 DEF PinCurrent, ShouldPinAuthor
        <4>2. access'[i] = "pinned"
          BY <2>1, <3>0, <3>1, <4>1 DEF SetPinned, PostsBy
        <4> QED
          BY <4>2 DEF PinHeld
      <3>2. CASE AuthorOf[i] # h.who
        <4>1. access'[i] = access[i]
          BY <2>1, <3>0, <3>2 DEF SetPinned, PostsBy
        <4>2. ASSUME NEW k \in FollowThread, WillRepin(follow[k], i) PROVE PinHeld(i)'
          <5>1. k # f
            BY <3>2, <4>2 DEF WillRepin
          <5> QED
            BY <2>5, <4>2, <5>1 DEF PinHeld, WillRepin
        <4>3. CASE \E w \in Worker : WillPin(job[w], i)
          BY <2>1, <4>3 DEF PinHeld, WillPin
        <4> QED
          BY <3>0, <4>1, <4>2, <4>3 DEF PinHeld
      <3> QED
        BY <3>1, <3>2
    <2> QED
      BY <2>1, <2>6, <2>7 DEF PinInv
  <1>5. CASE PinLikes(f)
    <2>1. /\ h.step = "likes" /\ follow' = [follow EXCEPT ![f] = IdleFollow]
          /\ access' = SetPinned(access, LikesBy(rows, h.who), h.pin)
          /\ UNCHANGED <<rows, subs, evicted, job, evict, faults>>
      BY <1>5 DEF PinLikes, ghosts, env
    <2>2. PinCurrent(IdleFollow) /\ \A i \in Item : ~WillRepin(h, i)
      BY <2>1 DEF PinCurrent, WillRepin, IdleFollow
    <2>3. \A i \in Item : IsPost(i) => access'[i] = access[i]
      BY <2>1 DEF SetPinned, LikesBy, IsPost, PostKinds
    <2> QED
      BY <2>1, <2>2, <2>3, PinFollow
  <1> QED
    BY <1>1, <1>2, <1>3, <1>4, <1>5 DEF FollowStep

\* A step that a failing operation makes says nothing.
LEMMA PinFault ==
    ASSUME TypeOK, faults' = faults + 1 PROVE PinInv'
  BY DEF TypeOK, PinInv

\* The storage manager takes access rows only of what it has deleted.
LEMMA PinEvictStep ==
    ASSUME TypeOK, PinInv, EvictStep
    PROVE  PinInv'
  <1> USE ConstantsAssumption
  <1>1. ASSUME UNCHANGED <<rows, subs, job, follow, faults>>, evicted \subseteq evicted',
               evict'.step = "forget" => evict'.cur \in evicted',
               \A i \in Item \ evicted' : access'[i] = access[i]
        PROVE  PinInv'
    <2> SUFFICES ASSUME faults = 0 PROVE PinInv'
      BY <1>1 DEF PinInv
    <2>1. (\A f \in FollowThread : PinCurrent(follow[f]))'
      BY <1>1 DEF PinInv, PinCurrent, ShouldPinAuthor
    <2>2. FollowedHeld'
      <3> SUFFICES ASSUME NEW i \in rows \ evicted', IsPost(i), AuthorOf[i] \in subs
                   PROVE  PinHeld(i)'
        BY <1>1 DEF FollowedHeld, IsPost
      <3>1. PinHeld(i) /\ access'[i] = access[i]
        BY <1>1 DEF PinInv, FollowedHeld, TypeOK
      <3> QED
        BY <1>1, <3>1 DEF PinHeld, WillPin, WillRepin
    <2> QED
      BY <1>1, <2>1, <2>2 DEF PinInv
  <1>0. evict \in EvictJob
    BY DEF TypeOK
  <1>2. CASE EvictStart \/ EvictBatch \/ EvictResize
    <2>1. evict'.step # "forget"
      <3>1. CASE EvictStart
        BY <3>1 DEF EvictStart, IdleEvict
      <3>2. CASE EvictBatch
        <4>1. \/ evict' = IdleEvict
              \/ \E B : evict' = [evict EXCEPT !.step = "delete", !.batch = B]
          BY <3>2, Zenon DEF EvictBatch
        <4>2. ASSUME NEW B, evict' = [evict EXCEPT !.step = "delete", !.batch = B]
              PROVE  evict'.step # "forget"
          BY <1>0, <4>2 DEF EvictJob
        <4>3. IdleEvict.step # "forget"
          BY DEF IdleEvict
        <4> QED
          BY <4>1, <4>2, <4>3
      <3>3. CASE EvictResize
        BY <1>0, <3>3 DEF EvictResize, IdleEvict, EvictJob
      <3> QED
        BY <1>2, <3>1, <3>2, <3>3
    <2> QED
      BY <1>1, <1>2, <2>1 DEF EvictStart, EvictBatch, EvictResize, store, ghosts, env
  <1>3. CASE EvictDelete
    <2>1. PICK i \in evict.batch :
             /\ evict' = [evict EXCEPT !.step = "forget", !.cur = i, !.batch = @ \ {i}]
             /\ \/ evicted' = evicted \cup {i} /\ faults' = faults
                \/ faults' = faults + 1
      BY <1>3 DEF EvictDelete
    <2>2. CASE faults' = faults + 1
      BY <2>2, PinFault
    <2>3. CASE evicted' = evicted \cup {i} /\ faults' = faults
      <3>1. evict'.cur = i
        BY <1>0, <2>1 DEF EvictJob
      <3> QED
        BY <1>1, <1>3, <2>3, <3>1 DEF EvictDelete
    <2> QED
      BY <2>1, <2>2, <2>3
  <1>4. CASE EvictForget
    <2> SUFFICES ASSUME faults = 0 PROVE PinInv'
      BY <1>4 DEF EvictForget, env, PinInv
    <2>1. evict.cur \in evicted /\ evicted' = evicted
      BY <1>4 DEF EvictForget, PinInv, ghosts
    <2>2. evict'.step # "forget"
      BY <1>0, <1>4 DEF EvictForget, EvictJob
    <2>3. \A i \in Item \ evicted' : access'[i] = access[i]
      BY <1>4, <2>1 DEF EvictForget, TypeOK
    <2> QED
      BY <1>1, <1>4, <2>1, <2>2, <2>3 DEF EvictForget, env
  <1>5. CASE EvictFails
    BY <1>5, PinFault DEF EvictFails
  <1> QED
    BY <1>2, <1>3, <1>4, <1>5 DEF EvictStep

\* A restart pins what belongs to followed authors again.
LEMMA PinCrash ==
    ASSUME TypeOK, PinInv, CrashAndRestart
    PROVE  PinInv'
  <1>1. /\ UNCHANGED <<rows, subs, evicted, faults>> /\ access' = Backfilled(access)
        /\ evict' = IdleEvict /\ \A f \in FollowThread : follow'[f] = IdleFollow
    BY DEF CrashAndRestart, ghosts
  <1>2. \A i \in rows : IsPost(i) /\ AuthorOf[i] \in subs => access'[i] = "pinned"
    BY <1>1 DEF Backfilled, ShouldPinAuthor, IsPost, PostKinds, TypeOK
  <1>3. FollowedHeld'
    BY <1>1, <1>2 DEF FollowedHeld, PinHeld, IsPost
  <1>4. (\A f \in FollowThread : PinCurrent(follow[f]))'
    BY <1>1 DEF PinCurrent, IdleFollow
  <1>5. (evict.step = "forget" => evict.cur \in evicted)'
    BY <1>1 DEF IdleEvict
  <1> QED
    BY <1>3, <1>4, <1>5 DEF PinInv

\* Once a follow has gone through and nothing failed, every stored post of the
\* author that was not chosen for eviction is pinned (changeFollowState with
\* SetPinnedForAuthor, TrackContentForAuthor, backfillPinnedContent): for any
\* number of handlers, crashes and follow requests, as long as the requests for
\* one author do not overlap.
THEOREM FollowedPostsPinnedTheorem == Spec /\ []RequestsApart => []FollowedPostsPinned
  <1>1. Init => PinInv
    BY DEF Init, PinInv, FollowedHeld, PinCurrent, IdleFollow, IdleEvict
  <1>2. TypeOK /\ RequestsApart /\ PinInv /\ [Next]_vars => PinInv'
    <2> SUFFICES ASSUME TypeOK, RequestsApart, PinInv, [Next]_vars PROVE PinInv'
      OBVIOUS
    <2>1. ASSUME NEW w \in Worker, NEW i \in Item,
                 HandleMessage(w, i) \/ CreateLocal(w, i)
          PROVE  PinInv'
      <3>1. PICK j : job' = [job EXCEPT ![w] = j]
        BY <2>1 DEF HandleMessage, CreateLocal, Start
      <3>2. \A v \in Worker \ {w} : job'[v] = job[v]
        BY <3>1, ReplaceJob
      <3>3. job[w].step = "idle"
            /\ UNCHANGED <<access, rows, subs, evicted, follow, evict, faults>>
        BY <2>1 DEF HandleMessage, CreateLocal, At, store, ghosts, env
      <3> QED
        BY <3>2, <3>3, PinOtherWorker
    <2>2. ASSUME NEW w \in Worker, FailAndReturn(w) \/ FailAndContinue(w) PROVE PinInv'
      BY <2>2, PinFault DEF FailAndReturn, FailAndContinue
    <2>3. ASSUME NEW f \in FollowThread, FollowFails(f) PROVE PinInv'
      BY <2>3, PinFault DEF FollowFails
    <2>4. CASE UNCHANGED vars
      BY <2>4 DEF vars, PinInv, FollowedHeld, PinHeld, PinCurrent, WillPin, WillRepin,
         ShouldPinAuthor, IsPost
    <2> QED
      BY <2>1, <2>2, <2>3, <2>4, PinWorkerStep, PinFollowStep, PinEvictStep, PinCrash
      DEF Next
  <1>3. PinInv => FollowedPostsPinned
    BY DEF PinInv, FollowedHeld, PinHeld, WillPin, WillRepin, FollowedPostsPinned, Quiet, At
  <1> QED
    BY <1>1, <1>2, <1>3, TypeCorrect, PTL DEF Spec
=============================================================================
