------------------------- MODULE ProfileStoreProofs -------------------------
(***************************************************************************)
(* Proofs about ProfileStore for any nodes, authors, goroutines and        *)
(* bounds.  The properties are not inductive alone; what is added is what  *)
(* a worker knows at its step: after the upsert the table has its version  *)
(* or a later one, a handler's profile was published, an edit runs at the  *)
(* author's node, and, without overlapping edits, the edit that is under   *)
(* way has a version above everything published.                           *)
(***************************************************************************)
EXTENDS ProfileStore, TLAPS

Edits == {"web", "api"}

\* What holds of call j of worker w by the step it is at.
Knows(w, j) ==
    /\ j.at # "idle" => j.author \in Author /\ j.kind # "none"
    /\ j.kind \in Edits => j.author \in Author /\ At[w] = Home[j.author]
    /\ j.at \in {"exists", "version", "publish", "fallback"} => j.kind \in Edits
    /\ j.at = "check" => j.kind = "network"
    /\ j.at \in {"track", "publish", "done"} =>
          row[<<At[w], j.author>>].version >= j.version
    /\ j.kind = "network" =>
          [author |-> j.author, version |-> j.version, edit |-> j.edit] \in sent
    /\ /\ orderly /\ j.kind \in Edits
       /\ j.at \in {"put", "upsert", "track", "publish"}
       => \A p \in sent : p.author = j.author => p.version < j.version

\* No other worker than w edits what call j edits.
SoleEditor(w, j) ==
    orderly /\ j.kind \in Edits =>
        \A v \in Worker \ {w} : job[v].kind \in Edits => job[v].author # j.author

CallInv == \A w \in Worker : Knows(w, job[w]) /\ SoleEditor(w, job[w])

ProfileInv ==
    /\ ProfileTypeOK /\ CallInv
    /\ HandledProfileKept /\ AuthorLeads /\ ProfilesAgree

\* The second half of ProfilesAgree needs no orderly edits.
RowsPublished ==
    \A n \in Node, a \in Author :
        row[<<n, a>>].version # 0 /\ n # Home[a] =>
           [author |-> a, version |-> row[<<n, a>>].version,
            edit |-> row[<<n, a>>].edit] \in sent

IInv == ProfileInv /\ RowsPublished

-----------------------------------------------------------------------------

\* UpsertProfile returns one of the two profiles, with the higher version.
LEMMA UpsertRaises ==
    ASSUME NEW old \in Profile, NEW new \in Profile
    PROVE  /\ UpsertProfile(old, new) \in Profile
           /\ UpsertProfile(old, new) \in {old, new}
           /\ UpsertProfile(old, new).version >= old.version
           /\ UpsertProfile(old, new).version >= new.version
BY DEF UpsertProfile, Profile

\* A step that changes one worker's call and neither tables nor network keeps
\* the invariant if the new call knows what its step says.
LEMMA CallStep ==
    ASSUME IInv, NEW w \in Worker, NEW j \in Job,
           job' = [job EXCEPT ![w] = j],
           row' = row, sent' = sent, orderly' => orderly,
           blob' \in [Slot -> Profile], tracked' \subseteq Slot,
           handled' \subseteq Node \X Author \X Nat, HandledProfileKept',
           edits' \in Nat, faults' \in Nat, crashes' \in Nat,
           Knows(w, j), orderly' => SoleEditor(w, j)
    PROVE  IInv'
<1>1. /\ job' \in [Worker -> Job] /\ job'[w] = j
      /\ \A v \in Worker \ {w} : job'[v] = job[v]
  BY DEF IInv, ProfileInv, ProfileTypeOK
<1>2. ProfileTypeOK'
  BY <1>1 DEF IInv, ProfileInv, ProfileTypeOK, Knows
<1>3. ASSUME NEW v \in Worker PROVE Knows(v, job[v])' /\ SoleEditor(v, job[v])'
  <2>1. Knows(v, job'[v])
    BY <1>1 DEF IInv, ProfileInv, CallInv
  <2>2. Knows(v, job[v])'
    BY <2>1 DEF Knows
  <2>3. SoleEditor(v, job[v])'
    BY <1>1 DEF IInv, ProfileInv, CallInv, SoleEditor
  <2> QED BY <2>2, <2>3
<1>4. AuthorLeads' /\ RowsPublished'
  BY DEF IInv, ProfileInv, AuthorLeads, RowsPublished
<1>5. ProfilesAgree'
  BY DEF IInv, ProfileInv, ProfilesAgree
<1> QED BY <1>2, <1>3, <1>4, <1>5 DEF IInv, ProfileInv, CallInv

\* A step of a busy worker that upserts a profile of its author, one that was
\* published unless the node is the author's, keeps the invariant too.
LEMMA UpsertStep ==
    ASSUME IInv, NEW w \in Worker, NEW j \in Job, NEW new \in Profile,
           job[w].at # "idle",
           row' = [row EXCEPT ![SlotOf(w)] = UpsertProfile(@, new)],
           job' = [job EXCEPT ![w] = j],
           UNCHANGED <<blob, tracked, sent, handled, orderly, edits, faults, crashes>>,
           \/ At[w] = Home[job[w].author]
           \/ [author |-> job[w].author, version |-> new.version,
               edit |-> new.edit] \in sent,
           SoleEditor(w, j),
           (\A s \in Slot : row'[s].version >= row[s].version)
               /\ row'[SlotOf(w)].version >= new.version => Knows(w, j)'
    PROVE  IInv'
<1>0. ProfileTypeOK /\ CallInv /\ RowsPublished
  BY DEF IInv, ProfileInv
<1>1. /\ job' \in [Worker -> Job] /\ job'[w] = j
      /\ \A v \in Worker \ {w} : job'[v] = job[v]
  BY <1>0 DEF ProfileTypeOK
<1>2. SlotOf(w) \in Slot
  BY <1>0, ProfileAssumption DEF ProfileTypeOK, SlotOf, Slot
<1>3. /\ row' \in [Slot -> Profile]
      /\ row'[SlotOf(w)].version >= new.version
      /\ row'[SlotOf(w)] \in {row[SlotOf(w)], new}
      /\ \A s \in Slot \ {SlotOf(w)} : row'[s] = row[s]
  <2>1. row[SlotOf(w)] \in Profile
    BY <1>0, <1>2 DEF ProfileTypeOK
  <2>2. row'[SlotOf(w)] = UpsertProfile(row[SlotOf(w)], new)
    BY <1>0, <1>2 DEF ProfileTypeOK
  <2> QED BY <1>0, <1>2, <2>1, <2>2, UpsertRaises DEF ProfileTypeOK
<1>4. ASSUME NEW s \in Slot
      PROVE  /\ row[s].version \in Nat /\ row'[s].version \in Nat
             /\ row'[s].version >= row[s].version
  <2>1. row[s] \in Profile /\ row'[s] \in Profile
    BY <1>0, <1>3 DEF ProfileTypeOK
  <2>2. row'[s] = row[s] \/ row'[s] = UpsertProfile(row[s], new)
    BY <1>0, <1>2 DEF ProfileTypeOK
  <2> QED BY <2>1, <2>2, UpsertRaises DEF Profile
<1>5. Knows(w, j)'
  BY <1>3, <1>4
<1>6. ProfileTypeOK'
  BY <1>0, <1>1, <1>3, <1>5 DEF ProfileTypeOK, Knows
<1>7. ASSUME NEW v \in Worker PROVE Knows(v, job[v])' /\ SoleEditor(v, job[v])'
  <2>1. CASE v = w
    BY <1>1, <1>5, <2>1 DEF SoleEditor
  <2>2. CASE v # w
    <3>1. job'[v] = job[v] /\ Knows(v, job[v]) /\ SoleEditor(v, job[v])
      BY <1>0, <1>1, <2>2 DEF CallInv
    <3>2. SoleEditor(v, job[v])'
      BY <1>1, <3>1 DEF SoleEditor
    <3>3. CASE job[v].at = "idle"
      BY <3>1, <3>2, <3>3 DEF Knows
    <3>4. CASE job[v].at # "idle"
      <4>1. <<At[v], job[v].author>> \in Slot /\ job[v].version \in Nat
        BY <1>0, <3>4, ProfileAssumption DEF ProfileTypeOK, Slot, Job
      <4>2. row'[<<At[v], job[v].author>>].version
               >= row[<<At[v], job[v].author>>].version
        BY <1>4, <4>1
      <4>3. job[v].at \in {"track", "publish", "done"} =>
               row'[<<At[v], job[v].author>>].version >= job[v].version
        BY <1>4, <3>1, <4>1, <4>2 DEF Knows
      <4> QED BY <3>1, <3>2, <4>3 DEF Knows
    <3> QED BY <3>2, <3>3, <3>4
  <2> QED BY <2>1, <2>2
<1>8. HandledProfileKept'
  <2> SUFFICES ASSUME NEW h \in handled PROVE row'[<<h[1], h[2]>>].version >= h[3]
    BY DEF HandledProfileKept
  <2>1. <<h[1], h[2]>> \in Slot /\ h[3] \in Nat
    BY <1>0 DEF ProfileTypeOK, Slot
  <2>2. row[<<h[1], h[2]>>].version >= h[3]
    BY DEF IInv, ProfileInv, HandledProfileKept
  <2> QED BY <1>4, <2>1, <2>2
<1>9. AuthorLeads'
  <2> SUFFICES ASSUME NEW p \in sent
               PROVE  row'[<<Home[p.author], p.author>>].version >= p.version
    BY DEF AuthorLeads
  <2>1. <<Home[p.author], p.author>> \in Slot /\ p.version \in Nat
    BY <1>0, ProfileAssumption DEF ProfileTypeOK, Slot, Signed
  <2>2. row[<<Home[p.author], p.author>>].version >= p.version
    BY DEF IInv, ProfileInv, AuthorLeads
  <2> QED BY <1>4, <2>1, <2>2
<1>10. RowsPublished'
  <2> SUFFICES ASSUME NEW n \in Node, NEW a \in Author,
                      row'[<<n, a>>].version # 0, n # Home[a]
               PROVE  [author |-> a, version |-> row'[<<n, a>>].version,
                       edit |-> row'[<<n, a>>].edit] \in sent
    BY DEF RowsPublished
  <2>1. CASE row'[<<n, a>>] = row[<<n, a>>]
    BY <1>0, <2>1 DEF RowsPublished
  <2>2. CASE row'[<<n, a>>] # row[<<n, a>>]
    <3>1. <<n, a>> = SlotOf(w) /\ row'[<<n, a>>] = new
      BY <1>3, <2>2 DEF Slot
    <3>2. n = At[w] /\ a = job[w].author
      BY <3>1 DEF SlotOf
    <3> QED BY <3>1, <3>2
  <2> QED BY <2>1, <2>2
<1>11. ProfilesAgree'
  BY <1>10 DEF IInv, ProfileInv, ProfilesAgree, RowsPublished
<1> QED BY <1>6, <1>7, <1>8, <1>9, <1>10, <1>11 DEF IInv, ProfileInv, CallInv

-----------------------------------------------------------------------------
(* One step per action.                                                    *)

\* Every step of every node keeps the invariant.
LEMMA IInvStep ==
    ASSUME IInv, [Next]_vars
    PROVE  IInv'
<1>0. ProfileTypeOK /\ CallInv /\ HandledProfileKept /\ AuthorLeads
  BY DEF IInv, ProfileInv
<1>i. /\ IdleJob \in Job /\ IdleJob.at = "idle" /\ IdleJob.kind = "none"
      /\ \A w \in Worker : Knows(w, IdleJob) /\ SoleEditor(w, IdleJob)
  BY DEF IdleJob, Job, Kinds, Steps, Knows, SoleEditor, Edits
<1>t. ASSUME NEW w \in Worker, NEW t \in Steps
      PROVE  /\ [job[w] EXCEPT !.at = t] \in Job
             /\ SoleEditor(w, [job[w] EXCEPT !.at = t])
             /\ job' = [job EXCEPT ![w].at = t]
                   => job' = [job EXCEPT ![w] = [job[w] EXCEPT !.at = t]]
  BY <1>0 DEF ProfileTypeOK, CallInv, SoleEditor, Job
<1>1. ASSUME NEW w \in Worker, NEW a \in Author, NEW kind \in {"web", "api"},
             Edit(w, a, kind)
      PROVE  IInv'
  <2> DEFINE j == [kind |-> kind, at |-> "exists", author |-> a,
                   base |-> 0, version |-> 0, edit |-> edits + 1]
  <2>1. j \in Job
    BY <1>0 DEF ProfileTypeOK, Job, Kinds, Steps
  <2>2. Knows(w, j) /\ (orderly' => orderly /\ SoleEditor(w, j))
    BY <1>1 DEF Edit, Knows, SoleEditor, Edits
  <2>3. job' = [job EXCEPT ![w] = j]
    BY <1>1 DEF Edit
  <2> HIDE DEF j
  <2>4. /\ row' = row /\ sent' = sent /\ blob' = blob /\ tracked' = tracked
        /\ handled' = handled /\ edits' = edits + 1
        /\ faults' = faults /\ crashes' = crashes
    BY <1>1 DEF Edit, store
  <2>5. HandledProfileKept'
    BY <1>0, <2>4 DEF HandledProfileKept
  <2>6. /\ blob' \in [Slot -> Profile] /\ tracked' \subseteq Slot
        /\ handled' \subseteq Node \X Author \X Nat
        /\ edits' \in Nat /\ faults' \in Nat /\ crashes' \in Nat
    BY <1>0, <2>4 DEF ProfileTypeOK
  <2> QED
    BY <2>1, <2>2, <2>3, <2>4, <2>5, <2>6, CallStep
<1>2. ASSUME NEW w \in Worker, NEW p \in sent, HandleMessage(w, p)
      PROVE  IInv'
  <2> DEFINE j == [kind |-> "network", at |-> "check", base |-> 0,
                   author |-> p.author, version |-> p.version, edit |-> p.edit]
  <2>1. p \in Signed
        /\ p = [author |-> p.author, version |-> p.version, edit |-> p.edit]
    BY <1>0 DEF ProfileTypeOK, Signed
  <2>2. j \in Job
    BY <2>1 DEF Signed, Job, Kinds, Steps
  <2>3. Knows(w, j) /\ SoleEditor(w, j)
    BY <2>1 DEF Knows, SoleEditor, Edits, Signed
  <2>4. job' = [job EXCEPT ![w] = j]
    BY <1>2 DEF HandleMessage
  <2> HIDE DEF j
  <2>5. UNCHANGED <<row, blob, tracked, sent, handled, orderly, edits, faults, crashes>>
    BY <1>2 DEF HandleMessage, store, ghosts
  <2>6. HandledProfileKept'
    BY <1>0, <2>5 DEF HandledProfileKept
  <2> QED
    BY <1>0, <2>2, <2>3, <2>4, <2>5, <2>6, CallStep DEF ProfileTypeOK
<1>3. ASSUME NEW w \in Worker, NEW j \in Job, job' = [job EXCEPT ![w] = j],
             job[w].at \in {"exists", "version"},
             j.kind = job[w].kind, j.author = job[w].author,
             \/ j.at = "version"
             \/ j.at = "put" /\ j.version = row[SlotOf(w)].version + 1,
             UNCHANGED <<row, blob, tracked, sent, handled, orderly,
                         edits, faults, crashes>>
      PROVE  IInv'
  <2>1. job[w].kind \in Edits /\ Knows(w, job[w]) /\ SoleEditor(w, job[w])
    BY <1>0, <1>3 DEF CallInv, Knows
  <2>2. SlotOf(w) \in Slot /\ SlotOf(w) = <<Home[j.author], j.author>>
    BY <1>3, <2>1, ProfileAssumption DEF Knows, SlotOf, Slot
  <2>3. row[SlotOf(w)].version \in Nat
    BY <1>0, <2>2 DEF ProfileTypeOK, Profile
  <2>4. ASSUME NEW p \in sent, p.author = j.author, j.at = "put"
        PROVE  p.version < j.version
    <3>1. row[SlotOf(w)].version >= p.version /\ p.version \in Nat
      BY <1>0, <2>2, <2>4 DEF AuthorLeads, ProfileTypeOK, Signed
    <3>2. j.version = row[SlotOf(w)].version + 1
      BY <1>3, <2>4
    <3> QED BY <2>3, <3>1, <3>2
  <2>5. Knows(w, j) /\ SoleEditor(w, j)
    BY <1>3, <2>1, <2>4 DEF Knows, SoleEditor, Edits
  <2>6. HandledProfileKept'
    BY <1>0, <1>3 DEF HandledProfileKept
  <2> QED BY <1>0, <1>3, <2>5, <2>6, CallStep DEF ProfileTypeOK
<1>c. ASSUME NEW w \in Worker, CheckExists(w) PROVE IInv'
  <2>1. job[w] \in Job /\ job[w].at = "exists" /\ SlotOf(w) \in Slot
    BY <1>0, <1>c, ProfileAssumption DEF ProfileTypeOK, CheckExists, SlotOf, Slot
  <2>2. row[SlotOf(w)].version \in Nat
    BY <1>0, <2>1 DEF ProfileTypeOK, Profile
  <2>3. UNCHANGED <<row, blob, tracked, sent, handled, orderly, edits, faults, crashes>>
    BY <1>c DEF CheckExists, store, ghosts
  <2>4. CASE row[SlotOf(w)].version = 0
    <3>1. PICK j \in Job : j = [job[w] EXCEPT !.version = 1, !.at = "put"]
      BY <2>1 DEF Job, Steps
    <3>2. /\ j.kind = job[w].kind /\ j.author = job[w].author
          /\ j.at = "put" /\ j.version = 1
      BY <2>1, <3>1 DEF Job
    <3>3. job' = [job EXCEPT ![w] = j]
      BY <1>c, <2>4, <3>1 DEF CheckExists
    <3>4. j.version = row[SlotOf(w)].version + 1
      BY <2>4, <3>2
    <3> QED BY <1>3, <2>1, <2>3, <3>2, <3>3, <3>4
  <2>5. CASE row[SlotOf(w)].version # 0
    <3>1. PICK j \in Job : j = [job[w] EXCEPT !.base = row[SlotOf(w)].version,
                                              !.at = "version"]
      BY <2>1, <2>2 DEF Job, Steps
    <3>2. /\ j.kind = job[w].kind /\ j.author = job[w].author /\ j.at = "version"
      BY <2>1, <3>1 DEF Job
    <3>3. job' = [job EXCEPT ![w] = j]
      BY <1>c, <2>5, <3>1 DEF CheckExists
    <3> QED BY <1>3, <2>1, <2>3, <3>2, <3>3
  <2> QED BY <2>4, <2>5
<1>n. ASSUME NEW w \in Worker, NextVersion(w) PROVE IInv'
  <2>1. job[w] \in Job /\ job[w].at = "version" /\ SlotOf(w) \in Slot
    BY <1>0, <1>n, ProfileAssumption DEF ProfileTypeOK, NextVersion, SlotOf, Slot
  <2>2. row[SlotOf(w)].version \in Nat
    BY <1>0, <2>1 DEF ProfileTypeOK, Profile
  <2>3. UNCHANGED <<row, blob, tracked, sent, handled, orderly, edits, faults, crashes>>
    BY <1>n DEF NextVersion, store, ghosts
  <2>4. PICK j \in Job : j = [job[w] EXCEPT !.version = row[SlotOf(w)].version + 1,
                                            !.at = "put"]
    <3>1. PICK v \in Nat : v = row[SlotOf(w)].version + 1
      BY <2>2
    <3> QED BY <2>1, <3>1 DEF Job, Steps
  <2>5. /\ j.kind = job[w].kind /\ j.author = job[w].author
        /\ j.at = "put" /\ j.version = row[SlotOf(w)].version + 1
    BY <2>1, <2>4 DEF Job
  <2>6. job' = [job EXCEPT ![w] = j]
    BY <1>n, <2>4 DEF NextVersion
  <2> QED BY <1>3, <2>1, <2>3, <2>5, <2>6
<1>4. ASSUME NEW w \in Worker, NEW t \in Steps,
             job' = [job EXCEPT ![w].at = t],
             UNCHANGED <<row, sent, handled, orderly>>,
             blob' \in [Slot -> Profile], tracked' \subseteq Slot,
             edits' \in Nat, faults' \in Nat, crashes' \in Nat,
             Knows(w, [job[w] EXCEPT !.at = t])
      PROVE  IInv'
  <2>1. HandledProfileKept'
    BY <1>0, <1>4 DEF HandledProfileKept
  <2> QED
    BY <1>0, <1>t, <1>4, <2>1, CallStep DEF ProfileTypeOK
<1>5. ASSUME NEW w \in Worker, job' = [job EXCEPT ![w] = IdleJob],
             UNCHANGED <<row, sent, orderly>>,
             blob' \in [Slot -> Profile], tracked' \subseteq Slot,
             handled' \subseteq Node \X Author \X Nat, HandledProfileKept',
             edits' \in Nat, faults' \in Nat, crashes' \in Nat
      PROVE  IInv'
  BY <1>i, <1>5, CallStep
<1>6. ASSUME NEW w \in Worker, VersionGuard(w) PROVE IInv'
  <2>1. SlotOf(w) \in Slot /\ job[w] \in Job
    BY <1>0, <1>6, ProfileAssumption DEF ProfileTypeOK, VersionGuard, SlotOf, Slot
  <2>2. row[SlotOf(w)].version \in Nat /\ job[w].version \in Nat
    BY <1>0, <2>1 DEF ProfileTypeOK, Profile, Job
  <2>3. PICK t \in {"done", "put"} :
           /\ job' = [job EXCEPT ![w].at = t]
           /\ t = "done" => row[SlotOf(w)].version >= job[w].version
    BY <1>6 DEF VersionGuard, Goto
  <2>4. Knows(w, job[w]) /\ job[w].at = "check"
    BY <1>0, <1>6 DEF CallInv, VersionGuard
  <2>5. Knows(w, [job[w] EXCEPT !.at = t])
    BY <2>1, <2>3, <2>4 DEF Knows, Job, Edits, SlotOf
  <2>6. UNCHANGED <<row, blob, tracked, sent, handled, orderly, edits, faults, crashes>>
    BY <1>6 DEF VersionGuard, store, ghosts
  <2> QED BY <1>0, <1>4, <2>3, <2>5, <2>6 DEF ProfileTypeOK, Steps
<1>7. ASSUME NEW w \in Worker, CasPut(w) PROVE IInv'
  <2>1. job[w] \in Job /\ Knows(w, job[w]) /\ job[w].at = "put"
    BY <1>0, <1>7 DEF ProfileTypeOK, CallInv, CasPut
  <2>2. Mine(w) \in Profile
    BY <2>1 DEF Mine, Job, Profile
  <2>3. blob' \in [Slot -> Profile]
    BY <1>0, <1>7, <2>2 DEF ProfileTypeOK, CasPut
  <2>4. Knows(w, [job[w] EXCEPT !.at = "upsert"])
    BY <2>1 DEF Knows, Job, Edits
  <2>5. UNCHANGED <<row, tracked, sent, handled, orderly, edits, faults, crashes>>
    BY <1>7 DEF CasPut, ghosts
  <2> QED BY <1>0, <1>4, <1>7, <2>3, <2>4, <2>5 DEF ProfileTypeOK, CasPut, Goto, Steps
<1>8. ASSUME NEW w \in Worker, Track(w) PROVE IInv'
  <2>1. job[w] \in Job /\ Knows(w, job[w]) /\ job[w].at = "track"
    BY <1>0, <1>8 DEF ProfileTypeOK, CallInv, Track
  <2>2. tracked' \subseteq Slot
    BY <1>0, <1>8, <2>1, ProfileAssumption
       DEF ProfileTypeOK, Track, SlotOf, Slot, Knows
  <2>3. PICK t \in {"done", "publish"} :
           /\ job' = [job EXCEPT ![w].at = t]
           /\ t = "publish" => job[w].kind # "network"
    BY <1>8 DEF Track, Goto
  <2>4. Knows(w, [job[w] EXCEPT !.at = t])
    BY <2>1, <2>3 DEF Knows, Job, Edits, Kinds
  <2>5. UNCHANGED <<row, blob, sent, handled, orderly, edits, faults, crashes>>
    BY <1>8 DEF Track, ghosts
  <2> QED BY <1>0, <1>4, <2>2, <2>3, <2>4, <2>5 DEF ProfileTypeOK, Steps
<1>9. ASSUME NEW w \in Worker, Return(w) PROVE IInv'
  <2>1. job[w] \in Job /\ Knows(w, job[w]) /\ job[w].at = "done"
    BY <1>0, <1>9 DEF ProfileTypeOK, CallInv, Return
  <2>2. UNCHANGED <<row, blob, tracked, sent, orderly, edits, faults, crashes>>
    BY <1>9 DEF Return, store
  <2>3. job[w].author \in Author /\ job[w].version \in Nat /\ At[w] \in Node
    BY <2>1, ProfileAssumption DEF Knows, Job
  <2>4. /\ handled' \subseteq handled \cup {<<At[w], job[w].author, job[w].version>>}
    BY <1>9 DEF Return
  <2>5. row[<<At[w], job[w].author>>].version >= job[w].version
    BY <2>1 DEF Knows
  <2>6. HandledProfileKept'
    <3> SUFFICES ASSUME NEW h \in handled' PROVE row[<<h[1], h[2]>>].version >= h[3]
      BY <2>2 DEF HandledProfileKept
    <3>1. CASE h \in handled
      BY <1>0, <3>1 DEF HandledProfileKept
    <3>2. CASE h = <<At[w], job[w].author, job[w].version>>
      <4>1. h[1] = At[w] /\ h[2] = job[w].author /\ h[3] = job[w].version
        BY <3>2
      <4> QED BY <2>5, <4>1
    <3> QED BY <2>4, <3>1, <3>2
  <2>7. handled' \subseteq Node \X Author \X Nat
    BY <1>0, <2>3, <2>4 DEF ProfileTypeOK
  <2> QED BY <1>0, <1>5, <1>9, <2>2, <2>6, <2>7 DEF ProfileTypeOK, Return, Stop
<1>10. ASSUME NEW w \in Worker, Fail(w) PROVE IInv'
  <2>1. UNCHANGED <<row, blob, tracked, sent, handled, orderly, edits, crashes>>
        /\ faults' \in Nat
    BY <1>0, <1>10 DEF Fail, store, ghosts, ProfileTypeOK
  <2>2. CASE job' = [job EXCEPT ![w] = IdleJob]
    <3>1. HandledProfileKept'
      BY <1>0, <2>1 DEF HandledProfileKept
    <3> QED BY <1>0, <1>5, <2>1, <2>2, <3>1 DEF ProfileTypeOK
  <2>3. ASSUME NEW t \in {"fallback", "done"}, job' = [job EXCEPT ![w].at = t],
               job[w].at # "idle",
               t = "fallback" => job[w].kind = "api",
               t = "done" => job[w].at = "publish"
        PROVE  IInv'
    <3>1. job[w] \in Job /\ Knows(w, job[w])
      BY <1>0 DEF ProfileTypeOK, CallInv
    <3>2. Knows(w, [job[w] EXCEPT !.at = t])
      BY <2>3, <3>1 DEF Knows, Job, Edits
    <3> QED BY <1>0, <1>4, <2>1, <2>3, <3>2 DEF ProfileTypeOK, Steps
  <2> QED BY <1>10, <2>2, <2>3 DEF Fail, Goto, Stop
<1>11. ASSUME NEW w \in Worker, Upsert(w) PROVE IInv'
  <2>1. job[w] \in Job /\ Knows(w, job[w]) /\ SoleEditor(w, job[w])
        /\ job[w].at = "upsert"
    BY <1>0, <1>11 DEF ProfileTypeOK, CallInv, Upsert
  <2>2. PICK j \in Job : j = [job[w] EXCEPT !.at = "track"]
    BY <2>1 DEF Job, Steps
  <2>3. /\ j.kind = job[w].kind /\ j.author = job[w].author /\ j.at = "track"
        /\ j.version = job[w].version /\ j.edit = job[w].edit
    BY <2>1, <2>2 DEF Job
  <2>4. PICK new \in Profile : new = Mine(w)
    BY <2>1 DEF Mine, Job, Profile
  <2>5. new.version = job[w].version /\ new.edit = job[w].edit
    BY <2>4 DEF Mine
  <2>6. /\ row' = [row EXCEPT ![SlotOf(w)] = UpsertProfile(@, new)]
        /\ job' = [job EXCEPT ![w] = j]
        /\ UNCHANGED <<blob, tracked, sent, handled, orderly, edits, faults, crashes>>
    BY <1>0, <1>11, <2>2, <2>4 DEF Upsert, Goto, ghosts, ProfileTypeOK
  <2>7. \/ At[w] = Home[job[w].author]
        \/ [author |-> job[w].author, version |-> new.version,
            edit |-> new.edit] \in sent
    BY <2>1, <2>5 DEF Knows, Job, Kinds, Edits
  <2>8. SoleEditor(w, j)
    BY <2>1, <2>3 DEF SoleEditor
  <2>9. row'[SlotOf(w)].version >= new.version => Knows(w, j)'
    BY <2>1, <2>3, <2>5, <2>6 DEF Knows, SlotOf
  <2> QED BY <2>1, <2>6, <2>7, <2>8, <2>9, UpsertStep
<1>12. ASSUME NEW w \in Worker, FallbackUpsert(w) PROVE IInv'
  <2>1. job[w] \in Job /\ Knows(w, job[w]) /\ job[w].at = "fallback"
    BY <1>0, <1>12 DEF ProfileTypeOK, CallInv, FallbackUpsert
  <2>2. PICK new \in Profile :
            new = [version |-> job[w].base + 1, edit |-> job[w].edit]
    <3>1. PICK v \in Nat : v = job[w].base + 1
      BY <2>1 DEF Job
    <3> QED BY <2>1, <3>1 DEF Job, Profile
  <2>3. /\ row' = [row EXCEPT ![SlotOf(w)] = UpsertProfile(@, new)]
        /\ job' = [job EXCEPT ![w] = IdleJob]
        /\ UNCHANGED <<blob, tracked, sent, handled, orderly, edits, faults, crashes>>
    BY <1>12, <2>2 DEF FallbackUpsert, Stop, ghosts
  <2>4. At[w] = Home[job[w].author]
    BY <2>1 DEF Knows
  <2>5. Knows(w, IdleJob)' /\ SoleEditor(w, IdleJob)
    BY <1>i DEF Knows, Edits, IdleJob
  <2> QED BY <1>i, <2>1, <2>3, <2>4, <2>5, UpsertStep
<1>13. ASSUME NEW w \in Worker, Publish(w) PROVE IInv'
  <2>1. job[w] \in Job /\ Knows(w, job[w]) /\ SoleEditor(w, job[w])
        /\ job[w].at = "publish" /\ job[w].kind \in Edits
    BY <1>0, <1>13 DEF ProfileTypeOK, CallInv, Publish, Knows
  <2>2. PICK q \in Signed : q = [author |-> job[w].author, version |-> job[w].version,
                                 edit |-> job[w].edit]
    BY <2>1 DEF Job, Signed, Knows
  <2>3. /\ q.author = job[w].author /\ q.version = job[w].version
        /\ q.version \in Nat /\ q.author \in Author
    BY <2>2 DEF Signed
  <2>4. /\ sent' = sent \cup {q}
        /\ UNCHANGED <<row, blob, tracked, handled, orderly, edits, faults, crashes>>
    BY <1>13, <2>2 DEF Publish, store, ghosts
  <2>5. PICK j \in Job : j = [job[w] EXCEPT !.at = "done"]
    BY <2>1 DEF Job, Steps
  <2>6. /\ j.kind = job[w].kind /\ j.author = job[w].author /\ j.at = "done"
        /\ j.version = job[w].version
    BY <2>1, <2>5 DEF Job
  <2>7. /\ job' \in [Worker -> Job] /\ job'[w] = j
        /\ \A v \in Worker \ {w} : job'[v] = job[v]
    BY <1>0, <1>13, <2>5 DEF Publish, Goto, ProfileTypeOK
  <2>8. ProfileTypeOK'
    BY <1>0, <2>1, <2>4, <2>6, <2>7 DEF ProfileTypeOK, Knows
  <2>9. ASSUME NEW v \in Worker PROVE Knows(v, job[v])' /\ SoleEditor(v, job[v])'
    <3>1. CASE v = w
      <4>1. Knows(v, job[v])'
        BY <2>1, <2>4, <2>6, <2>7, <3>1 DEF Knows, Edits
      <4>2. SoleEditor(v, job[v])'
        BY <2>1, <2>4, <2>6, <2>7, <3>1 DEF SoleEditor
      <4> QED BY <4>1, <4>2
    <3>2. CASE v # w
      <4>1. job'[v] = job[v] /\ Knows(v, job[v]) /\ SoleEditor(v, job[v])
        BY <1>0, <2>7, <3>2 DEF CallInv
      <4>2. orderly /\ job[v].kind \in Edits => job[v].author # q.author
        BY <2>1, <2>3, <3>2 DEF SoleEditor
      <4>3. Knows(v, job[v])'
        BY <2>4, <4>1, <4>2 DEF Knows
      <4>4. SoleEditor(v, job[v])'
        BY <2>4, <2>6, <2>7, <3>2, <4>1 DEF SoleEditor
      <4> QED BY <4>3, <4>4
    <3> QED BY <3>1, <3>2
  <2>10. HandledProfileKept'
    BY <1>0, <2>4 DEF HandledProfileKept
  <2>11. AuthorLeads'
    <3>1. row[<<Home[q.author], q.author>>].version >= q.version
      BY <2>1, <2>3 DEF Knows
    <3> QED BY <1>0, <2>4, <3>1 DEF AuthorLeads
  <2>12. RowsPublished'
    BY <2>4 DEF IInv, RowsPublished
  <2>13. orderly => \A p, r \in sent' :
             p.author = r.author /\ p.version = r.version => p = r
    <3> SUFFICES ASSUME orderly, NEW p \in sent', NEW r \in sent',
                        p.author = r.author, p.version = r.version
                 PROVE  p = r
      OBVIOUS
    <3>1. \A x \in sent : x.author = q.author => x.version < q.version
      BY <2>1, <2>3 DEF Knows
    <3>2. \A x \in sent : x.author = q.author => x.version # q.version
      BY <1>0, <2>3, <3>1 DEF ProfileTypeOK, Signed
    <3>3. CASE p \in sent /\ r \in sent
      BY <3>3 DEF IInv, ProfileInv, ProfilesAgree
    <3> QED BY <2>4, <3>2, <3>3
  <2>14. ProfilesAgree'
    BY <2>4, <2>12, <2>13 DEF ProfilesAgree, RowsPublished
  <2> QED BY <2>8, <2>9, <2>10, <2>11, <2>12, <2>14 DEF IInv, ProfileInv, CallInv
<1>14. ASSUME NEW n \in Node, Crash(n) PROVE IInv'
  <2>1. /\ UNCHANGED <<row, blob, tracked, sent, handled, orderly, edits, faults>>
        /\ crashes' \in Nat
        /\ job' = [w \in Worker |-> IF At[w] = n THEN IdleJob ELSE job[w]]
    BY <1>0, <1>14 DEF Crash, store, ghosts, ProfileTypeOK
  <2>2. ASSUME NEW w \in Worker PROVE job'[w] = IdleJob \/ job'[w] = job[w]
    BY <2>1
  <2>3. ProfileTypeOK'
    BY <1>0, <1>i, <2>1, <2>2 DEF ProfileTypeOK
  <2>4. ASSUME NEW v \in Worker PROVE Knows(v, job[v])' /\ SoleEditor(v, job[v])'
    <3>1. Knows(v, job'[v])
      BY <1>0, <1>i, <2>2 DEF CallInv
    <3>2. Knows(v, job[v])'
      BY <2>1, <3>1 DEF Knows
    <3>3. CASE job'[v] = IdleJob
      BY <1>i, <3>2, <3>3 DEF SoleEditor, Edits
    <3>4. CASE job'[v] = job[v]
      <4>1. SoleEditor(v, job[v])
        BY <1>0 DEF CallInv
      <4>2. \A u \in Worker : job'[u].kind \in Edits => job'[u] = job[u]
        BY <1>i, <2>2 DEF Edits
      <4> QED BY <2>1, <3>2, <3>4, <4>1, <4>2 DEF SoleEditor
    <3> QED BY <2>2, <3>3, <3>4
  <2>5. HandledProfileKept' /\ AuthorLeads' /\ RowsPublished'
    BY <2>1 DEF IInv, ProfileInv, HandledProfileKept, AuthorLeads, RowsPublished
  <2>6. ProfilesAgree'
    BY <2>1 DEF IInv, ProfileInv, ProfilesAgree
  <2> QED BY <2>3, <2>4, <2>5, <2>6 DEF IInv, ProfileInv, CallInv
<1>15. CASE UNCHANGED vars
  BY <1>15 DEF vars, IInv, ProfileInv, ProfileTypeOK, CallInv, Knows, SoleEditor,
     HandledProfileKept, AuthorLeads, ProfilesAgree, RowsPublished
<1> QED
  BY <1>1, <1>2, <1>c, <1>n, <1>6, <1>7, <1>8, <1>9, <1>10, <1>11, <1>12, <1>13,
     <1>14, <1>15 DEF Next, WorkerStep

-----------------------------------------------------------------------------

\* The types are kept; a profile a node has handled is never lost; an author's
\* node never trails what it published; and without overlapping edits one
\* version is one profile on every node.
THEOREM ProfilesCorrect ==
    Spec => [](ProfileTypeOK /\ HandledProfileKept /\ AuthorLeads /\ ProfilesAgree)
<1>1. Init => IInv
  <2> SUFFICES ASSUME Init PROVE IInv
    OBVIOUS
  <2>1. ProfileTypeOK
    BY DEF Init, ProfileTypeOK, IdleJob, Job, Kinds, Steps, Profile, NoProfile
  <2>2. CallInv
    BY DEF Init, CallInv, Knows, SoleEditor, Edits, IdleJob
  <2>3. HandledProfileKept /\ AuthorLeads
    BY DEF Init, HandledProfileKept, AuthorLeads
  <2>4. \A s \in Slot : row[s].version = 0
    BY DEF Init, NoProfile
  <2>5. RowsPublished /\ ProfilesAgree
    BY <2>4 DEF Init, RowsPublished, ProfilesAgree, Slot
  <2> QED BY <2>1, <2>2, <2>3, <2>5 DEF IInv, ProfileInv
<1>2. IInv /\ [Next]_vars => IInv'
  BY IInvStep
<1>3. IInv => ProfileTypeOK /\ HandledProfileKept /\ AuthorLeads /\ ProfilesAgree
  BY DEF IInv, ProfileInv
<1> QED BY <1>1, <1>2, <1>3, PTL DEF Spec
=============================================================================
