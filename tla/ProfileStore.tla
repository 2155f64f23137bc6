---------------------------- MODULE ProfileStore ----------------------------
(***************************************************************************)
(* Profiles across nodes.  A profile is signed by its author with a        *)
(* version one above the stored one (pkg/social/profile.go), stored in the *)
(* profiles table and, under the author's key, in the content store, and   *)
(* published; every node that hears of it keeps it if the version is       *)
(* higher than the one it has (pkg/p2p/handlers.go).  The web form and the *)
(* JSON API (pkg/api/handlers/profile.go) run the same service; the API    *)
(* falls back to the bare table when the service fails.                    *)
(*                                                                         *)
(* The network loses, repeats and reorders profiles.  Every statement and  *)
(* every file replaced by rename is one step.                              *)
(***************************************************************************)
EXTENDS Naturals

CONSTANTS
    Node,           \* nodes
    Author,         \* profile owners
    Home,           \* the node that holds an author's key
    Worker,         \* goroutines serving a request or reading a topic
    At,             \* the node a worker runs on
    Nobody,         \* the author of an idle worker
    MaxEdits,       \* bound: profile edits asked for
    MaxFaults,      \* bound: failing statements and file operations
    MaxCrashes      \* bound: process crashes

ASSUME ProfileAssumption ==
    /\ Home \in [Author -> Node] /\ At \in [Worker -> Node]
    /\ Nobody \notin Author
    /\ MaxEdits \in Nat /\ MaxFaults \in Nat /\ MaxCrashes \in Nat

VARIABLES
    row,        \* profiles: the profile of an author in a node's table
    blob,       \* the profile in a node's content store, under the author's key
    tracked,    \* content_access rows of those files
    sent,       \* profiles handed to GossipSub
    handled,    \* ghost: profiles for which a node's HandleMessage returned nil
    job,        \* what each worker is doing
    orderly,    \* ghost: no two edits of one profile overlapped
    edits, faults, crashes

store == <<row, blob, tracked>>
ghosts == <<handled, orderly>>
vars == <<row, blob, tracked, sent, handled, job, orderly, edits, faults, crashes>>

Slot == Node \X Author

\* What a profile says is the number of the edit it was made by.  No profile
\* is version 0: the services start at 1.
Profile == [version : Nat, edit : Nat]
NoProfile == [version |-> 0, edit |-> 0]

Signed == [author : Author, version : Nat, edit : Nat]

\* "web" and "api" are edits, "network" is handleProfile.
Kinds == {"none", "web", "api", "network"}

Steps == {"idle", "check", "exists", "version", "put", "upsert", "track",
          "publish", "fallback", "done"}

IdleJob == [kind |-> "none", at |-> "idle", author |-> Nobody,
            base |-> 0, version |-> 0, edit |-> 0]

Job == [kind : Kinds, at : Steps, author : Author \cup {Nobody},
        base : Nat, version : Nat, edit : Nat]

-----------------------------------------------------------------------------

SlotOf(w) == <<At[w], job[w].author>>

Mine(w) == [version |-> job[w].version, edit |-> job[w].edit]

Goto(w, step) == job' = [job EXCEPT ![w].at = step]

Stop(w) == job' = [job EXCEPT ![w] = IdleJob]

\* INSERT ... ON CONFLICT DO UPDATE ... WHERE excluded.version > version.
UpsertProfile(old, new) == IF new.version > old.version THEN new ELSE old

\* A request to edit one's profile.
Edit(w, a, kind) ==
    /\ job[w].at = "idle"
    /\ At[w] = Home[a]
    /\ edits < MaxEdits
    /\ edits' = edits + 1
    /\ job' = [job EXCEPT ![w] = [kind |-> kind, at |-> "exists", author |-> a,
                                  base |-> 0, version |-> 0, edit |-> edits + 1]]
    /\ orderly' = (orderly /\ \A v \in Worker :
                      job[v].kind \in {"web", "api"} => job[v].author # a)
    /\ UNCHANGED <<store, sent, handled, faults, crashes>>

\* The caller's GetProfile: without a profile create version 1, else update.
CheckExists(w) ==
    LET v == row[SlotOf(w)].version IN
    /\ job[w].at = "exists"
    /\ job' = [job EXCEPT ![w] =
                  IF v = 0 THEN [@ EXCEPT !.version = 1, !.at = "put"]
                  ELSE [@ EXCEPT !.base = v, !.at = "version"]]
    /\ UNCHANGED <<store, sent, ghosts, edits, faults, crashes>>

\* Mutant: the version read is used again.
SameVersion(w) ==
    /\ job[w].at = "version"
    /\ job' = [job EXCEPT ![w] =
                  [@ EXCEPT !.version = row[SlotOf(w)].version, !.at = "put"]]
    /\ UNCHANGED <<store, sent, ghosts, edits, faults, crashes>>

\* updateProfileWith's own GetProfile.
NextVersion(w) ==
    /\ job[w].at = "version"
    /\ job' = [job EXCEPT ![w] =
                  [@ EXCEPT !.version = row[SlotOf(w)].version + 1, !.at = "put"]]
    /\ UNCHANGED <<store, sent, ghosts, edits, faults, crashes>>

\* handleProfile of a published profile: the version guard comes first.
HandleMessage(w, p) ==
    /\ job[w].at = "idle"
    /\ job' = [job EXCEPT ![w] = [kind |-> "network", at |-> "check", base |-> 0,
                                  author |-> p.author, version |-> p.version,
                                  edit |-> p.edit]]
    /\ UNCHANGED <<store, sent, ghosts, edits, faults, crashes>>

VersionGuard(w) ==
    /\ job[w].at = "check"
    /\ Goto(w, IF row[SlotOf(w)].version >= job[w].version THEN "done" ELSE "put")
    /\ UNCHANGED <<store, sent, ghosts, edits, faults, crashes>>

CasPut(w) ==
    /\ job[w].at = "put"
    /\ blob' = [blob EXCEPT ![SlotOf(w)] = Mine(w)]
    /\ Goto(w, "upsert")
    /\ UNCHANGED <<row, tracked, sent, ghosts, edits, faults, crashes>>

Upsert(w) ==
    /\ job[w].at = "upsert"
    /\ row' = [row EXCEPT ![SlotOf(w)] = UpsertProfile(@, Mine(w))]
    /\ Goto(w, "track")
    /\ UNCHANGED <<blob, tracked, sent, ghosts, edits, faults, crashes>>

Track(w) ==
    /\ job[w].at = "track"
    /\ tracked' = tracked \cup {SlotOf(w)}
    /\ Goto(w, IF job[w].kind = "network" THEN "done" ELSE "publish")
    /\ UNCHANGED <<row, blob, sent, ghosts, edits, faults, crashes>>

Publish(w) ==
    /\ job[w].at = "publish"
    /\ sent' = sent \cup {[author |-> job[w].author, version |-> job[w].version,
                           edit |-> job[w].edit]}
    /\ Goto(w, "done")
    /\ UNCHANGED <<store, ghosts, edits, faults, crashes>>

Return(w) ==
    /\ job[w].at = "done"
    /\ handled' = IF job[w].kind = "network"
                  THEN handled \cup {<<At[w], job[w].author, job[w].version>>}
                  ELSE handled
    /\ Stop(w)
    /\ UNCHANGED <<store, sent, orderly, edits, faults, crashes>>

\* The API writes the profile of a failed service call to the table, with the
\* version after the one it saw itself; nothing is signed or published.
FallbackUpsert(w) ==
    /\ job[w].at = "fallback"
    /\ row' = [row EXCEPT ![SlotOf(w)] =
                  UpsertProfile(@, [version |-> job[w].base + 1, edit |-> job[w].edit])]
    /\ Stop(w)
    /\ UNCHANGED <<blob, tracked, sent, ghosts, edits, faults, crashes>>

\* A statement or file operation fails: the service or the handler returns
\* the error, and the API falls back.  A failing publish is logged.
Fail(w) ==
    /\ faults < MaxFaults
    /\ \/ /\ job[w].at \in {"version", "put", "upsert", "track"}
          /\ IF job[w].kind = "api" THEN Goto(w, "fallback") ELSE Stop(w)
       \/ job[w].at \in {"check", "exists", "fallback"} /\ Stop(w)
       \/ job[w].at = "publish" /\ Goto(w, "done")
    /\ faults' = faults + 1
    /\ UNCHANGED <<store, sent, ghosts, edits, crashes>>

\* A node crashes: its goroutines are gone, tables and files survive.
Crash(n) ==
    /\ crashes < MaxCrashes
    /\ crashes' = crashes + 1
    /\ job' = [w \in Worker |-> IF At[w] = n THEN IdleJob ELSE job[w]]
    /\ UNCHANGED <<store, sent, ghosts, edits, faults>>

WorkerStep(w) ==
    \/ CheckExists(w) \/ NextVersion(w) \/ VersionGuard(w) \/ CasPut(w)
    \/ Upsert(w) \/ Track(w) \/ Publish(w) \/ Return(w) \/ FallbackUpsert(w)

Init ==
    /\ row = [s \in Slot |-> NoProfile]
    /\ blob = [s \in Slot |-> NoProfile]
    /\ tracked = {} /\ sent = {} /\ handled = {}
    /\ job = [w \in Worker |-> IdleJob]
    /\ orderly = TRUE
    /\ edits = 0 /\ faults = 0 /\ crashes = 0

Next ==
    \/ \E w \in Worker, a \in Author, kind \in {"web", "api"} : Edit(w, a, kind)
    \/ \E w \in Worker, p \in sent : HandleMessage(w, p)
    \/ \E w \in Worker : WorkerStep(w) \/ Fail(w)
    \/ \E n \in Node : Crash(n)

Spec == Init /\ [][Next]_vars

-----------------------------------------------------------------------------

\* Every variable has its type, and a busy worker has an author.
ProfileTypeOK ==
    /\ row \in [Slot -> Profile] /\ blob \in [Slot -> Profile]
    /\ tracked \subseteq Slot
    /\ sent \subseteq Signed
    /\ handled \subseteq Node \X Author \X Nat
    /\ job \in [Worker -> Job]
    /\ \A w \in Worker : job[w].at # "idle" => job[w].author \in Author
    /\ edits \in Nat /\ faults \in Nat /\ crashes \in Nat

\* A profile that HandleMessage accepted, or ignored as stale, is never lost
\* again: the table holds that version or a later one, although the version
\* guard and the upsert are separate statements and other handlers, edits and
\* crashes come between them.
HandledProfileKept ==
    \A h \in handled : row[<<h[1], h[2]>>].version >= h[3]

\* An author's own node never trails what it has published, so that the next
\* edit supersedes everything other nodes can have seen.
AuthorLeads ==
    \A p \in sent : row[<<Home[p.author], p.author>>].version >= p.version

\* As long as the edits of a profile do not overlap, one version is one
\* profile: nodes that hold the same version of a published profile hold the
\* same profile, whatever failed, crashed or arrived out of order on the way.
ProfilesAgree ==
    orderly =>
        /\ \A p, q \in sent : p.author = q.author /\ p.version = q.version => p = q
        /\ \A n \in Node, a \in Author :
             /\ row[<<n, a>>].version # 0 /\ n # Home[a]
             => [author |-> a, version |-> row[<<n, a>>].version,
                 edit |-> row[<<n, a>>].edit] \in sent

\* No two different profiles are published under one version.
VersionsIncrease ==
    \A p, q \in sent : p.author = q.author /\ p.version = q.version => p = q
=============================================================================
