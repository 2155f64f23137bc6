------------------------ MODULE ContentExchangeProofs ------------------------
(***************************************************************************)
(* Proofs about ContentExchange for any media, goroutines, limits and      *)
(* bounds.  The invariant says of each goroutine what it may be doing by   *)
(* the step it is at (Local), relates it to fetchInFlight (Shared) and the *)
(* temp files to their owners; the limits follow on top of it by counting. *)
(* NetworkStart: a round of the bootstrap is judged right, for any         *)
(* addresses, sources and changes of the network.                          *)
(***************************************************************************)
EXTENDS ContentExchange, NetworkStart, FiniteSetTheorems, TLAPS

Holding == {"release", "record", "cache", "reopen", "opentemp", "store"}

\* What a goroutine in state s can be doing: the steps of its kind of call,
\* with a temp file only between a successful fetch and its removal.
Local(s) ==
    /\ s \in ThreadState
    /\ s.at = "idle" <=> s.kind = "none"
    /\ s.at # "idle" => s.cid \in Cid
    /\ s.kind = "prefetch" => s.media \in Media
    /\ s.at \in {"open", "cache", "reopen", "opentemp", "serve"} => s.kind = "get"
    /\ s.at \in {"local", "join", "wait"} => s.kind = "shared"
    /\ s.at \in {"slot", "has", "store", "track", "mark", "unslot", "unlist"}
          => s.kind = "prefetch"
    /\ s.at = "backoff" => s.kind \in {"get", "prefetch"}
    /\ s.temp => /\ s.at \in Holding /\ s.kind # "shared"
                 /\ s.at \in {"release", "record"} => s.ok

\* How goroutine t in state s stands to fetchInFlight.
Shared(t, s) ==
    /\ s.kind = "shared" /\ s.at \in Leading => inFlight[s.cid] = t
    /\ s.at = "wait" => inFlight[s.cid] = s.call /\ s.call # NoThread
    /\ \A c \in Cid : inFlight[c] = t =>
          s.kind = "shared" /\ s.at \in Leading /\ s.cid = c

Others ==
    /\ cas \subseteq Cid /\ rows \subseteq Media /\ fetched \subseteq Media
    /\ thumbs \in [Media -> Cid \cup {NoCid}] /\ restated \subseteq Media
    /\ permits \in Nat /\ slots \in Nat
    /\ prefetching \subseteq Media
    /\ inFlight \in [Cid -> Thread \cup {NoThread}]
    /\ backoff \subseteq Cid /\ evicted \subseteq Cid
    /\ calls \in Nat /\ faults \in Nat

ExInv ==
    /\ Others
    /\ thread \in [Thread -> ThreadState]
    /\ \A t \in Thread : Local(thread[t]) /\ Shared(t, thread[t])
    /\ temps \subseteq Thread
    /\ TempFilesOwned

-----------------------------------------------------------------------------

\* A goroutine without a call is in order.
LEMMA IdleOK ==
    /\ Idle \in ThreadState /\ Idle.kind = "none" /\ Idle.at = "idle"
    /\ Idle.temp = FALSE /\ Local(Idle)
<1>1. /\ Idle \in ThreadState /\ Idle.kind = "none" /\ Idle.at = "idle"
      /\ Idle.temp = FALSE
  BY ExchangeAssumption DEF Idle, ThreadState, Kinds, Steps
<1> QED BY <1>1 DEF Local

LEMMA InitOK == Init => ExInv
<1> SUFFICES ASSUME Init PROVE ExInv
  OBVIOUS
<1> USE ExchangeAssumption
<1>1. Idle \in ThreadState /\ Idle.temp = FALSE /\ Idle.at = "idle" /\ Idle.kind = "none"
  BY IdleOK
<1>2. Local(Idle)
  BY IdleOK
<1>3. Others
  BY DEF Init, Others
<1>4. \A t \in Thread : Shared(t, Idle)
  BY <1>1 DEF Init, Shared, Leading
<1>5. thread \in [Thread -> ThreadState] /\ temps \subseteq Thread /\ TempFilesOwned
  BY <1>1 DEF Init, TempFilesOwned
<1> QED BY <1>2, <1>3, <1>4, <1>5 DEF Init, ExInv

\* A step that puts one goroutine into a state that is in order and accounts
\* for its temp file keeps the invariant.
LEMMA ThreadStep ==
    ASSUME ExInv, NEW t \in Thread, NEW s,
           thread' = [thread EXCEPT ![t] = s], Local(s), Shared(t, s),
           inFlight' = inFlight, Others',
           temps' = IF s.temp THEN temps \cup {t} ELSE temps \ {t}
    PROVE  ExInv'
<1>1. /\ s \in ThreadState /\ thread' \in [Thread -> ThreadState] /\ thread'[t] = s
      /\ \A u \in Thread \ {t} : thread'[u] = thread[u]
  BY DEF ExInv, Local
<1>2. ASSUME NEW u \in Thread PROVE Local(thread'[u]) /\ Shared(u, thread'[u])
  BY <1>1 DEF ExInv
<1>3. \A u \in Thread : Local(thread[u])' /\ Shared(u, thread[u])'
  BY <1>2 DEF Local, Shared
<1>4. temps' \subseteq Thread /\ TempFilesOwned'
  BY <1>1 DEF ExInv, TempFilesOwned
<1> QED BY <1>1, <1>3, <1>4 DEF ExInv

-----------------------------------------------------------------------------
(* Calls.                                                                  *)

\* A goroutine that starts a call is in order and has no temp file.
LEMMA LaunchOK ==
    ASSUME ExInv, NEW t \in Thread, NEW kind \in Kinds, NEW step \in Steps,
           NEW c \in Cid, NEW next \in Cid \cup {NoCid}, NEW m \in Media \cup {NoCid},
           Launch(t, kind, step, c, next, m),
           \/ kind = "get" /\ step = "open"
           \/ kind = "shared" /\ step = "local"
           \/ kind = "prefetch" /\ step = "slot" /\ m \in Media,
           inFlight' = inFlight, temps' = temps, Others'
    PROVE  ExInv'
<1> DEFINE s == [Idle EXCEPT !.kind = kind, !.at = step, !.cid = c,
                             !.next = next, !.media = m]
<1>1. /\ s \in ThreadState /\ s.kind = kind /\ s.at = step /\ s.cid = c
      /\ s.media = m /\ s.temp = FALSE
  BY ExchangeAssumption DEF Idle, ThreadState
<1>2. Local(s)
  BY <1>1 DEF Local
<1>3. Local(thread[t]) /\ Shared(t, thread[t]) /\ thread[t].at = "idle"
  BY DEF ExInv, Launch, At
<1>4. Shared(t, s)
  BY <1>1, <1>3 DEF Shared, Leading, Local
<1>5. temps' = IF s.temp THEN temps \cup {t} ELSE temps \ {t}
  BY <1>1, <1>3 DEF ExInv, TempFilesOwned, Local, Holding
<1>6. thread' = [thread EXCEPT ![t] = s]
  BY DEF Launch
<1> HIDE DEF s
<1> QED BY <1>2, <1>4, <1>5, <1>6, ThreadStep

LEMMA CallOK ==
    ASSUME ExInv, NEW t \in Thread, Call(t)
    PROVE  ExInv'
<1> USE ExchangeAssumption
<1>0. "get" \in Kinds /\ "shared" \in Kinds /\ "prefetch" \in Kinds
      /\ "open" \in Steps /\ "local" \in Steps /\ "slot" \in Steps
  BY DEF Kinds, Steps
<1>1. ASSUME NEW c \in Cid, GetMedia(t, c) PROVE ExInv'
  <2>1. Others'
    BY <1>1 DEF ExInv, Others, GetMedia, Counted, media, limits
  <2> QED BY <1>0, <1>1, <2>1, LaunchOK DEF GetMedia
<1>2. ASSUME NEW c \in Cid, FetchContent(t, c) PROVE ExInv'
  <2>1. Others'
    BY <1>2 DEF ExInv, Others, FetchContent, Counted, media, limits
  <2> QED BY <1>0, <1>2, <2>1, LaunchOK DEF FetchContent
<1>3. ASSUME NEW m \in Media, GetMediaThumbnail(t, m) PROVE ExInv'
  <2>1. Others'
    BY <1>3 DEF ExInv, Others, GetMediaThumbnail, Counted, media, limits
  <2>2. thumbs[m] \in Cid /\ m \in Cid
    BY <1>3 DEF GetMediaThumbnail, ExInv, Others
  <2> QED BY <1>0, <1>3, <2>1, <2>2, LaunchOK DEF GetMediaThumbnail
<1>4. ASSUME NEW a \in Announced, NEW pin \in BOOLEAN,
             HandleMediaObject(t, a[1], a[2], pin)
      PROVE  ExInv'
  <2>1. a[1] \in Media /\ a[1] \in Cid /\ a[2] \in Cid \cup {NoCid}
    OBVIOUS
  <2>2. Others'
    <3>1. rows' \subseteq Media /\ thumbs' \in [Media -> Cid \cup {NoCid}]
          /\ restated' \subseteq Media
      BY <1>4, <2>1 DEF ExInv, Others, HandleMediaObject
    <3>2. prefetching' \subseteq Media
      BY <1>4, <2>1 DEF ExInv, Others, HandleMediaObject
    <3> QED BY <1>4, <3>1, <3>2 DEF ExInv, Others, HandleMediaObject, Counted
  <2>3. CASE pin /\ a[1] \notin prefetching
    <3>1. Launch(t, "prefetch", "slot", a[1], a[2], a[1])
      BY <1>4, <2>3 DEF HandleMediaObject
    <3> QED BY <1>0, <1>4, <2>1, <2>2, <3>1, LaunchOK DEF HandleMediaObject
  <2>4. CASE ~(pin /\ a[1] \notin prefetching)
    <3>1. UNCHANGED <<thread, temps, inFlight>>
      BY <1>4, <2>4 DEF HandleMediaObject
    <3> QED BY <2>2, <3>1 DEF ExInv, Local, Shared, TempFilesOwned
  <2> QED BY <2>3, <2>4
<1> QED BY <1>1, <1>2, <1>3, <1>4 DEF Call

-----------------------------------------------------------------------------
(* Steps.                                                                  *)

\* The program counter of a call moves: the new step must suit the kind of
\* call and what it holds, and neither enter nor leave the shared fetch.
LEMMA GotoOK ==
    ASSUME ExInv, NEW t \in Thread, NEW step \in Steps,
           Goto(t, step), Local([thread[t] EXCEPT !.at = step]),
           thread[t].kind = "shared" =>
               (thread[t].at \in Leading <=> step \in Leading) /\ step # "wait",
           inFlight' = inFlight, temps' = temps, Others'
    PROVE  ExInv'
<1> DEFINE s == [thread[t] EXCEPT !.at = step]
<1>1. thread[t] \in ThreadState /\ Local(thread[t]) /\ Shared(t, thread[t])
  BY DEF ExInv
<1>2. /\ s \in ThreadState /\ s.at = step /\ s.kind = thread[t].kind
      /\ s.cid = thread[t].cid /\ s.temp = thread[t].temp /\ s.call = thread[t].call
  BY <1>1 DEF ThreadState
<1>3. Shared(t, s)
  BY <1>1, <1>2 DEF Shared, Local
<1>4. temps' = IF s.temp THEN temps \cup {t} ELSE temps \ {t}
  BY <1>2 DEF ExInv, TempFilesOwned
<1>5. thread' = [thread EXCEPT ![t] = s]
  BY DEF Goto
<1>6. Local(s)
  OBVIOUS
<1> HIDE DEF s
<1> QED BY <1>3, <1>4, <1>5, <1>6, ThreadStep

\* A call without a temp file that is not the one in flight ends.
LEMMA ReturnOK ==
    ASSUME ExInv, NEW t \in Thread, Return(t),
           thread[t].kind = "shared" => thread[t].at \notin Leading,
           inFlight' = inFlight, temps' = temps \ {t}, Others'
    PROVE  ExInv'
<1>1. Idle.kind = "none" /\ Idle.at = "idle" /\ Idle.temp = FALSE
  BY IdleOK
<1>2. Local(Idle)
  BY IdleOK
<1>3. Shared(t, thread[t])
  BY DEF ExInv
<1>4. Shared(t, Idle)
  BY <1>1, <1>3 DEF Shared, Leading
<1>5. temps' = IF Idle.temp THEN temps \cup {t} ELSE temps \ {t}
  BY <1>1
<1>6. thread' = [thread EXCEPT ![t] = Idle]
  BY DEF Return
<1> QED BY <1>2, <1>4, <1>5, <1>6, ThreadStep

\* A call that holds no temp file is none of the owners.
LEMMA NoTemp ==
    ASSUME ExInv, NEW t \in Thread, ~thread[t].temp
    PROVE  temps \ {t} = temps
BY DEF ExInv, TempFilesOwned

\* What the control of a fetch comes to: a call in order that is out of the
\* shared fetch, with the temp file it had.
LEMMA FetchedOK ==
    ASSUME NEW s, Local(s), s.at \in {"backoff", "record"}, s.kind # "shared",
           s.at = "backoff" => ~s.ok
    PROVE  /\ Local(Fetched(s)) /\ Fetched(s).temp = s.temp
           /\ Fetched(s).at \notin Leading \cup {"wait"}
<1>1. /\ s \in ThreadState /\ s.kind \in {"get", "prefetch"}
      /\ s.cid \in Cid /\ (s.temp => s.ok)
  BY DEF Local, ThreadState, Kinds, Holding
<1>2. CASE s.ok
  <2>1. s.at = "record"
    BY <1>2
  <2>2. CASE s.kind = "get"
    <3>1. Fetched(s) = [s EXCEPT !.at = "cache"]
      BY <1>2, <2>2 DEF Fetched
    <3> QED BY <1>1, <2>1, <2>2, <3>1 DEF Local, ThreadState, Steps, Holding, Leading
  <2>3. CASE s.kind = "prefetch"
    <3>1. Fetched(s) = [s EXCEPT !.at = "store"]
      BY <1>2, <2>3 DEF Fetched
    <3> QED BY <1>1, <2>1, <2>3, <3>1 DEF Local, ThreadState, Steps, Holding, Leading
  <2> QED BY <1>1, <2>2, <2>3
<1>3. CASE ~s.ok
  <2>0. s.temp = FALSE
    BY <1>1, <1>3 DEF ThreadState
  <2>1. CASE s.kind = "get" /\ s.next = NoCid
    <3>1. Fetched(s) = Idle
      BY <1>3, <2>1 DEF Fetched, NextSource
    <3> QED BY <2>0, <3>1, IdleOK DEF Leading
  <2>2. CASE s.kind = "get" /\ s.next # NoCid
    <3>1. Fetched(s) = [s EXCEPT !.cid = s.next, !.next = NoCid, !.ok = FALSE,
                                 !.at = "open"]
      BY <1>3, <2>2 DEF Fetched, NextSource
    <3>2. s.next \in Cid
      BY <1>1, <2>2 DEF ThreadState
    <3> QED BY <1>1, <2>0, <2>2, <3>1, <3>2
        DEF Local, ThreadState, Steps, Leading
  <2>3. CASE s.kind = "prefetch"
    <3>1. Fetched(s) = [s EXCEPT !.at = "unslot"]
      BY <1>3, <2>3 DEF Fetched
    <3> QED BY <1>1, <2>0, <2>3, <3>1 DEF Local, ThreadState, Steps, Holding, Leading
  <2> QED BY <1>1, <2>1, <2>2, <2>3
<1> QED BY <1>2, <1>3

\* A remote fetch, step by step.
LEMMA FetchStepOK ==
    ASSUME ExInv, NEW t \in Thread,
           \/ CheckBackoff(t) \/ TryLocal(t) \/ JoinFetch(t) \/ AcquirePermit(t)
           \/ FetchRemote(t) \/ ReleasePermit(t) \/ RecordResult(t)
           \/ FinishShared(t) \/ ContextDone(t)
    PROVE  ExInv'
<1> DEFINE j == thread[t]
<1>0. /\ j \in ThreadState /\ Local(j) /\ Shared(t, j)
      /\ j.temp \in BOOLEAN /\ j.ok \in BOOLEAN /\ (t \in temps <=> j.temp)
      /\ temps \subseteq Thread
  BY DEF ExInv, ThreadState, TempFilesOwned
<1>1. CASE CheckBackoff(t)
  <2>1. Others'
    BY <1>1 DEF ExInv, Others, CheckBackoff, media, limits, bounds
  <2>2. At(t, "backoff") /\ j.at = "backoff" /\ j.kind # "shared" /\ j.temp = FALSE
    BY <1>0, <1>1 DEF CheckBackoff, At, Local, Holding
  <2>3. CASE j.cid \in backoff
    <3> DEFINE a == [j EXCEPT !.ok = FALSE]
    <3>1. Local(a) /\ a.at = "backoff" /\ a.kind # "shared" /\ a.ok = FALSE
          /\ a.temp = FALSE
      BY <1>0, <2>2 DEF Local, ThreadState
    <3>2. thread' = [thread EXCEPT ![t] = Fetched(a)]
      BY <1>1, <2>3 DEF CheckBackoff
    <3> HIDE DEF a
    <3>3. Local(Fetched(a)) /\ Fetched(a).temp = FALSE
          /\ Fetched(a).at \notin Leading \cup {"wait"}
      BY <3>1, FetchedOK
    <3>4. Shared(t, Fetched(a))
      BY <1>0, <2>2, <3>3 DEF Shared, Leading
    <3> QED BY <1>0, <1>1, <2>1, <2>2, <3>2, <3>3, <3>4, ThreadStep DEF CheckBackoff
  <2>4. CASE j.cid \notin backoff
    <3>1. Local([j EXCEPT !.at = "acquire"])
      BY <1>0, <2>2 DEF Local, ThreadState, Steps, Holding
    <3>2. Goto(t, "acquire")
      BY <1>1, <2>4 DEF CheckBackoff, Goto
    <3> QED BY <1>1, <2>1, <2>2, <3>1, <3>2, GotoOK DEF CheckBackoff, Steps
  <2> QED BY <2>3, <2>4
<1>2. CASE TryLocal(t)
  <2>1. Others'
    BY <1>2 DEF ExInv, Others, TryLocal, media, limits, bounds
  <2>2. j.at = "local" /\ j.kind = "shared" /\ ~j.temp
    BY <1>0, <1>2 DEF TryLocal, At, Local, Holding
  <2>3. Local([j EXCEPT !.at = "join"])
    BY <1>0, <2>2 DEF Local, ThreadState, Steps, Holding
  <2>4. CASE Return(t)
    BY <1>2, <2>1, <2>2, <2>4, ReturnOK, NoTemp DEF TryLocal, Leading
  <2>5. CASE Goto(t, "join")
    BY <1>2, <2>1, <2>2, <2>3, <2>5, GotoOK DEF TryLocal, Steps, Leading
  <2> QED BY <1>2, <2>4, <2>5 DEF TryLocal
<1>3. CASE JoinFetch(t)
  <2>0. j.at = "join" /\ j.kind = "shared" /\ ~j.temp /\ j.cid \in Cid
    BY <1>0, <1>3 DEF JoinFetch, At, Local, Holding
  <2>1. Others'
    <3>1. inFlight' \in [Cid -> Thread \cup {NoThread}]
      BY <1>3 DEF ExInv, Others, JoinFetch
    <3> QED BY <1>3, <3>1 DEF ExInv, Others, JoinFetch, media, limits, bounds
  <2>2. CASE Return(t) /\ UNCHANGED inFlight
    BY <1>3, <2>0, <2>1, <2>2, ReturnOK, NoTemp DEF JoinFetch, Leading
  <2>3. CASE /\ inFlight[j.cid] # NoThread
             /\ thread' = [thread EXCEPT ![t] =
                             [@ EXCEPT !.call = inFlight[j.cid], !.at = "wait"]]
             /\ UNCHANGED inFlight
    <3> DEFINE a == [j EXCEPT !.call = inFlight[j.cid], !.at = "wait"]
    <3>1. inFlight[j.cid] \in Thread
      BY <2>0, <2>3 DEF ExInv, Others
    <3>2. /\ a \in ThreadState /\ a.at = "wait" /\ a.kind = "shared"
          /\ a.cid = j.cid /\ a.call = inFlight[j.cid] /\ a.temp = FALSE
          /\ a.media = j.media
      BY <1>0, <2>0, <3>1 DEF ThreadState, Steps
    <3>3. thread' = [thread EXCEPT ![t] = a]
      BY <2>3
    <3> HIDE DEF a
    <3>4. Local(a)
      BY <1>0, <2>0, <3>2 DEF Local
    <3>5. Shared(t, a)
      BY <1>0, <2>0, <2>3, <3>2 DEF Shared, Leading
    <3>6. temps' = temps
      BY <1>3 DEF JoinFetch
    <3> QED BY <1>0, <2>0, <2>1, <2>3, <3>2, <3>3, <3>4, <3>5, <3>6, ThreadStep
  <2>4. CASE /\ inFlight[j.cid] = NoThread
             /\ inFlight' = [inFlight EXCEPT ![j.cid] = t]
             /\ Goto(t, "acquire")
    <3> DEFINE a == [j EXCEPT !.at = "acquire"]
    <3>1. /\ a \in ThreadState /\ a.at = "acquire" /\ a.kind = "shared"
          /\ a.cid = j.cid /\ a.temp = FALSE
      BY <1>0, <2>0 DEF ThreadState, Steps
    <3>2. thread' = [thread EXCEPT ![t] = a]
      BY <2>4 DEF Goto
    <3> HIDE DEF a
    <3>3. Local(a)
      BY <1>0, <2>0, <3>1 DEF Local
    <3>4. /\ thread' \in [Thread -> ThreadState] /\ thread'[t] = a
          /\ \A u \in Thread \ {t} : thread'[u] = thread[u]
      BY <3>1, <3>2 DEF ExInv
    <3>5. \A c \in Cid : inFlight'[c] = IF c = j.cid THEN t ELSE inFlight[c]
      BY <2>4 DEF ExInv, Others
    <3>6. ASSUME NEW u \in Thread PROVE Local(thread'[u])
      BY <3>3, <3>4 DEF ExInv
    <3>7. Shared(t, thread[t])'
      BY <1>0, <2>0, <3>1, <3>4, <3>5 DEF Shared, Leading
    <3>8. ASSUME NEW u \in Thread \ {t} PROVE Shared(u, thread[u])'
      <4>1. Shared(u, thread[u]) /\ thread'[u] = thread[u] /\ Local(thread[u])
        BY <3>4 DEF ExInv
      <4>2. thread[u].at # "idle" => thread[u].cid \in Cid
        BY <4>1 DEF Local
      <4>3. u # NoThread
        BY ExchangeAssumption
      <4> QED BY <2>0, <2>4, <3>5, <4>1, <4>2, <4>3 DEF Shared, Leading
    <3>9. temps' = temps /\ TempFilesOwned'
      BY <1>0, <1>3, <2>0, <3>1, <3>4 DEF JoinFetch, ExInv, TempFilesOwned
    <3> QED BY <1>0, <2>1, <3>4, <3>6, <3>7, <3>8, <3>9 DEF ExInv, Local
  <2> QED BY <1>3, <2>2, <2>3, <2>4 DEF JoinFetch
<1>4. CASE AcquirePermit(t)
  <2>1. Others'
    BY <1>4 DEF ExInv, Others, AcquirePermit, media, bounds
  <2>2. j.at = "acquire" /\ ~j.temp
    BY <1>0, <1>4 DEF AcquirePermit, At, Local, Holding
  <2>3. Local([j EXCEPT !.at = "remote"])
    BY <1>0, <2>2 DEF Local, ThreadState, Steps, Holding
  <2> QED BY <1>4, <2>1, <2>2, <2>3, GotoOK DEF AcquirePermit, Steps, Leading
<1>5. CASE FetchRemote(t)
  <2>1. Others'
    BY <1>5 DEF ExInv, Others, FetchRemote, media, limits, bounds
  <2>2. j.at = "remote" /\ ~j.temp
    BY <1>0, <1>5 DEF FetchRemote, At, Local, Holding
  <2>3. PICK ok \in BOOLEAN, file \in BOOLEAN :
            /\ file => ok /\ j.kind # "shared"
            /\ thread' = [thread EXCEPT ![t] =
                             [@ EXCEPT !.ok = ok, !.temp = file, !.at = "release"]]
            /\ temps' = IF file THEN temps \cup {t} ELSE temps
    BY <1>5 DEF FetchRemote, Kind
  <2> DEFINE a == [j EXCEPT !.ok = ok, !.temp = file, !.at = "release"]
  <2>4. /\ a \in ThreadState /\ a.at = "release" /\ a.ok = ok /\ a.temp = file
        /\ a.kind = j.kind /\ a.cid = j.cid /\ a.media = j.media
    <3>1. "release" \in Steps
      BY DEF Steps
    <3> QED
      BY <1>0, <3>1 DEF ThreadState
  <2>5. thread' = [thread EXCEPT ![t] = a]
    BY <2>3
  <2> HIDE DEF a
  <2>6. Local(a)
    BY <1>0, <2>2, <2>3, <2>4 DEF Local, Holding
  <2>7. Shared(t, a)
    BY <1>0, <2>2, <2>4 DEF Shared, Leading
  <2>8. temps' = IF a.temp THEN temps \cup {t} ELSE temps \ {t}
    BY <1>0, <2>2, <2>3, <2>4
  <2>9. inFlight' = inFlight
    BY <1>5 DEF FetchRemote
  <2> QED BY <2>1, <2>5, <2>6, <2>7, <2>8, <2>9, ThreadStep
<1>6. CASE ReleasePermit(t)
  <2>1. Others'
    BY <1>6 DEF ExInv, Others, ReleasePermit, media, bounds
  <2>2. j.at = "release"
    BY <1>6 DEF ReleasePermit, At
  <2>3. Local([j EXCEPT !.at = "record"])
    BY <1>0, <2>2 DEF Local, ThreadState, Steps, Holding
  <2> QED BY <1>6, <2>1, <2>2, <2>3, GotoOK DEF ReleasePermit, Steps, Leading
<1>7. CASE RecordResult(t)
  <2>1. j.at = "record" /\ j.kind # "shared" /\ j.cid \in Cid
    BY <1>0, <1>7 DEF RecordResult, At, Kind, Local
  <2>2. Others'
    BY <1>7, <2>1 DEF ExInv, Others, RecordResult, Recorded, media, limits, bounds
  <2>3. thread' = [thread EXCEPT ![t] = Fetched(j)] /\ inFlight' = inFlight
        /\ temps' = temps
    BY <1>7 DEF RecordResult
  <2>4. Local(Fetched(j)) /\ Fetched(j).temp = j.temp
        /\ Fetched(j).at \notin Leading \cup {"wait"}
    BY <1>0, <2>1, FetchedOK
  <2>5. Shared(t, Fetched(j))
    BY <1>0, <2>1, <2>4 DEF Shared, Leading
  <2>6. temps' = IF Fetched(j).temp THEN temps \cup {t} ELSE temps \ {t}
    BY <1>0, <2>3, <2>4
  <2> QED BY <2>2, <2>3, <2>4, <2>5, <2>6, ThreadStep
<1>8. CASE FinishShared(t)
  <2> DEFINE woken == {u \in Thread : u = t \/ (At(u, "wait") /\ thread[u].call = t)}
  <2>1. j.at = "record" /\ j.kind = "shared" /\ j.cid \in Cid /\ inFlight[j.cid] = t
        /\ ~j.temp
    BY <1>0, <1>8 DEF FinishShared, At, Kind, Local, Shared, Leading
  <2>2. \A c \in Cid : inFlight'[c] = IF c = j.cid THEN NoThread ELSE inFlight[c]
    BY <1>8 DEF FinishShared, ExInv, Others
  <2>3. inFlight' \in [Cid -> Thread \cup {NoThread}]
    BY <1>8 DEF FinishShared, ExInv, Others
  <2>4. Others'
    BY <1>8, <2>1, <2>3 DEF ExInv, Others, FinishShared, Recorded, media, limits, bounds
  <2>5. /\ thread' = [u \in Thread |-> IF u \in woken THEN Idle ELSE thread[u]]
        /\ temps' = temps
    BY <1>8 DEF FinishShared
  <2>6. thread' \in [Thread -> ThreadState]
    BY <2>5, IdleOK DEF ExInv
  <2>7. ASSUME NEW u \in Thread PROVE Local(thread'[u]) /\ Shared(u, thread[u])'
    <3>1. Local(thread[u]) /\ Shared(u, thread[u]) /\ u # NoThread
      BY ExchangeAssumption DEF ExInv
    <3>2. CASE u \in woken
      <4>1. thread'[u] = Idle
        BY <2>5, <3>2
      <4>2. ASSUME NEW c \in Cid, inFlight'[c] = u PROVE FALSE
        <5>1. c # j.cid /\ inFlight[c] = u
          BY <2>2, <3>1, <4>2
        <5>2. thread[u].at \in Leading /\ thread[u].cid = c
          BY <3>1, <5>1 DEF Shared
        <5> QED BY <3>2, <5>1, <5>2 DEF At, Leading
      <4> QED BY <4>1, <4>2, IdleOK DEF Shared, Leading
    <3>3. CASE u \notin woken
      <4>1. thread'[u] = thread[u] /\ u # t
        BY <2>5, <3>3
      <4>2. thread[u].at # "idle" => thread[u].cid \in Cid
        BY <3>1 DEF Local
      <4>3. thread[u].at = "wait" => thread[u].call # t
        BY <3>3 DEF At
      <4> QED BY <2>1, <2>2, <3>1, <4>1, <4>2, <4>3 DEF Shared, Leading
    <3> QED BY <3>2, <3>3
  <2>8. \A u \in woken : ~thread[u].temp
    BY <2>1 DEF ExInv, Local, Holding, At
  <2>9. TempFilesOwned'
    BY <2>5, <2>8, IdleOK DEF ExInv, TempFilesOwned
  <2> QED BY <1>0, <2>4, <2>5, <2>6, <2>7, <2>9 DEF ExInv, Local
<1>9. CASE ContextDone(t)
  <2>1. Others'
    BY <1>9 DEF ExInv, Others, ContextDone, media, limits, bounds
  <2>2. inFlight' = inFlight /\ temps' = temps
    BY <1>9 DEF ContextDone
  <2>3. CASE j.at = "wait" /\ Return(t)
    <3>1. ~j.temp
      BY <1>0, <2>3 DEF Local, Holding
    <3> QED BY <2>1, <2>2, <2>3, <3>1, ReturnOK, NoTemp DEF Leading
  <2>4. CASE /\ j.at = "acquire"
             /\ thread' = [thread EXCEPT ![t] = [@ EXCEPT !.ok = FALSE, !.at = "record"]]
    <3> DEFINE a == [j EXCEPT !.ok = FALSE, !.at = "record"]
    <3>1. /\ a \in ThreadState /\ a.at = "record" /\ a.kind = j.kind
          /\ a.cid = j.cid /\ a.media = j.media /\ a.temp = FALSE
      BY <1>0, <2>4 DEF ThreadState, Steps, Local, Holding
    <3>2. thread' = [thread EXCEPT ![t] = a]
      BY <2>4
    <3> HIDE DEF a
    <3>3. Local(a) /\ Shared(t, a)
      BY <1>0, <2>4, <3>1 DEF Local, Shared, Leading
    <3> QED BY <1>0, <2>1, <2>2, <2>4, <3>1, <3>2, <3>3, ThreadStep DEF Local, Holding
  <2> QED BY <1>9, <2>3, <2>4 DEF ContextDone, At
<1> QED BY <1>1, <1>2, <1>3, <1>4, <1>5, <1>6, <1>7, <1>8, <1>9

\* A temp file that is removed leaves the call without one.
LEMMA DropTempOK ==
    ASSUME ExInv, NEW t \in Thread, NEW step \in {"serve", "track", "unslot"},
           thread' = [thread EXCEPT ![t] = [@ EXCEPT !.temp = FALSE, !.at = step]],
           thread[t].kind = IF step = "serve" THEN "get" ELSE "prefetch",
           thread[t].at # "idle",
           inFlight' = inFlight, temps' = temps \ {t}, Others'
    PROVE  ExInv'
<1> DEFINE j == thread[t]
           a == [j EXCEPT !.temp = FALSE, !.at = step]
<1>0. j \in ThreadState /\ Local(j) /\ Shared(t, j)
  BY DEF ExInv
<1>1. /\ a \in ThreadState /\ a.at = step /\ a.kind = j.kind /\ a.cid = j.cid
      /\ a.media = j.media /\ a.temp = FALSE
  <2>1. step \in Steps
    BY DEF Steps
  <2> HIDE DEF j
  <2> QED BY <1>0, <2>1 DEF ThreadState
<1>2. thread' = [thread EXCEPT ![t] = a]
  OBVIOUS
<1> HIDE DEF a
<1>3. Local(a)
  BY <1>0, <1>1 DEF Local
<1>4. Shared(t, a)
  BY <1>0, <1>1 DEF Shared, Leading
<1> QED BY <1>1, <1>2, <1>3, <1>4, ThreadStep

\* openContent, step by step.
LEMMA GetStepOK ==
    ASSUME ExInv, NEW t \in Thread,
           \/ OpenStored(t) \/ CacheFetched(t) \/ Reopen(t) \/ Serve(t) \/ GetFails(t)
    PROVE  ExInv'
<1> DEFINE j == thread[t]
<1>0. /\ j \in ThreadState /\ Local(j) /\ Shared(t, j)
      /\ j.temp \in BOOLEAN /\ (t \in temps <=> j.temp)
  BY DEF ExInv, ThreadState, TempFilesOwned
<1>a. /\ j.at \in {"open", "cache", "reopen", "opentemp", "serve"}
      /\ j.kind = "get" /\ j.cid \in Cid /\ (j.at = "open" => ~j.temp)
      /\ inFlight' = inFlight
  BY <1>0 DEF OpenStored, CacheFetched, Reopen, Serve, GetFails, At, Local, Holding
<1>b. ASSUME NEW step \in {"serve", "backoff", "reopen", "opentemp"}, Goto(t, step),
             step \in {"serve", "backoff"} => j.at = "open",
             temps' = temps, Others'
      PROVE  ExInv'
  <2>1. Local([j EXCEPT !.at = step])
    BY <1>0, <1>a, <1>b DEF Local, ThreadState, Steps, Holding
  <2> QED BY <1>a, <1>b, <2>1, GotoOK DEF Steps
<1>1. CASE OpenStored(t)
  <2>1. Others'
    BY <1>1 DEF ExInv, Others, OpenStored, media, limits, bounds
  <2> QED BY <1>1, <1>b, <2>1 DEF OpenStored, At
<1>2. CASE CacheFetched(t)
  <2>1. Others'
    BY <1>2, <1>a DEF ExInv, Others, CacheFetched, limits, bounds
  <2> QED BY <1>2, <1>b, <2>1 DEF CacheFetched, At
<1>3. CASE Reopen(t)
  <2>1. Others'
    BY <1>3 DEF ExInv, Others, Reopen, media, limits, bounds
  <2>2. CASE j.cid \in cas
    BY <1>3, <1>a, <2>1, <2>2, DropTempOK DEF Reopen
  <2>3. CASE j.cid \notin cas
    BY <1>3, <1>b, <2>1, <2>3 DEF Reopen
  <2> QED BY <2>2, <2>3
<1>4. CASE Serve(t)
  <2>1. Others'
    BY <1>4 DEF ExInv, Others, Serve, media, limits, bounds
  <2> QED BY <1>4, <1>a, <2>1, ReturnOK DEF Serve
<1>5. CASE GetFails(t)
  <2>1. Others'
    <3>1. cas' \subseteq Cid
      BY <1>5, <1>a DEF ExInv, Others, GetFails
    <3> QED BY <1>5, <3>1 DEF ExInv, Others, GetFails, limits
  <2>2. CASE At(t, "open") /\ Goto(t, "backoff") /\ UNCHANGED temps
    BY <1>b, <2>1, <2>2 DEF At
  <2>3. CASE Goto(t, "opentemp") /\ UNCHANGED temps
    BY <1>b, <2>1, <2>3
  <2>4. CASE /\ At(t, "opentemp")
             /\ thread' = [thread EXCEPT ![t] = NextSource([@ EXCEPT !.temp = FALSE])]
             /\ temps' = temps \ {t}
    <3> DEFINE b == [j EXCEPT !.temp = FALSE]
               a == NextSource(b)
    <3>0. /\ b \in ThreadState /\ b.kind = "get" /\ b.temp = FALSE
          /\ b.next = j.next /\ b.media = j.media
      BY <1>0, <1>a DEF ThreadState
    <3>1. thread' = [thread EXCEPT ![t] = a]
      BY <2>4
    <3> HIDE DEF b
    <3>2. Local(a) /\ a.temp = FALSE /\ a.at \in {"idle", "open"}
      <4>1. CASE b.next = NoCid
        BY <4>1, IdleOK DEF NextSource
      <4>2. CASE b.next # NoCid
        <5>1. a = [b EXCEPT !.cid = b.next, !.next = NoCid, !.ok = FALSE, !.at = "open"]
          BY <4>2 DEF NextSource
        <5>2. b.next \in Cid
          BY <3>0, <4>2 DEF ThreadState
        <5> QED BY <3>0, <5>1, <5>2 DEF Local, ThreadState, Steps
      <4> QED BY <4>1, <4>2
    <3> HIDE DEF a
    <3>3. Shared(t, a)
      BY <1>0, <1>a, <3>2 DEF Shared, Leading
    <3> QED BY <1>a, <2>1, <2>4, <3>1, <3>2, <3>3, ThreadStep
  <2> QED BY <1>5, <2>2, <2>3, <2>4 DEF GetFails
<1> QED BY <1>1, <1>2, <1>3, <1>4, <1>5

\* The prefetcher, step by step.
LEMMA PrefetchStepOK ==
    ASSUME ExInv, NEW t \in Thread,
           \/ AcquireSlot(t) \/ HasFile(t) \/ StoreFetchedMediaFile(t) \/ TrackMedia(t)
           \/ SetMediaFetched(t) \/ ReleaseSlot(t) \/ EndPrefetch(t) \/ PrefetchFails(t)
    PROVE  ExInv'
<1> DEFINE j == thread[t]
<1>0. /\ j \in ThreadState /\ Local(j) /\ Shared(t, j)
      /\ j.temp \in BOOLEAN /\ (t \in temps <=> j.temp)
  BY DEF ExInv, ThreadState, TempFilesOwned
<1>a. /\ j.at \in {"slot", "has", "store", "track", "mark", "unslot", "unlist"}
      /\ j.kind = "prefetch" /\ j.cid \in Cid /\ j.media \in Media
      /\ (j.at # "store" => ~j.temp) /\ inFlight' = inFlight
  BY <1>0 DEF AcquireSlot, HasFile, StoreFetchedMediaFile, TrackMedia,
              SetMediaFetched, ReleaseSlot, EndPrefetch, PrefetchFails, At, Local, Holding
<1>b. ASSUME NEW step \in {"has", "track", "backoff", "mark", "unslot", "unlist"},
             Goto(t, step), j.at # "store", temps' = temps, Others'
      PROVE  ExInv'
  <2>1. Local([j EXCEPT !.at = step])
    BY <1>0, <1>a, <1>b DEF Local, ThreadState, Steps, Holding
  <2> QED BY <1>a, <1>b, <2>1, GotoOK DEF Steps
<1>1. CASE AcquireSlot(t)
  <2>1. Others'
    BY <1>1 DEF ExInv, Others, AcquireSlot, media, bounds
  <2> QED BY <1>1, <1>b, <2>1 DEF AcquireSlot, At
<1>2. CASE HasFile(t)
  <2>1. Others'
    BY <1>2 DEF ExInv, Others, HasFile, media, limits, bounds
  <2> QED BY <1>2, <1>b, <2>1 DEF HasFile, At
<1>3. CASE StoreFetchedMediaFile(t)
  <2>1. Others'
    BY <1>3, <1>a DEF ExInv, Others, StoreFetchedMediaFile, limits, bounds
  <2> QED BY <1>3, <1>a, <2>1, DropTempOK DEF StoreFetchedMediaFile
<1>4. CASE TrackMedia(t)
  <2>1. Others' /\ temps' = temps /\ j.at = "track"
    BY <1>4 DEF ExInv, Others, TrackMedia, At, media, limits, bounds
  <2>2. CASE j.next = NoCid
    <3>1. Goto(t, "mark")
      BY <1>4, <2>2 DEF TrackMedia, Goto
    <3> QED BY <1>b, <2>1, <3>1
  <2>3. CASE j.next # NoCid
    <3> DEFINE a == [j EXCEPT !.cid = j.next, !.next = NoCid, !.at = "has"]
    <3>1. j.next \in Cid
      BY <1>0, <2>3 DEF ThreadState
    <3>2. /\ a \in ThreadState /\ a.at = "has" /\ a.kind = "prefetch"
          /\ a.cid = j.next /\ a.media = j.media /\ a.temp = FALSE
      BY <1>0, <1>a, <2>1, <3>1 DEF ThreadState, Steps
    <3>3. thread' = [thread EXCEPT ![t] = a]
      BY <1>4, <2>3 DEF TrackMedia
    <3> HIDE DEF a
    <3>4. Local(a) /\ Shared(t, a)
      BY <1>0, <1>a, <3>1, <3>2 DEF Local, Shared, Leading
    <3>5. temps' = IF a.temp THEN temps \cup {t} ELSE temps \ {t}
      BY <1>0, <1>a, <2>1, <3>2
    <3> QED BY <1>a, <2>1, <3>3, <3>4, <3>5, ThreadStep
  <2> QED BY <2>2, <2>3
<1>5. CASE SetMediaFetched(t)
  <2>1. Others'
    BY <1>5, <1>a DEF ExInv, Others, SetMediaFetched, limits, bounds
  <2> QED BY <1>5, <1>b, <2>1 DEF SetMediaFetched, At
<1>6. CASE ReleaseSlot(t)
  <2>1. Others'
    BY <1>6 DEF ExInv, Others, ReleaseSlot, media, bounds
  <2> QED BY <1>6, <1>b, <2>1 DEF ReleaseSlot, At
<1>7. CASE EndPrefetch(t)
  <2>1. Others'
    BY <1>7 DEF ExInv, Others, EndPrefetch, media, bounds
  <2>2. temps' = temps \ {t}
    BY <1>7, <1>0, <1>a DEF EndPrefetch, At
  <2> QED BY <1>7, <1>a, <2>1, <2>2, ReturnOK DEF EndPrefetch
<1>8. CASE PrefetchFails(t)
  <2>1. Others'
    <3>1. cas' \subseteq Cid
      BY <1>8, <1>a DEF ExInv, Others, PrefetchFails
    <3> QED BY <1>8, <3>1 DEF ExInv, Others, PrefetchFails, limits
  <2>2. CASE At(t, "has") /\ Goto(t, "backoff") /\ UNCHANGED temps
    BY <1>b, <2>1, <2>2 DEF At
  <2>3. CASE (At(t, "track") \/ At(t, "mark")) /\ Goto(t, "unslot") /\ UNCHANGED temps
    BY <1>b, <2>1, <2>3 DEF At
  <2>4. CASE /\ temps' = temps \ {t}
             /\ thread' = [thread EXCEPT ![t] = [@ EXCEPT !.temp = FALSE, !.at = "unslot"]]
    BY <1>a, <2>1, <2>4, DropTempOK
  <2> QED BY <1>8, <2>2, <2>3, <2>4 DEF PrefetchFails
<1> QED BY <1>1, <1>2, <1>3, <1>4, <1>5, <1>6, <1>7, <1>8

LEMMA StepOK == ExInv /\ [Next]_vars => ExInv'
<1> SUFFICES ASSUME ExInv, [Next]_vars PROVE ExInv'
  OBVIOUS
<1>1. ASSUME NEW t \in Thread,
             Call(t) \/ Step(t) \/ ContextDone(t) \/ GetFails(t) \/ PrefetchFails(t)
      PROVE  ExInv'
  BY <1>1, CallOK, FetchStepOK, GetStepOK, PrefetchStepOK DEF Step
<1>2. ASSUME NEW c \in Cid, BackoffEnds(c) \/ Evict(c) PROVE ExInv'
  <2>1. Others'
    BY <1>2 DEF ExInv, Others, BackoffEnds, Evict, media, limits, bounds
  <2>2. UNCHANGED <<thread, temps, inFlight>>
    BY <1>2 DEF BackoffEnds, Evict
  <2> QED BY <2>1, <2>2 DEF ExInv, Local, Shared, TempFilesOwned
<1>3. CASE UNCHANGED vars
  BY <1>3 DEF ExInv, Others, Local, Shared, TempFilesOwned, vars
<1> QED BY <1>1, <1>2, <1>3 DEF Next

\* What the invariant says about every reachable state.
LEMMA ExInvImplies == ExInv => ExchangeTypeOK /\ TempFilesOwned /\ OneSharedFetch
<1> SUFFICES ASSUME ExInv PROVE ExchangeTypeOK /\ TempFilesOwned /\ OneSharedFetch
  OBVIOUS
<1>1. ExchangeTypeOK
  BY DEF ExInv, Others, ExchangeTypeOK, Local, At, Kind
<1>2. ASSUME NEW c \in Cid, inFlight[c] # NoThread
      PROVE  /\ Kind(inFlight[c], "shared") /\ thread[inFlight[c]].at \in Leading
             /\ thread[inFlight[c]].cid = c
  <2>1. inFlight[c] \in Thread
    BY <1>2 DEF ExInv, Others
  <2> QED BY <2>1 DEF ExInv, Shared, Kind
<1>3. OneSharedFetch
  BY <1>2 DEF ExInv, Shared, OneSharedFetch, At, Kind
<1> QED BY <1>1, <1>3 DEF ExInv

\* Every variable of the exchange keeps its type (bitswap.go,
\* scheduleMediaPrefetch, openContent), and a busy goroutine has its content.
THEOREM ExchangeTypes == Spec => []ExchangeTypeOK
<1>1. Spec => []ExInv
  BY InitOK, StepOK, PTL DEF Spec
<1> QED BY <1>1, ExInvImplies, PTL

\* No temp file of FetchContentToTempFile is left behind by openContent or
\* storeFetchedMediaFile, whatever fails, is cancelled or is evicted.
THEOREM TempFilesOwnedTheorem == Spec => []TempFilesOwned
<1>1. Spec => []ExInv
  BY InitOK, StepOK, PTL DEF Spec
<1> QED BY <1>1, ExInvImplies, PTL

\* fetchShared leads one remote fetch per CID, and nobody waits for a call that
\* has left fetchInFlight.
THEOREM OneSharedFetchTheorem == Spec => []OneSharedFetch
<1>1. Spec => []ExInv
  BY InitOK, StepOK, PTL DEF Spec
<1> QED BY <1>1, ExInvImplies, PTL

-----------------------------------------------------------------------------
(* The limits.                                                             *)

Fetchers == {t \in Thread : thread[t].at \in Fetching}

InSlot(s) == s.kind = "prefetch" /\ s.at \notin {"slot", "unlist"}

\* States s and r of a goroutine hold the same tokens and the same entry of
\* prefetching.
SameUse(s, r) ==
    /\ s.at \in Fetching <=> r.at \in Fetching
    /\ InSlot(s) <=> InSlot(r)
    /\ s.kind = "prefetch" <=> r.kind = "prefetch"
    /\ s.kind = "prefetch" => r.media = s.media

\* There are finitely many goroutines to count.
LEMMA CountsFinite ==
    /\ IsFiniteSet(Fetchers) /\ IsFiniteSet(Slotted)
    /\ Cardinality(Fetchers) \in Nat /\ Cardinality(Slotted) \in Nat
<1>1. IsFiniteSet(Fetchers) /\ IsFiniteSet(Slotted)
  BY ExchangeAssumption, FS_Subset DEF Fetchers, Slotted
<1> QED BY <1>1, FS_CardinalityType

\* A step in which no goroutine takes or gives back anything.
LEMMA SameLimits ==
    ASSUME LimitsKept, UNCHANGED limits,
           \A u \in Thread : SameUse(thread[u], thread'[u])
    PROVE  LimitsKept'
<1>1. {u \in Thread : thread'[u].at \in Fetching} = {u \in Thread : thread[u].at \in Fetching}
  BY DEF SameUse
<1>2. Slotted' = Slotted
  BY DEF SameUse, InSlot, Slotted, Kind
<1>3. Prefetchers' = Prefetchers
  BY DEF SameUse, Prefetchers, Kind
<1>4. \A u \in Prefetchers : thread'[u].media = thread[u].media
  BY DEF SameUse, Prefetchers, Kind
<1>5. {thread'[u].media : u \in Prefetchers'} = {thread[u].media : u \in Prefetchers}
  BY <1>3, <1>4
<1>6. permits' = permits /\ slots' = slots /\ prefetching' = prefetching
  BY DEF limits
<1>7. /\ permits' = Cardinality({u \in Thread : thread'[u].at \in Fetching})
      /\ permits' <= FetchLimit /\ slots' = Cardinality(Slotted')
      /\ slots' <= PrefetchLimit
  BY <1>1, <1>2, <1>6 DEF LimitsKept
<1>8. prefetching' = {thread'[u].media : u \in Prefetchers'}
  BY <1>5, <1>6 DEF LimitsKept
<1>9. \A u, v \in Prefetchers' : thread'[u].media = thread'[v].media => u = v
  BY <1>3, <1>4 DEF LimitsKept
<1> QED BY <1>7, <1>8, <1>9 DEF LimitsKept

LEMMA SameLimitsOne ==
    ASSUME ExInv, LimitsKept, UNCHANGED limits, NEW t \in Thread, NEW s,
           thread' = [thread EXCEPT ![t] = s], SameUse(thread[t], s)
    PROVE  LimitsKept'
<1>1. ASSUME NEW u \in Thread PROVE SameUse(thread[u], thread'[u])
  <2>1. CASE u = t
    BY <2>1 DEF ExInv
  <2>2. CASE u # t
    BY <2>2 DEF ExInv, SameUse
  <2> QED BY <2>1, <2>2
<1> QED BY <1>1, SameLimits

\* A step that moves the program counter of one call without passing a channel.
LEMMA SameLimitsGoto ==
    ASSUME ExInv, LimitsKept, UNCHANGED limits, NEW t \in Thread, NEW step,
           Goto(t, step), thread[t].at \in Fetching <=> step \in Fetching,
           thread[t].kind = "prefetch" =>
               (thread[t].at \in {"slot", "unlist"} <=> step \in {"slot", "unlist"})
    PROVE  LimitsKept'
<1> DEFINE s == [thread[t] EXCEPT !.at = step]
<1>1. thread[t] \in ThreadState
  BY DEF ExInv
<1>2. s.at = step /\ s.kind = thread[t].kind /\ s.media = thread[t].media
  BY <1>1 DEF ThreadState
<1>3. thread' = [thread EXCEPT ![t] = s]
  BY DEF Goto
<1> HIDE DEF s
<1>4. SameUse(thread[t], s)
  BY <1>2 DEF SameUse, InSlot
<1> QED BY <1>3, <1>4, SameLimitsOne

\* The end of a call that is not a prefetch and holds no token.
LEMMA SameLimitsReturn ==
    ASSUME ExInv, LimitsKept, UNCHANGED limits, NEW t \in Thread, Return(t),
           thread[t].kind # "prefetch", thread[t].at \notin Fetching
    PROVE  LimitsKept'
<1>1. SameUse(thread[t], Idle)
  BY IdleOK DEF SameUse, InSlot, Fetching
<1> QED BY <1>1, SameLimitsOne DEF Return

LEMMA SameLimitsFetched ==
    ASSUME NEW s, Local(s), s.at \in {"backoff", "record"}, s.kind # "shared"
    PROVE  SameUse(s, Fetched(s))
<1>1. s \in ThreadState /\ s.kind \in {"get", "prefetch"}
  BY DEF Local, ThreadState, Kinds
<1>2. CASE s.kind = "prefetch"
  <2>1. Fetched(s) \in {[s EXCEPT !.at = "store"], [s EXCEPT !.at = "unslot"]}
    BY <1>2 DEF Fetched
  <2> QED BY <1>1, <1>2, <2>1 DEF SameUse, InSlot, Fetching, ThreadState
<1>3. CASE s.kind = "get"
  <2>1. \/ Fetched(s) = [s EXCEPT !.at = "cache"]
        \/ Fetched(s) = Idle
        \/ Fetched(s) = [s EXCEPT !.cid = s.next, !.next = NoCid, !.ok = FALSE, !.at = "open"]
    BY <1>3 DEF Fetched, NextSource
  <2>2. Fetched(s).at \in {"cache", "idle", "open"} /\ Fetched(s).kind # "prefetch"
    BY <1>1, <1>3, <2>1, IdleOK DEF ThreadState
  <2> QED BY <1>3, <2>2 DEF SameUse, InSlot, Fetching
<1> QED BY <1>1, <1>2, <1>3

\* The steps of a fetch and the limits: only the two ends of runRemoteFetch
\* move a token.
LEMMA FetchStepLimits ==
    ASSUME ExInv, LimitsKept, NEW t \in Thread,
           \/ CheckBackoff(t) \/ TryLocal(t) \/ JoinFetch(t) \/ AcquirePermit(t)
           \/ FetchRemote(t) \/ ReleasePermit(t) \/ RecordResult(t)
           \/ FinishShared(t) \/ ContextDone(t)
    PROVE  LimitsKept'
<1> DEFINE j == thread[t]
<1>0. /\ j \in ThreadState /\ Local(j) /\ thread \in [Thread -> ThreadState]
      /\ permits \in Nat /\ slots \in Nat
  BY DEF ExInv, Others
<1>1. CASE CheckBackoff(t)
  <2>1. j.at = "backoff" /\ j.kind # "shared" /\ UNCHANGED limits
    BY <1>0, <1>1 DEF CheckBackoff, At, Local
  <2>2. CASE j.cid \in backoff
    <3> DEFINE a == [j EXCEPT !.ok = FALSE]
    <3>1. Local(a) /\ a.at = "backoff" /\ a.kind = j.kind /\ a.media = j.media
      BY <1>0, <2>1 DEF Local, ThreadState, Holding
    <3>2. thread' = [thread EXCEPT ![t] = Fetched(a)]
      BY <1>1, <2>2 DEF CheckBackoff
    <3> HIDE DEF a
    <3>3. SameUse(a, Fetched(a))
      BY <2>1, <3>1, SameLimitsFetched
    <3>4. SameUse(j, Fetched(a))
      BY <2>1, <3>1, <3>3 DEF SameUse, InSlot
    <3> QED BY <2>1, <3>2, <3>4, SameLimitsOne
  <2>3. CASE j.cid \notin backoff
    <3>1. Goto(t, "acquire")
      BY <1>1, <2>3 DEF CheckBackoff, Goto
    <3> QED BY <2>1, <3>1, SameLimitsGoto DEF Fetching
  <2> QED BY <2>2, <2>3
<1>2. CASE TryLocal(t)
  <2>1. j.at = "local" /\ j.kind = "shared" /\ UNCHANGED limits
    BY <1>0, <1>2 DEF TryLocal, At, Local
  <2> QED BY <1>2, <2>1, SameLimitsReturn, SameLimitsGoto DEF TryLocal, Fetching
<1>3. CASE JoinFetch(t)
  <2>1. j.at = "join" /\ j.kind = "shared" /\ UNCHANGED limits
    BY <1>0, <1>3 DEF JoinFetch, At, Local
  <2>2. CASE thread' = [thread EXCEPT ![t] =
                           [@ EXCEPT !.call = inFlight[j.cid], !.at = "wait"]]
    <3> DEFINE a == [j EXCEPT !.call = inFlight[j.cid], !.at = "wait"]
    <3>1. a.at = "wait" /\ a.kind = "shared"
      BY <1>0, <2>1 DEF ThreadState
    <3>2. thread' = [thread EXCEPT ![t] = a]
      BY <2>2
    <3> HIDE DEF a
    <3>3. SameUse(j, a)
      BY <2>1, <3>1 DEF SameUse, InSlot, Fetching
    <3> QED BY <2>1, <3>2, <3>3, SameLimitsOne
  <2> QED BY <1>3, <2>1, <2>2, SameLimitsReturn, SameLimitsGoto DEF JoinFetch, Fetching
<1>4. CASE AcquirePermit(t)
  <2>1. /\ thread' = [thread EXCEPT ![t].at = "remote"] /\ permits' = permits + 1
        /\ permits < FetchLimit /\ UNCHANGED <<slots, prefetching>> /\ j.at = "acquire"
    BY <1>4 DEF AcquirePermit, Goto, At
  <2>2. /\ thread'[t].at = "remote" /\ thread'[t].kind = j.kind /\ thread'[t].media = j.media
        /\ \A u \in Thread \ {t} : thread'[u] = thread[u]
    BY <1>0, <2>1 DEF ThreadState
  <2>3. Fetchers' = Fetchers \cup {t} /\ t \notin Fetchers
    BY <2>1, <2>2 DEF Fetchers, Fetching
  <2>4. Cardinality(Fetchers') = Cardinality(Fetchers) + 1
    BY <2>3, CountsFinite, FS_AddElement
  <2>5. /\ Slotted' = Slotted /\ Prefetchers' = Prefetchers
        /\ \A u \in Thread : thread'[u].media = thread[u].media
    BY <2>1, <2>2 DEF Slotted, Prefetchers, Kind
  <2>6. FetchLimit \in Nat
    BY ExchangeAssumption
  <2> QED BY <1>0, <2>1, <2>4, <2>5, <2>6 DEF LimitsKept, Fetchers, Prefetchers
<1>5. CASE FetchRemote(t)
  <2>1. PICK ok, file : thread' = [thread EXCEPT ![t] =
                            [@ EXCEPT !.ok = ok, !.temp = file, !.at = "release"]]
    BY <1>5 DEF FetchRemote
  <2> DEFINE a == [j EXCEPT !.ok = ok, !.temp = file, !.at = "release"]
  <2>2. a.at = "release" /\ a.kind = j.kind /\ a.media = j.media
    BY <1>0 DEF ThreadState
  <2>3. thread' = [thread EXCEPT ![t] = a] /\ j.at = "remote" /\ UNCHANGED limits
    BY <1>5, <2>1 DEF FetchRemote, At
  <2> HIDE DEF a
  <2>4. SameUse(j, a)
    BY <2>2, <2>3 DEF SameUse, InSlot, Fetching
  <2> QED BY <2>3, <2>4, SameLimitsOne
<1>6. CASE ReleasePermit(t)
  <2>1. /\ thread' = [thread EXCEPT ![t].at = "record"] /\ permits' = permits - 1
        /\ permits > 0 /\ UNCHANGED <<slots, prefetching>> /\ j.at = "release"
    BY <1>6 DEF ReleasePermit, Goto, At
  <2>2. /\ thread'[t].at = "record" /\ thread'[t].kind = j.kind /\ thread'[t].media = j.media
        /\ \A u \in Thread \ {t} : thread'[u] = thread[u]
    BY <1>0, <2>1 DEF ThreadState
  <2>3. Fetchers' = Fetchers \ {t} /\ t \in Fetchers
    BY <2>1, <2>2 DEF Fetchers, Fetching
  <2>4. Cardinality(Fetchers') = Cardinality(Fetchers) - 1
    BY <2>3, CountsFinite, FS_RemoveElement
  <2>5. /\ Slotted' = Slotted /\ Prefetchers' = Prefetchers
        /\ \A u \in Thread : thread'[u].media = thread[u].media
    BY <2>1, <2>2 DEF Slotted, Prefetchers, Kind
  <2>6. FetchLimit \in Nat
    BY ExchangeAssumption
  <2> QED BY <1>0, <2>1, <2>4, <2>5, <2>6 DEF LimitsKept, Fetchers, Prefetchers
<1>7. CASE RecordResult(t)
  <2>1. j.at = "record" /\ j.kind # "shared" /\ UNCHANGED limits
        /\ thread' = [thread EXCEPT ![t] = Fetched(j)]
    BY <1>7 DEF RecordResult, At, Kind
  <2> QED BY <1>0, <2>1, SameLimitsFetched, SameLimitsOne
<1>8. CASE FinishShared(t)
  <2>1. j.at = "record" /\ j.kind = "shared" /\ UNCHANGED limits
    BY <1>8 DEF FinishShared, At, Kind
  <2>2. ASSUME NEW u \in Thread PROVE SameUse(thread[u], thread'[u])
    <3>1. Local(thread[u])
      BY DEF ExInv
    <3>2. CASE u = t \/ (At(u, "wait") /\ thread[u].call = t)
      <4>1. thread'[u] = Idle
        BY <1>8, <3>2 DEF FinishShared
      <4>2. thread[u].at \in {"record", "wait"} /\ thread[u].kind = "shared"
        BY <2>1, <3>1, <3>2 DEF At, Local
      <4> QED BY <4>1, <4>2, IdleOK DEF SameUse, InSlot, Fetching
    <3>3. CASE ~(u = t \/ (At(u, "wait") /\ thread[u].call = t))
      BY <1>8, <3>3 DEF FinishShared, SameUse
    <3> QED BY <3>2, <3>3
  <2> QED BY <2>1, <2>2, SameLimits
<1>9. CASE ContextDone(t)
  <2>1. UNCHANGED limits
    BY <1>9 DEF ContextDone
  <2>2. CASE j.at = "wait" /\ Return(t)
    BY <1>0, <2>1, <2>2, SameLimitsReturn DEF Local, Fetching
  <2>3. CASE /\ j.at = "acquire"
             /\ thread' = [thread EXCEPT ![t] = [@ EXCEPT !.ok = FALSE, !.at = "record"]]
    <3> DEFINE a == [j EXCEPT !.ok = FALSE, !.at = "record"]
    <3>1. a.at = "record" /\ a.kind = j.kind /\ a.media = j.media
      BY <1>0 DEF ThreadState
    <3>2. thread' = [thread EXCEPT ![t] = a]
      BY <2>3
    <3> HIDE DEF a
    <3>3. SameUse(j, a)
      BY <2>3, <3>1 DEF SameUse, InSlot, Fetching
    <3> QED BY <2>1, <3>2, <3>3, SameLimitsOne
  <2> QED BY <1>9, <2>2, <2>3 DEF ContextDone, At
<1> QED BY <1>1, <1>2, <1>3, <1>4, <1>5, <1>6, <1>7, <1>8, <1>9

\* openContent outside the fetch touches no limit.
LEMMA GetStepLimits ==
    ASSUME ExInv, LimitsKept, NEW t \in Thread,
           \/ OpenStored(t) \/ CacheFetched(t) \/ Reopen(t) \/ Serve(t) \/ GetFails(t)
    PROVE  LimitsKept'
<1> DEFINE j == thread[t]
<1>0. /\ j \in ThreadState /\ j.kind = "get" /\ j.at \notin Fetching
      /\ UNCHANGED limits
  BY DEF ExInv, OpenStored, CacheFetched, Reopen, Serve, GetFails, At, Local, Fetching
<1>1. ASSUME NEW s, thread' = [thread EXCEPT ![t] = s], s.kind # "prefetch",
             s.at \notin Fetching
      PROVE  LimitsKept'
  BY <1>0, <1>1, SameLimitsOne DEF SameUse, InSlot
<1>2. ASSUME NEW step \in {"serve", "backoff", "reopen", "opentemp"}, Goto(t, step)
      PROVE  LimitsKept'
  BY <1>0, <1>2, SameLimitsGoto DEF Fetching
<1>3. CASE OpenStored(t) \/ CacheFetched(t)
  BY <1>2, <1>3 DEF OpenStored, CacheFetched
<1>4. CASE Serve(t)
  BY <1>0, <1>4, SameLimitsReturn DEF Serve
<1>5. CASE Reopen(t)
  <2> DEFINE a == [j EXCEPT !.temp = FALSE, !.at = "serve"]
  <2>1. a.kind = "get" /\ a.at = "serve"
    BY <1>0 DEF ThreadState
  <2>2. thread' = [thread EXCEPT ![t] = a] \/ Goto(t, "opentemp")
    BY <1>5 DEF Reopen
  <2> HIDE DEF a
  <2> QED BY <1>1, <1>2, <2>1, <2>2 DEF Fetching
<1>6. CASE GetFails(t)
  <2> DEFINE b == [j EXCEPT !.temp = FALSE]
             a == NextSource(b)
  <2>1. b \in ThreadState /\ b.kind = "get"
    BY <1>0 DEF ThreadState
  <2>2. \/ Goto(t, "backoff") \/ Goto(t, "opentemp")
        \/ thread' = [thread EXCEPT ![t] = a]
    BY <1>6 DEF GetFails
  <2> HIDE DEF b
  <2>3. a.kind # "prefetch" /\ a.at \in {"idle", "open"}
    <3>1. a \in {Idle, [b EXCEPT !.cid = b.next, !.next = NoCid, !.ok = FALSE, !.at = "open"]}
      BY DEF NextSource
    <3> QED BY <2>1, <3>1, IdleOK DEF ThreadState
  <2> HIDE DEF a
  <2> QED BY <1>1, <1>2, <2>2, <2>3 DEF Fetching
<1> QED BY <1>3, <1>4, <1>5, <1>6

\* A prefetcher takes and gives back one slot and one entry of prefetching.
LEMMA PrefetchStepLimits ==
    ASSUME ExInv, LimitsKept, NEW t \in Thread,
           \/ AcquireSlot(t) \/ HasFile(t) \/ StoreFetchedMediaFile(t) \/ TrackMedia(t)
           \/ SetMediaFetched(t) \/ ReleaseSlot(t) \/ EndPrefetch(t) \/ PrefetchFails(t)
    PROVE  LimitsKept'
<1> DEFINE j == thread[t]
<1>0. /\ j \in ThreadState /\ j.kind = "prefetch" /\ j.at \notin Fetching
      /\ thread \in [Thread -> ThreadState] /\ permits \in Nat /\ slots \in Nat
  BY DEF ExInv, Others, AcquireSlot, HasFile, StoreFetchedMediaFile, TrackMedia,
         SetMediaFetched, ReleaseSlot, EndPrefetch, PrefetchFails, At, Local, Fetching
<1>1. ASSUME NEW s, thread' = [thread EXCEPT ![t] = s], s.kind = "prefetch",
             s.media = j.media, s.at \notin Fetching \cup {"slot", "unlist"},
             j.at \notin {"slot", "unlist"}, UNCHANGED limits
      PROVE  LimitsKept'
  BY <1>0, <1>1, SameLimitsOne DEF SameUse, InSlot
<1>2. ASSUME NEW step \in {"has", "track", "backoff", "mark", "unslot"}, Goto(t, step),
             j.at \notin {"slot", "unlist"}, UNCHANGED limits
      PROVE  LimitsKept'
  BY <1>0, <1>2, SameLimitsGoto DEF Fetching
<1>3. CASE AcquireSlot(t)
  <2>1. /\ thread' = [thread EXCEPT ![t].at = "has"] /\ slots' = slots + 1
        /\ slots < PrefetchLimit /\ UNCHANGED <<permits, prefetching>> /\ j.at = "slot"
    BY <1>3 DEF AcquireSlot, Goto, At
  <2>2. /\ thread'[t].at = "has" /\ thread'[t].kind = j.kind /\ thread'[t].media = j.media
        /\ \A u \in Thread \ {t} : thread'[u] = thread[u]
    BY <1>0, <2>1 DEF ThreadState
  <2>3. Slotted' = Slotted \cup {t} /\ t \notin Slotted
    BY <1>0, <2>1, <2>2 DEF Slotted, Kind
  <2>4. Cardinality(Slotted') = Cardinality(Slotted) + 1
    BY <2>3, CountsFinite, FS_AddElement
  <2>5. /\ Fetchers' = Fetchers /\ Prefetchers' = Prefetchers
        /\ \A u \in Thread : thread'[u].media = thread[u].media
    BY <2>1, <2>2 DEF Fetchers, Fetching, Prefetchers, Kind
  <2>6. PrefetchLimit \in Nat
    BY ExchangeAssumption
  <2>7. /\ permits' = Cardinality(Fetchers') /\ permits' <= FetchLimit
        /\ slots' = Cardinality(Slotted') /\ slots' <= PrefetchLimit
    <3>1. /\ permits = Cardinality(Fetchers) /\ permits <= FetchLimit
          /\ slots = Cardinality(Slotted) /\ slots <= PrefetchLimit
      BY DEF LimitsKept, Fetchers
    <3>2. permits' = Cardinality(Fetchers') /\ permits' <= FetchLimit
      BY <2>1, <2>5, <3>1
    <3> QED BY <1>0, <2>1, <2>4, <2>6, <3>1, <3>2
  <2>8. \A u \in Prefetchers : thread'[u].media = thread[u].media
    BY <2>5 DEF Prefetchers
  <2>9. /\ prefetching' = {thread'[u].media : u \in Prefetchers'}
        /\ \A u, v \in Prefetchers' : thread'[u].media = thread'[v].media => u = v
    BY <2>1, <2>5, <2>8 DEF LimitsKept
  <2> QED BY <2>7, <2>9 DEF LimitsKept, Fetchers
<1>4. CASE HasFile(t) \/ SetMediaFetched(t)
  BY <1>2, <1>4 DEF HasFile, SetMediaFetched, At, limits
<1>5. CASE StoreFetchedMediaFile(t)
  <2> DEFINE a == [j EXCEPT !.temp = FALSE, !.at = "track"]
  <2>1. a.kind = "prefetch" /\ a.at = "track" /\ a.media = j.media
    BY <1>0 DEF ThreadState
  <2>2. thread' = [thread EXCEPT ![t] = a] /\ UNCHANGED limits /\ j.at = "store"
    BY <1>5 DEF StoreFetchedMediaFile, At
  <2> HIDE DEF a
  <2> QED BY <1>1, <2>1, <2>2 DEF Fetching
<1>6. CASE TrackMedia(t)
  <2> DEFINE a == [j EXCEPT !.cid = j.next, !.next = NoCid, !.at = "has"]
  <2>1. a.kind = "prefetch" /\ a.at = "has" /\ a.media = j.media
    BY <1>0 DEF ThreadState
  <2>2. /\ thread' = [thread EXCEPT ![t] = a] \/ Goto(t, "mark")
        /\ UNCHANGED limits /\ j.at = "track"
    BY <1>6 DEF TrackMedia, At, Goto
  <2> HIDE DEF a
  <2> QED BY <1>1, <1>2, <2>1, <2>2 DEF Fetching
<1>7. CASE ReleaseSlot(t)
  <2>1. /\ thread' = [thread EXCEPT ![t].at = "unlist"] /\ slots' = slots - 1
        /\ slots > 0 /\ UNCHANGED <<permits, prefetching>> /\ j.at = "unslot"
    BY <1>7 DEF ReleaseSlot, Goto, At
  <2>2. /\ thread'[t].at = "unlist" /\ thread'[t].kind = j.kind /\ thread'[t].media = j.media
        /\ \A u \in Thread \ {t} : thread'[u] = thread[u]
    BY <1>0, <2>1 DEF ThreadState
  <2>3. Slotted' = Slotted \ {t} /\ t \in Slotted
    BY <1>0, <2>1, <2>2 DEF Slotted, Kind
  <2>4. Cardinality(Slotted') = Cardinality(Slotted) - 1
    BY <2>3, CountsFinite, FS_RemoveElement
  <2>5. /\ Fetchers' = Fetchers /\ Prefetchers' = Prefetchers
        /\ \A u \in Thread : thread'[u].media = thread[u].media
    BY <2>1, <2>2 DEF Fetchers, Fetching, Prefetchers, Kind
  <2>6. PrefetchLimit \in Nat
    BY ExchangeAssumption
  <2>7. /\ permits' = Cardinality(Fetchers') /\ permits' <= FetchLimit
        /\ slots' = Cardinality(Slotted') /\ slots' <= PrefetchLimit
    <3>1. /\ permits = Cardinality(Fetchers) /\ permits <= FetchLimit
          /\ slots = Cardinality(Slotted) /\ slots <= PrefetchLimit
      BY DEF LimitsKept, Fetchers
    <3>2. permits' = Cardinality(Fetchers') /\ permits' <= FetchLimit
      BY <2>1, <2>5, <3>1
    <3> QED BY <1>0, <2>1, <2>4, <2>6, <3>1, <3>2
  <2>8. \A u \in Prefetchers : thread'[u].media = thread[u].media
    BY <2>5 DEF Prefetchers
  <2>9. /\ prefetching' = {thread'[u].media : u \in Prefetchers'}
        /\ \A u, v \in Prefetchers' : thread'[u].media = thread'[v].media => u = v
    BY <2>1, <2>5, <2>8 DEF LimitsKept
  <2> QED BY <2>7, <2>9 DEF LimitsKept, Fetchers
<1>8. CASE EndPrefetch(t)
  <2>1. /\ thread' = [thread EXCEPT ![t] = Idle] /\ prefetching' = prefetching \ {j.media}
        /\ UNCHANGED <<permits, slots>> /\ j.at = "unlist"
    BY <1>8 DEF EndPrefetch, Return, At
  <2>2. /\ thread'[t].at = "idle" /\ thread'[t].kind = "none"
        /\ \A u \in Thread \ {t} : thread'[u] = thread[u]
    BY <1>0, <2>1, IdleOK
  <2>3. Slotted' = Slotted /\ Fetchers' = Fetchers
    BY <2>1, <2>2 DEF Slotted, Fetchers, Fetching, Kind
  <2>4. /\ Prefetchers' = Prefetchers \ {t} /\ t \in Prefetchers
        /\ \A u \in Prefetchers' : thread'[u] = thread[u]
    BY <1>0, <2>2 DEF Prefetchers, Kind
  <2>5. prefetching' = {thread'[u].media : u \in Prefetchers'}
    <3>1. {thread'[u].media : u \in Prefetchers'} = {thread[u].media : u \in Prefetchers \ {t}}
      BY <2>4
    <3> QED BY <2>1, <2>4, <3>1 DEF LimitsKept
  <2>6. \A u, v \in Prefetchers' : thread'[u].media = thread'[v].media => u = v
    BY <2>4 DEF LimitsKept
  <2>7. /\ permits' = Cardinality(Fetchers') /\ permits' <= FetchLimit
        /\ slots' = Cardinality(Slotted') /\ slots' <= PrefetchLimit
    BY <2>1, <2>3 DEF LimitsKept, Fetchers
  <2> QED BY <2>5, <2>6, <2>7 DEF LimitsKept, Fetchers
<1>9. CASE PrefetchFails(t)
  <2> DEFINE a == [j EXCEPT !.temp = FALSE, !.at = "unslot"]
  <2>1. a.kind = "prefetch" /\ a.at = "unslot" /\ a.media = j.media
    BY <1>0 DEF ThreadState
  <2>2. /\ thread' = [thread EXCEPT ![t] = a] \/ Goto(t, "backoff") \/ Goto(t, "unslot")
        /\ UNCHANGED limits /\ j.at \in {"has", "store", "track", "mark"}
    BY <1>9 DEF PrefetchFails, At
  <2> HIDE DEF a
  <2> QED BY <1>1, <1>2, <2>1, <2>2 DEF Fetching
<1> QED BY <1>3, <1>4, <1>5, <1>6, <1>7, <1>8, <1>9

\* A new call holds no token; a new prefetcher is listed, and was not before.
LEMMA CallLimits ==
    ASSUME ExInv, LimitsKept, NEW t \in Thread, Call(t)
    PROVE  LimitsKept'
<1> DEFINE j == thread[t]
<1>0. /\ j \in ThreadState /\ thread \in [Thread -> ThreadState]
      /\ permits \in Nat /\ slots \in Nat
      /\ (j.at = "idle" => j.kind = "none")
  BY DEF ExInv, Others, Local
<1>1. ASSUME NEW kind \in {"get", "shared", "prefetch"}, NEW step \in Steps,
             NEW c, NEW next, NEW m, Launch(t, kind, step, c, next, m)
      PROVE  /\ j.at = "idle" /\ j.kind = "none"
             /\ thread'[t].kind = kind /\ thread'[t].at = step /\ thread'[t].media = m
             /\ \A u \in Thread \ {t} : thread'[u] = thread[u]
  <2> DEFINE s == [Idle EXCEPT !.kind = kind, !.at = step, !.cid = c,
                               !.next = next, !.media = m]
  <2>1. s.kind = kind /\ s.at = step /\ s.media = m
    BY DEF Idle
  <2>2. j.at = "idle" /\ thread' = [thread EXCEPT ![t] = s]
    BY <1>1 DEF Launch, At
  <2> HIDE DEF s
  <2> QED BY <1>0, <2>1, <2>2
<1>2. ASSUME NEW kind \in {"get", "shared"}, NEW step \in {"open", "local"},
             NEW c, NEW next, NEW m, Launch(t, kind, step, c, next, m), UNCHANGED limits
      PROVE  LimitsKept'
  <2>1. step \in Steps
    BY <1>2 DEF Steps
  <2>2. /\ j.at = "idle" /\ j.kind = "none" /\ thread'[t].kind = kind
        /\ thread'[t].at = step /\ \A u \in Thread \ {t} : thread'[u] = thread[u]
    BY <1>1, <1>2, <2>1
  <2>3. ASSUME NEW u \in Thread PROVE SameUse(thread[u], thread'[u])
    BY <1>2, <2>2 DEF SameUse, InSlot, Fetching
  <2> QED BY <1>2, <2>3, SameLimits
<1>3. ASSUME NEW c \in Cid, GetMedia(t, c) \/ FetchContent(t, c) PROVE LimitsKept'
  BY <1>2, <1>3 DEF GetMedia, FetchContent
<1>4. ASSUME NEW m \in Media, GetMediaThumbnail(t, m) PROVE LimitsKept'
  BY <1>2, <1>4 DEF GetMediaThumbnail
<1>5. ASSUME NEW a \in Announced, NEW pin \in BOOLEAN,
             HandleMediaObject(t, a[1], a[2], pin)
      PROVE  LimitsKept'
  <2>1. CASE pin /\ a[1] \notin prefetching
    <3>1. /\ prefetching' = prefetching \cup {a[1]} /\ UNCHANGED <<permits, slots>>
          /\ Launch(t, "prefetch", "slot", a[1], a[2], a[1])
      BY <1>5, <2>1 DEF HandleMediaObject
    <3>2. "slot" \in Steps
      BY DEF Steps
    <3>3. /\ j.at = "idle" /\ j.kind = "none" /\ thread'[t].kind = "prefetch"
          /\ thread'[t].at = "slot" /\ thread'[t].media = a[1]
          /\ \A u \in Thread \ {t} : thread'[u] = thread[u]
      BY <1>1, <3>1, <3>2
    <3>4. Slotted' = Slotted /\ Fetchers' = Fetchers
      BY <3>3 DEF Slotted, Fetchers, Fetching, Kind
    <3>5. /\ Prefetchers' = Prefetchers \cup {t} /\ t \notin Prefetchers
          /\ \A u \in Prefetchers : thread'[u] = thread[u]
      BY <3>3 DEF Prefetchers, Kind
    <3>6. prefetching' = {thread'[u].media : u \in Prefetchers'}
      <4>1. {thread'[u].media : u \in Prefetchers'}
               = {thread[u].media : u \in Prefetchers} \cup {a[1]}
        BY <3>3, <3>5
      <4> QED BY <3>1, <4>1 DEF LimitsKept
    <3>7. \A u \in Prefetchers : thread[u].media # a[1]
      BY <2>1 DEF LimitsKept
    <3>8. \A u, v \in Prefetchers' : thread'[u].media = thread'[v].media => u = v
      BY <3>3, <3>5, <3>7 DEF LimitsKept
    <3>9. /\ permits' = Cardinality(Fetchers') /\ permits' <= FetchLimit
          /\ slots' = Cardinality(Slotted') /\ slots' <= PrefetchLimit
      BY <3>1, <3>4 DEF LimitsKept, Fetchers
    <3> QED BY <3>6, <3>8, <3>9 DEF LimitsKept, Fetchers
  <2>2. CASE ~(pin /\ a[1] \notin prefetching)
    <3>1. UNCHANGED thread /\ UNCHANGED limits
      BY <1>5, <2>2 DEF HandleMediaObject, limits
    <3> QED BY <3>1, SameLimits DEF SameUse
  <2> QED BY <2>1, <2>2
<1> QED BY <1>3, <1>4, <1>5 DEF Call

\* contentFetchConcurrency and mediaPrefetchConcurrency hold and every token is
\* returned (runRemoteFetch, scheduleMediaPrefetch), for any limits and any
\* number of goroutines.
THEOREM LimitsKeptTheorem == Spec => []LimitsKept
<1>1. Init => LimitsKept
  <2> SUFFICES ASSUME Init PROVE LimitsKept
    OBVIOUS
  <2>1. \A t \in Thread : thread[t] = Idle
    BY DEF Init
  <2>2. {t \in Thread : thread[t].at \in Fetching} = {} /\ Slotted = {} /\ Prefetchers = {}
    BY <2>1, IdleOK DEF Fetching, Slotted, Prefetchers, Kind
  <2>3. Cardinality({}) = 0
    BY FS_EmptySet
  <2>4. permits = 0 /\ slots = 0 /\ prefetching = {}
    BY DEF Init
  <2>5. {thread[t].media : t \in Prefetchers} = {}
    BY <2>2
  <2>6. 0 <= FetchLimit /\ 0 <= PrefetchLimit
    BY ExchangeAssumption
  <2> QED BY <2>2, <2>3, <2>4, <2>5, <2>6 DEF LimitsKept
<1>2. ExInv /\ LimitsKept /\ [Next]_vars => LimitsKept'
  <2> SUFFICES ASSUME ExInv, LimitsKept, [Next]_vars PROVE LimitsKept'
    OBVIOUS
  <2>1. ASSUME NEW t \in Thread,
               Call(t) \/ Step(t) \/ ContextDone(t) \/ GetFails(t) \/ PrefetchFails(t)
        PROVE  LimitsKept'
    BY <2>1, CallLimits, FetchStepLimits, GetStepLimits, PrefetchStepLimits DEF Step
  <2>2. ASSUME NEW c \in Cid, BackoffEnds(c) \/ Evict(c) PROVE LimitsKept'
    BY <2>2, SameLimits DEF BackoffEnds, Evict, SameUse
  <2>3. CASE UNCHANGED vars
    BY <2>3, SameLimits DEF vars, limits, SameUse
  <2> QED BY <2>1, <2>2, <2>3 DEF Next
<1>3. Spec => [](ExInv /\ LimitsKept)
  BY InitOK, StepOK, <1>1, <1>2, PTL DEF Spec
<1> QED BY <1>3, PTL
-----------------------------------------------------------------------------
(* Media marked as fetched have been stored.                               *)

\* Files that are in the content store, or have been.
Kept == cas \cup evicted

\* What a prefetcher in state s has stored by the step it is at, with rows R,
\* thumbnails T, restated rows X and kept files K: it fetches the file, with the
\* thumbnail to come, and then the thumbnail, which is the row's unless the row
\* was given another in the meantime.
StoredIn(s, R, T, X, K) ==
    s.kind = "prefetch" =>
        /\ s.media \in R
        /\ s.at \notin {"unslot", "unlist"} =>
              \/ s.cid = s.media /\ (s.media \in X \/ T[s.media] = s.next)
              \/ s.next = NoCid /\ s.media \in K /\ (s.media \in X \/ T[s.media] = s.cid)
        /\ s.at = "track" => s.cid \in K
        /\ s.at = "mark" => /\ s.media \in K
                            /\ s.media \in X \/ T[s.media] \in K \cup {NoCid}

Stored(s) == StoredIn(s, rows, thumbs, restated, Kept)

MediaInv ==
    /\ \A t \in Thread : Stored(thread[t])
    /\ fetched \subseteq rows
    /\ FetchedMediaStored

\* State r of a goroutine claims no more than its state s before the step.
ClaimsLess(s, r) ==
    r.kind = "prefetch" =>
        /\ s.kind = "prefetch" /\ r.cid = s.cid /\ r.next = s.next /\ r.media = s.media
        /\ s.at \in {"unslot", "unlist"} => r.at \in {"unslot", "unlist"}
        /\ r.at \notin {"track", "mark"}

\* A step that leaves the media table alone and deletes no file for good keeps
\* the invariant if every goroutine that changes claims less or is right.
LEMMA MediaFrame ==
    ASSUME MediaInv, UNCHANGED <<rows, thumbs, fetched, restated>>, Kept \subseteq Kept',
           \A u \in Thread :
              \/ thread'[u] = thread[u]
              \/ ClaimsLess(thread[u], thread'[u])
              \/ StoredIn(thread'[u], rows, thumbs, restated, Kept')
    PROVE  MediaInv'
<1>1. ASSUME NEW u \in Thread
      PROVE  StoredIn(thread'[u], rows, thumbs, restated, Kept')
  <2>1. StoredIn(thread[u], rows, thumbs, restated, Kept)
    BY DEF MediaInv, Stored
  <2>2. CASE thread'[u] = thread[u]
    BY <2>1, <2>2 DEF StoredIn
  <2>3. CASE ClaimsLess(thread[u], thread'[u])
    BY <2>1, <2>3 DEF StoredIn, ClaimsLess
  <2> QED BY <2>2, <2>3
<1>2. \A u \in Thread : Stored(thread[u])'
  BY <1>1 DEF Stored
<1>3. FetchedMediaStored'
  BY DEF MediaInv, FetchedMediaStored, Kept
<1> QED BY <1>2, <1>3 DEF MediaInv

\* The same for one goroutine.
LEMMA MediaFrameOne ==
    ASSUME ExInv, MediaInv, NEW t \in Thread, NEW s, thread' = [thread EXCEPT ![t] = s],
           UNCHANGED <<rows, thumbs, fetched, restated>>, Kept \subseteq Kept',
           ClaimsLess(thread[t], s) \/ StoredIn(s, rows, thumbs, restated, Kept')
    PROVE  MediaInv'
<1>1. thread'[t] = s /\ \A u \in Thread \ {t} : thread'[u] = thread[u]
  BY DEF ExInv
<1>2. \A u \in Thread :
         \/ thread'[u] = thread[u]
         \/ ClaimsLess(thread[u], thread'[u])
         \/ StoredIn(thread'[u], rows, thumbs, restated, Kept')
  BY <1>1
<1> QED BY <1>2, MediaFrame

\* Its program counter moves.
LEMMA MediaFrameGoto ==
    ASSUME ExInv, MediaInv, NEW t \in Thread, NEW step \in Steps, Goto(t, step),
           UNCHANGED <<rows, thumbs, fetched, restated>>, Kept \subseteq Kept',
           thread[t].kind = "prefetch" =>
              /\ step \notin {"track", "mark"}
              /\ thread[t].at \in {"unslot", "unlist"} => step \in {"unslot", "unlist"}
    PROVE  MediaInv'
<1> DEFINE s == [thread[t] EXCEPT !.at = step]
<1>1. thread[t] \in ThreadState
  BY DEF ExInv
<1>2. ClaimsLess(thread[t], s)
  BY <1>1 DEF ClaimsLess, ThreadState
<1>3. thread' = [thread EXCEPT ![t] = s]
  BY DEF Goto
<1> HIDE DEF s
<1> QED BY <1>2, <1>3, MediaFrameOne

\* It returns, or was not a prefetcher and is none.
LEMMA MediaFrameOther ==
    ASSUME ExInv, MediaInv, NEW t \in Thread, NEW s, thread' = [thread EXCEPT ![t] = s],
           UNCHANGED <<rows, thumbs, fetched, restated>>, Kept \subseteq Kept',
           s.kind # "prefetch"
    PROVE  MediaInv'
<1>1. ClaimsLess(thread[t], s)
  BY DEF ClaimsLess
<1> QED BY <1>1, MediaFrameOne

\* After a fetch a prefetcher goes on to store the file, or ends.
LEMMA FetchedClaims ==
    ASSUME NEW j, Local(j), NEW s, s \in {j, [j EXCEPT !.ok = FALSE]},
           j.at \notin {"unslot", "unlist"}
    PROVE  ClaimsLess(j, Fetched(s))
<1>1. j \in ThreadState /\ s \in ThreadState /\ s.kind = j.kind /\ s.cid = j.cid
      /\ s.next = j.next /\ s.media = j.media
  BY DEF Local, ThreadState
<1>2. CASE j.kind = "get"
  <2>1. Fetched(s).kind # "prefetch"
    <3>1. CASE s.ok
      BY <1>1, <1>2, <3>1 DEF Fetched, ThreadState
    <3>2. CASE ~s.ok
      <4>1. Fetched(s) = NextSource(s)
        BY <1>1, <1>2, <3>2 DEF Fetched
      <4>2. NextSource(s).kind # "prefetch"
        BY <1>1, <1>2, IdleOK DEF NextSource, ThreadState
      <4> QED BY <4>1, <4>2
    <3> QED BY <3>1, <3>2
  <2> QED BY <2>1 DEF ClaimsLess
<1>3. CASE j.kind # "get"
  <2>1. Fetched(s) = IF s.ok THEN [s EXCEPT !.at = "store"] ELSE [s EXCEPT !.at = "unslot"]
    BY <1>1, <1>3 DEF Fetched
  <2> QED BY <1>1, <2>1 DEF ClaimsLess, ThreadState
<1> QED BY <1>2, <1>3

\* A remote fetch stores nothing.
LEMMA FetchStepMedia ==
    ASSUME ExInv, MediaInv, NEW t \in Thread,
           \/ CheckBackoff(t) \/ TryLocal(t) \/ JoinFetch(t) \/ AcquirePermit(t)
           \/ FetchRemote(t) \/ ReleasePermit(t) \/ RecordResult(t)
           \/ FinishShared(t) \/ ContextDone(t)
    PROVE  MediaInv'
<1> DEFINE j == thread[t]
<1>0. /\ j \in ThreadState /\ Local(j) /\ Idle.kind # "prefetch"
      /\ UNCHANGED <<rows, thumbs, fetched, restated>> /\ Kept' = Kept
  BY IdleOK DEF ExInv, CheckBackoff, TryLocal, JoinFetch, AcquirePermit, FetchRemote,
     ReleasePermit, RecordResult, FinishShared, ContextDone, media, Kept
<1>1. CASE CheckBackoff(t)
  <2>1. j.at = "backoff"
    BY <1>1 DEF CheckBackoff, At
  <2>2. CASE j.cid \in backoff
    <3>1. thread' = [thread EXCEPT ![t] = Fetched([j EXCEPT !.ok = FALSE])]
      BY <1>1, <2>2 DEF CheckBackoff
    <3>2. ClaimsLess(j, Fetched([j EXCEPT !.ok = FALSE]))
      BY <1>0, <2>1, FetchedClaims
    <3> QED BY <1>0, <3>1, <3>2, MediaFrameOne
  <2>3. CASE j.cid \notin backoff
    <3>1. Goto(t, "acquire") /\ "acquire" \in Steps
      BY <1>1, <2>3 DEF CheckBackoff, Goto, Steps
    <3> QED BY <1>0, <2>1, <3>1, MediaFrameGoto
  <2> QED BY <2>2, <2>3
<1>2. CASE TryLocal(t)
  <2>1. j.kind # "prefetch"
    BY <1>0, <1>2 DEF TryLocal, At, Local
  <2>2. CASE Return(t)
    BY <1>0, <2>2, MediaFrameOther DEF Return
  <2>3. CASE Goto(t, "join")
    BY <1>0, <2>1, <2>3, MediaFrameGoto DEF Steps
  <2> QED BY <1>2, <2>2, <2>3 DEF TryLocal
<1>3. CASE JoinFetch(t)
  <2>1. j.kind # "prefetch"
    BY <1>0, <1>3 DEF JoinFetch, At, Local
  <2>2. CASE Return(t)
    BY <1>0, <2>2, MediaFrameOther DEF Return
  <2>3. CASE Goto(t, "acquire")
    BY <1>0, <2>1, <2>3, MediaFrameGoto DEF Steps
  <2>4. CASE thread' = [thread EXCEPT ![t] =
                           [@ EXCEPT !.call = inFlight[j.cid], !.at = "wait"]]
    <3> DEFINE s == [j EXCEPT !.call = inFlight[j.cid], !.at = "wait"]
    <3>1. s.kind # "prefetch"
      BY <1>0, <2>1 DEF ThreadState
    <3>2. thread' = [thread EXCEPT ![t] = s]
      BY <2>4
    <3> HIDE DEF s
    <3> QED BY <1>0, <3>1, <3>2, MediaFrameOther
  <2> QED BY <1>3, <2>2, <2>3, <2>4 DEF JoinFetch
<1>4. CASE AcquirePermit(t)
  BY <1>0, <1>4, MediaFrameGoto DEF AcquirePermit, At, Steps
<1>5. CASE FetchRemote(t)
  <2>1. PICK ok \in BOOLEAN, file \in BOOLEAN :
          thread' = [thread EXCEPT ![t] =
                        [j EXCEPT !.ok = ok, !.temp = file, !.at = "release"]]
    BY <1>5, Zenon DEF FetchRemote
  <2> DEFINE s == [j EXCEPT !.ok = ok, !.temp = file, !.at = "release"]
  <2>2. ClaimsLess(j, s)
    BY <1>0, <1>5 DEF ClaimsLess, ThreadState, FetchRemote, At
  <2>3. thread' = [thread EXCEPT ![t] = s]
    BY <2>1
  <2> HIDE DEF s
  <2> QED BY <1>0, <2>2, <2>3, MediaFrameOne
<1>6. CASE ReleasePermit(t)
  BY <1>0, <1>6, MediaFrameGoto DEF ReleasePermit, At, Steps
<1>7. CASE RecordResult(t)
  <2>1. j.at = "record" /\ thread' = [thread EXCEPT ![t] = Fetched(j)]
    BY <1>7 DEF RecordResult, At
  <2>2. ClaimsLess(j, Fetched(j))
    BY <1>0, <2>1, FetchedClaims
  <2> QED BY <1>0, <2>1, <2>2, MediaFrameOne
<1>8. CASE FinishShared(t)
  <2>1. \A u \in Thread : thread'[u] = thread[u] \/ thread'[u] = Idle
    BY <1>8 DEF FinishShared
  <2>2. \A u \in Thread : thread'[u] = thread[u] \/ ClaimsLess(thread[u], thread'[u])
    BY <1>0, <2>1 DEF ClaimsLess
  <2> QED BY <1>0, <2>2, MediaFrame
<1>9. CASE ContextDone(t)
  <2>1. CASE Return(t)
    BY <1>0, <2>1, MediaFrameOther DEF Return
  <2>2. CASE /\ j.at = "acquire"
             /\ thread' = [thread EXCEPT ![t] = [@ EXCEPT !.ok = FALSE, !.at = "record"]]
    <3> DEFINE s == [j EXCEPT !.ok = FALSE, !.at = "record"]
    <3>1. ClaimsLess(j, s)
      BY <1>0, <2>2 DEF ClaimsLess, ThreadState
    <3>2. thread' = [thread EXCEPT ![t] = s]
      BY <2>2
    <3> HIDE DEF s
    <3> QED BY <1>0, <3>1, <3>2, MediaFrameOne
  <2> QED BY <1>9, <2>1, <2>2 DEF ContextDone, At
<1> QED BY <1>1, <1>2, <1>3, <1>4, <1>5, <1>6, <1>7, <1>8, <1>9

\* Neither does a media request for a prefetcher.
LEMMA GetStepMedia ==
    ASSUME ExInv, MediaInv, NEW t \in Thread,
           OpenStored(t) \/ CacheFetched(t) \/ Reopen(t) \/ Serve(t) \/ GetFails(t)
    PROVE  MediaInv'
<1> DEFINE j == thread[t]
<1>0. /\ j \in ThreadState /\ Local(j) /\ Idle.kind # "prefetch"
      /\ UNCHANGED <<rows, thumbs, fetched, restated>> /\ Kept \subseteq Kept'
  BY IdleOK DEF ExInv, OpenStored, CacheFetched, Reopen, Serve, GetFails, media, Kept
<1>1. j.kind # "prefetch"
  BY <1>0 DEF OpenStored, CacheFetched, Reopen, Serve, GetFails, At, Local
<1>2. ASSUME NEW step \in Steps, Goto(t, step) PROVE MediaInv'
  BY <1>0, <1>1, <1>2, MediaFrameGoto
<1>3. CASE OpenStored(t) \/ CacheFetched(t)
  BY <1>2, <1>3 DEF OpenStored, CacheFetched, Steps
<1>4. CASE Serve(t)
  BY <1>0, <1>4, MediaFrameOther DEF Serve, Return
<1>5. CASE Reopen(t)
  <2>1. CASE Goto(t, "opentemp")
    BY <1>2, <2>1 DEF Steps
  <2>2. CASE thread' = [thread EXCEPT ![t] = [@ EXCEPT !.temp = FALSE, !.at = "serve"]]
    <3> DEFINE s == [j EXCEPT !.temp = FALSE, !.at = "serve"]
    <3>1. s.kind # "prefetch" /\ thread' = [thread EXCEPT ![t] = s]
      BY <1>0, <1>1, <2>2 DEF ThreadState
    <3> HIDE DEF s
    <3> QED BY <1>0, <3>1, MediaFrameOther
  <2> QED BY <1>5, <2>1, <2>2 DEF Reopen
<1>6. CASE GetFails(t)
  <2>1. CASE Goto(t, "backoff") \/ Goto(t, "opentemp")
    BY <1>2, <2>1 DEF Steps
  <2>2. CASE thread' = [thread EXCEPT ![t] = NextSource([@ EXCEPT !.temp = FALSE])]
    <3> DEFINE s == [j EXCEPT !.temp = FALSE]
    <3>1. s \in ThreadState /\ s.kind # "prefetch"
          /\ thread' = [thread EXCEPT ![t] = NextSource(s)]
      BY <1>0, <1>1, <2>2 DEF ThreadState
    <3> HIDE DEF s
    <3>2. NextSource(s).kind # "prefetch"
      BY <1>0, <3>1 DEF NextSource, ThreadState
    <3> QED BY <1>0, <3>1, <3>2, MediaFrameOther
  <2> QED BY <1>6, <2>1, <2>2 DEF GetFails
<1> QED BY <1>3, <1>4, <1>5, <1>6

\* A prefetcher goes from the file to the thumbnail and to the mark once the
\* one it is at is in the store.
LEMMA PrefetchStepMedia ==
    ASSUME ExInv, MediaInv, NEW t \in Thread,
           \/ AcquireSlot(t) \/ HasFile(t) \/ StoreFetchedMediaFile(t) \/ TrackMedia(t)
           \/ SetMediaFetched(t) \/ ReleaseSlot(t) \/ EndPrefetch(t) \/ PrefetchFails(t)
    PROVE  MediaInv'
<1> DEFINE j == thread[t]
<1>0. /\ j \in ThreadState /\ Local(j) /\ Idle.kind # "prefetch"
      /\ UNCHANGED <<rows, thumbs, restated>> /\ Kept \subseteq Kept'
  BY IdleOK DEF ExInv, AcquireSlot, HasFile, StoreFetchedMediaFile, TrackMedia,
     SetMediaFetched, ReleaseSlot, EndPrefetch, PrefetchFails, media, Kept
<1>1. j.kind = "prefetch"
  BY <1>0 DEF AcquireSlot, HasFile, StoreFetchedMediaFile, TrackMedia,
     SetMediaFetched, ReleaseSlot, EndPrefetch, PrefetchFails, At, Local
<1>2. StoredIn(j, rows, thumbs, restated, Kept)
  BY DEF MediaInv, Stored
<1>3. CASE AcquireSlot(t) \/ ReleaseSlot(t)
  BY <1>0, <1>3, MediaFrameGoto DEF AcquireSlot, ReleaseSlot, At, Steps, media
<1>4. CASE HasFile(t)
  <2>1. CASE j.cid \notin cas
    BY <1>0, <1>4, <2>1, MediaFrameGoto DEF HasFile, At, Steps, media
  <2>2. CASE j.cid \in cas
    <3> DEFINE s == [j EXCEPT !.at = "track"]
    <3>1. s.kind = j.kind /\ s.at = "track" /\ s.cid = j.cid /\ s.next = j.next
          /\ s.media = j.media
      BY <1>0 DEF ThreadState
    <3>2. thread' = [thread EXCEPT ![t] = s] /\ j.at = "has"
      BY <1>4, <2>2 DEF HasFile, Goto, At
    <3> HIDE DEF s
    <3>3. j.cid \in Kept'
      BY <1>0, <2>2 DEF Kept
    <3>4. StoredIn(s, rows, thumbs, restated, Kept')
      BY <1>0, <1>1, <1>2, <3>1, <3>2, <3>3 DEF StoredIn
    <3>5. fetched' = fetched
      BY <1>4 DEF HasFile, media
    <3> QED BY <1>0, <3>2, <3>4, <3>5, MediaFrameOne
  <2> QED BY <2>1, <2>2
<1>5. CASE StoreFetchedMediaFile(t)
  <2> DEFINE s == [j EXCEPT !.temp = FALSE, !.at = "track"]
  <2>1. s.kind = j.kind /\ s.at = "track" /\ s.cid = j.cid /\ s.next = j.next
        /\ s.media = j.media
    BY <1>0 DEF ThreadState
  <2>2. thread' = [thread EXCEPT ![t] = s] /\ j.at = "store" /\ fetched' = fetched
    BY <1>5 DEF StoreFetchedMediaFile, At
  <2> HIDE DEF s
  <2>3. j.cid \in Kept'
    BY <1>5 DEF StoreFetchedMediaFile, Kept
  <2>4. StoredIn(s, rows, thumbs, restated, Kept')
    BY <1>0, <1>1, <1>2, <2>1, <2>2, <2>3 DEF StoredIn
  <2> QED BY <1>0, <2>2, <2>4, MediaFrameOne
<1>6. CASE TrackMedia(t)
  <2>0. j.at = "track" /\ fetched' = fetched
    BY <1>6 DEF TrackMedia, At, media
  <2>1. CASE j.next = NoCid
    <3> DEFINE s == [j EXCEPT !.at = "mark"]
    <3>1. s.kind = j.kind /\ s.at = "mark" /\ s.cid = j.cid /\ s.next = j.next
          /\ s.media = j.media
      BY <1>0 DEF ThreadState
    <3>2. thread' = [thread EXCEPT ![t] = s]
      BY <1>6, <2>1 DEF TrackMedia
    <3> HIDE DEF s
    <3>3. StoredIn(s, rows, thumbs, restated, Kept')
      BY <1>0, <1>1, <1>2, <2>0, <2>1, <3>1 DEF StoredIn
    <3> QED BY <1>0, <2>0, <3>2, <3>3, MediaFrameOne
  <2>2. CASE j.next # NoCid
    <3> DEFINE s == [j EXCEPT !.cid = j.next, !.next = NoCid, !.at = "has"]
    <3>1. s.kind = j.kind /\ s.at = "has" /\ s.cid = j.next /\ s.next = NoCid
          /\ s.media = j.media
      BY <1>0 DEF ThreadState
    <3>2. thread' = [thread EXCEPT ![t] = s]
      BY <1>6, <2>2 DEF TrackMedia
    <3> HIDE DEF s
    <3>3. StoredIn(s, rows, thumbs, restated, Kept')
      BY <1>0, <1>1, <1>2, <2>0, <2>2, <3>1 DEF StoredIn
    <3> QED BY <1>0, <2>0, <3>2, <3>3, MediaFrameOne
  <2> QED BY <2>1, <2>2
<1>7. CASE SetMediaFetched(t)
  <2>1. j.at = "mark" /\ Goto(t, "unslot") /\ Kept' = Kept
        /\ fetched' = fetched \cup ({j.media} \cap rows)
    BY <1>7 DEF SetMediaFetched, At, Kept
  <2>2. thread'[t] = [j EXCEPT !.at = "unslot"]
        /\ \A u \in Thread \ {t} : thread'[u] = thread[u]
    BY <2>1 DEF Goto, ExInv
  <2>3. thread'[t].kind = j.kind /\ thread'[t].at = "unslot" /\ thread'[t].media = j.media
    BY <1>0, <2>2 DEF ThreadState
  <2>4. StoredIn(thread'[t], rows, thumbs, restated, Kept)
    BY <1>1, <1>2, <2>3 DEF StoredIn
  <2>5. \A u \in Thread : StoredIn(thread'[u], rows, thumbs, restated, Kept)
    BY <2>2, <2>4 DEF MediaInv, Stored
  <2>6. \A u \in Thread : Stored(thread[u])'
    BY <1>0, <2>1, <2>5 DEF Stored
  <2>7. j.media \in Kept /\ (j.media \in restated \/ thumbs[j.media] \in Kept \cup {NoCid})
    BY <1>1, <1>2, <2>1 DEF StoredIn
  <2>8. cas' = cas /\ evicted' = evicted
    BY <1>7 DEF SetMediaFetched
  <2>9. FetchedMediaStored'
    <3> SUFFICES ASSUME NEW m \in fetched'
                 PROVE  /\ m \in Kept
                        /\ m \in restated \/ {thumbs[m]} \subseteq Kept \cup {NoCid}
      BY <1>0, <2>8 DEF FetchedMediaStored, Kept
    <3>1. CASE m \in fetched
      BY <3>1 DEF MediaInv, FetchedMediaStored, Kept
    <3>2. CASE m = j.media
      BY <2>7, <3>2
    <3> QED BY <2>1, <3>1, <3>2
  <2> QED BY <1>0, <2>1, <2>6, <2>9 DEF MediaInv
<1>8. CASE EndPrefetch(t)
  BY <1>0, <1>8, MediaFrameOther DEF EndPrefetch, Return, media
<1>9. CASE PrefetchFails(t)
  <2>0. fetched' = fetched
    BY <1>9 DEF PrefetchFails
  <2>1. CASE j.at = "has" /\ Goto(t, "backoff")
    BY <1>0, <2>0, <2>1, MediaFrameGoto DEF Steps
  <2>2. CASE Goto(t, "unslot")
    BY <1>0, <2>0, <2>2, MediaFrameGoto DEF Steps
  <2>3. CASE thread' = [thread EXCEPT ![t] = [@ EXCEPT !.temp = FALSE, !.at = "unslot"]]
    <3> DEFINE s == [j EXCEPT !.temp = FALSE, !.at = "unslot"]
    <3>1. ClaimsLess(j, s)
      BY <1>0, <1>1 DEF ClaimsLess, ThreadState
    <3>2. thread' = [thread EXCEPT ![t] = s]
      BY <2>3
    <3> HIDE DEF s
    <3> QED BY <1>0, <2>0, <3>1, <3>2, MediaFrameOne
  <2> QED BY <1>9, <2>1, <2>2, <2>3 DEF PrefetchFails, At
<1> QED BY <1>3, <1>4, <1>5, <1>6, <1>7, <1>8, <1>9

\* A prefetcher starts with the thumbnail its announcement has put into the row;
\* an announcement with another one leaves the row restated.
LEMMA CallMedia ==
    ASSUME ExInv, MediaInv, NEW t \in Thread, Call(t)
    PROVE  MediaInv'
<1>1. ASSUME NEW kind \in {"get", "shared"}, NEW step, NEW c, NEW next, NEW m,
             Launch(t, kind, step, c, next, m), UNCHANGED <<media, evicted>>
      PROVE  MediaInv'
  <2> DEFINE s == [Idle EXCEPT !.kind = kind, !.at = step, !.cid = c,
                               !.next = next, !.media = m]
  <2>1. s.kind # "prefetch" /\ thread' = [thread EXCEPT ![t] = s]
    BY <1>1 DEF Idle, Launch
  <2> HIDE DEF s
  <2>2. UNCHANGED <<rows, thumbs, fetched, restated>> /\ Kept' = Kept
    BY <1>1 DEF media, Kept
  <2> QED BY <2>1, <2>2, MediaFrameOther
<1>2. ASSUME NEW c \in Cid, GetMedia(t, c) \/ FetchContent(t, c) PROVE MediaInv'
  BY <1>1, <1>2 DEF GetMedia, FetchContent
<1>3. ASSUME NEW m \in Media, GetMediaThumbnail(t, m) PROVE MediaInv'
  BY <1>1, <1>3 DEF GetMediaThumbnail
<1>4. ASSUME NEW a \in Announced, NEW pin \in BOOLEAN,
             HandleMediaObject(t, a[1], a[2], pin)
      PROVE  MediaInv'
  <2> DEFINE m == a[1]  thumb == a[2]
  <2>0. m \in Media /\ thumb \in Cid \cup {NoCid}
    BY ExchangeAssumption
  <2>1. /\ rows' = rows \cup {m} /\ thumbs' = [thumbs EXCEPT ![m] = thumb]
        /\ restated' = IF m \in rows /\ thumbs[m] # thumb THEN restated \cup {m} ELSE restated
        /\ UNCHANGED <<cas, evicted, fetched>>
        /\ \/ UNCHANGED thread
           \/ Launch(t, "prefetch", "slot", m, thumb, m)
    BY <1>4 DEF HandleMediaObject
  <2>2. thumbs'[m] = thumb /\ \A n \in Media \ {m} : thumbs'[n] = thumbs[n]
    BY <2>0, <2>1 DEF ExInv, Others
  <2>3. ASSUME NEW n \in rows
        PROVE  n \in Media /\ n \in rows' /\ (n \in restated' \/ thumbs'[n] = thumbs[n])
               /\ (n \in restated => n \in restated')
    BY <2>1, <2>2 DEF ExInv, Others
  <2> HIDE DEF m, thumb
  <2>4. Kept' = Kept
    BY <2>1 DEF Kept
  <2>5. ASSUME NEW s, StoredIn(s, rows, thumbs, restated, Kept)
        PROVE  StoredIn(s, rows', thumbs', restated', Kept)
    BY <2>3, <2>5 DEF StoredIn
  <2>6. \A u \in Thread : StoredIn(thread[u], rows', thumbs', restated', Kept)
    BY <2>5 DEF MediaInv, Stored
  <2>7. \A u \in Thread : StoredIn(thread'[u], rows', thumbs', restated', Kept)
    <3>1. CASE UNCHANGED thread
      BY <2>6, <3>1
    <3>2. CASE Launch(t, "prefetch", "slot", m, thumb, m)
      <4> DEFINE s == [Idle EXCEPT !.kind = "prefetch", !.at = "slot", !.cid = m,
                                   !.next = thumb, !.media = m]
      <4>1. s.kind = "prefetch" /\ s.at = "slot" /\ s.cid = m /\ s.next = thumb
            /\ s.media = m
        BY DEF Idle
      <4>2. thread' = [thread EXCEPT ![t] = s]
        BY <3>2 DEF Launch
      <4> HIDE DEF s
      <4>3. StoredIn(s, rows', thumbs', restated', Kept)
        BY <2>1, <2>2, <4>1 DEF StoredIn
      <4>4. thread'[t] = s /\ \A u \in Thread \ {t} : thread'[u] = thread[u]
        BY <4>2 DEF ExInv
      <4> QED BY <2>6, <4>3, <4>4
    <3> QED BY <2>1, <3>1, <3>2
  <2>8. \A u \in Thread : Stored(thread[u])'
    BY <2>4, <2>7 DEF Stored
  <2>9. FetchedMediaStored' /\ fetched' \subseteq rows'
    BY <2>1, <2>3 DEF MediaInv, FetchedMediaStored
  <2> QED BY <2>8, <2>9 DEF MediaInv
<1> QED BY <1>2, <1>3, <1>4 DEF Call

\* fully_fetched is set for a media object only when its file and the thumbnail
\* of its row have been in the store (prefetchMediaContent, SetMediaFetched),
\* for any media, goroutines and limits, whatever is announced, evicted or
\* fails while the prefetcher is at work.
THEOREM FetchedMediaStoredTheorem == Spec => []FetchedMediaStored
<1>1. Init => MediaInv
  <2> SUFFICES ASSUME Init PROVE MediaInv
    OBVIOUS
  <2>1. \A t \in Thread : thread[t] = Idle
    BY DEF Init
  <2>2. \A t \in Thread : Stored(thread[t])
    BY <2>1, IdleOK DEF Stored, StoredIn
  <2> QED BY <2>2 DEF Init, MediaInv, FetchedMediaStored
<1>2. ExInv /\ MediaInv /\ [Next]_vars => MediaInv'
  <2> SUFFICES ASSUME ExInv, MediaInv, [Next]_vars PROVE MediaInv'
    OBVIOUS
  <2>1. ASSUME NEW t \in Thread,
               Call(t) \/ Step(t) \/ ContextDone(t) \/ GetFails(t) \/ PrefetchFails(t)
        PROVE  MediaInv'
    BY <2>1, CallMedia, FetchStepMedia, GetStepMedia, PrefetchStepMedia DEF Step
  <2>2. ASSUME NEW c \in Cid, BackoffEnds(c) \/ Evict(c) PROVE MediaInv'
    <3>1. UNCHANGED <<rows, thumbs, fetched, restated, thread>> /\ Kept \subseteq Kept'
      BY <2>2 DEF BackoffEnds, Evict, media, Kept
    <3> QED BY <3>1, MediaFrame
  <2>3. CASE UNCHANGED vars
    <3>1. UNCHANGED <<rows, thumbs, fetched, restated, thread>> /\ Kept' = Kept
      BY <2>3 DEF vars, Kept
    <3> QED BY <3>1, MediaFrame
  <2> QED BY <2>1, <2>2, <2>3 DEF Next
<1>3. MediaInv => FetchedMediaStored
  BY DEF MediaInv
<1> QED BY InitOK, StepOK, <1>1, <1>2, <1>3, PTL DEF Spec

-----------------------------------------------------------------------------
(* The first peers.                                                        *)

\* While dials are under way, every valid address is still being dialled, has
\* left an error, or has worked.
RoundCounted ==
    boot.at = "dial" =>
        /\ boot.dialing \subseteq WellFormed(boot.list)
        /\ boot.valid = Cardinality(WellFormed(boot.list))
        /\ boot.errs + Cardinality(boot.dialing) <= boot.valid
        /\ boot.won <=> boot.errs + Cardinality(boot.dialing) < boot.valid

StartInv == StartTypeOK /\ RoundCounted /\ RoundJudged

\* Well-formed addresses are no more than the addresses.
LEMMA ListsFinite ==
    ASSUME NEW list \in SUBSET Address
    PROVE  /\ IsFiniteSet(list) /\ IsFiniteSet(WellFormed(list))
           /\ Cardinality(list) \in Nat /\ Cardinality(WellFormed(list)) \in Nat
           /\ Cardinality(WellFormed(list)) <= Cardinality(list)
<1>1. WellFormed(list) \subseteq list
  BY DEF WellFormed
<1>2. IsFiniteSet(list)
  BY StartAssumption, FS_Subset
<1> QED BY <1>1, <1>2, FS_Subset, FS_CardinalityType

\* A round starts with every well-formed address being dialled.
LEMMA RoundStarts ==
    ASSUME StartInv, NEW list \in SUBSET Address, NEW round \in 1..2, BeginRound(list, round)
    PROVE  boot' \in Boot /\ RoundCounted' /\ RoundJudged'
<1> DEFINE b == [Start EXCEPT !.at = "dial", !.round = round, !.list = list,
                              !.dialing = WellFormed(list), !.valid = validPeers(list),
                              !.found = boot.found]
<1>1. boot' = b /\ boot \in Boot
  BY DEF BeginRound, StartInv, StartTypeOK
<1>2. Start \in Boot /\ Start.errs = 0 /\ Start.won = FALSE
  BY DEF Start, Boot
<1>3. WellFormed(list) \in SUBSET Address /\ validPeers(list) \in Nat
  BY ListsFinite DEF WellFormed, validPeers
<1>4. /\ b \in Boot /\ b.at = "dial" /\ b.list = list /\ b.dialing = WellFormed(list)
      /\ b.valid = Cardinality(WellFormed(list)) /\ b.errs = 0 /\ b.won = FALSE
  <2>1. boot.found \in SUBSET Address
    BY <1>1 DEF Boot
  <2> QED BY <1>2, <1>3, <2>1 DEF Boot, validPeers
<1> HIDE DEF b
<1> QED BY <1>1, <1>4, ListsFinite DEF RoundCounted, RoundJudged

\* What the goroutine does to boot, one step at a time.
LEMMA DialCounted ==
    ASSUME StartInv, NEW a \in Address, DialEnds(a)
    PROVE  StartInv'
<1> DEFINE won == [boot EXCEPT !.dialing = @ \ {a}, !.won = TRUE]
           lost == [boot EXCEPT !.dialing = @ \ {a}, !.errs = @ + 1]
<1>0. /\ StartTypeOK /\ boot \in Boot /\ boot.at = "dial" /\ a \in boot.dialing
      /\ boot.dialing \in SUBSET Address /\ boot.list \in SUBSET Address
      /\ boot.errs \in Nat /\ boot.valid \in Nat /\ boot.won \in BOOLEAN
  BY DEF StartInv, StartTypeOK, DialEnds, Boot
<1>1. /\ boot.dialing \subseteq WellFormed(boot.list)
      /\ boot.valid = Cardinality(WellFormed(boot.list))
      /\ boot.errs + Cardinality(boot.dialing) <= boot.valid
      /\ boot.won <=> boot.errs + Cardinality(boot.dialing) < boot.valid
  BY <1>0 DEF StartInv, RoundCounted
<1>2. IsFiniteSet(boot.dialing) /\ Cardinality(boot.dialing) \in Nat
  BY <1>0, <1>1, ListsFinite, FS_Subset, FS_CardinalityType
<1>3. Cardinality(boot.dialing \ {a}) = Cardinality(boot.dialing) - 1
  BY <1>0, <1>2, FS_RemoveElement
<1>4. ASSUME boot' = won PROVE boot' \in Boot /\ RoundCounted' /\ RoundJudged'
  <2>1. /\ won \in Boot /\ won.at = "dial" /\ won.list = boot.list /\ won.valid = boot.valid
        /\ won.errs = boot.errs /\ won.dialing = boot.dialing \ {a} /\ won.won = TRUE
    BY <1>0 DEF Boot
  <2> HIDE DEF won
  <2> QED BY <1>0, <1>1, <1>2, <1>3, <1>4, <2>1 DEF RoundCounted, RoundJudged
<1>5. ASSUME boot' = lost PROVE boot' \in Boot /\ RoundCounted' /\ RoundJudged'
  <2>1. /\ lost \in Boot /\ lost.at = "dial" /\ lost.list = boot.list /\ lost.valid = boot.valid
        /\ lost.errs = boot.errs + 1 /\ lost.dialing = boot.dialing \ {a}
        /\ lost.won = boot.won
    <3>1. boot.errs + 1 \in Nat /\ boot.dialing \ {a} \in SUBSET Address
      BY <1>0
    <3> DEFINE n == boot.errs + 1
               d == boot.dialing \ {a}
    <3>2. lost = [boot EXCEPT !.dialing = d, !.errs = n]
      OBVIOUS
    <3> HIDE DEF n, d
    <3>3. n \in Nat /\ d \in SUBSET Address
      BY <3>1 DEF n, d
    <3>4. /\ lost \in Boot /\ lost.at = "dial" /\ lost.list = boot.list
          /\ lost.valid = boot.valid /\ lost.errs = n /\ lost.dialing = d /\ lost.won = boot.won
      BY <1>0, <3>2, <3>3 DEF Boot
    <3> QED BY <3>4 DEF n, d
  <2> HIDE DEF lost
  <2>2. lost.errs + Cardinality(lost.dialing) = boot.errs + Cardinality(boot.dialing)
    BY <1>0, <1>2, <1>3, <2>1
  <2> QED BY <1>0, <1>1, <1>5, <2>1, <2>2 DEF RoundCounted, RoundJudged
<1>6. conns' \subseteq Peer
  BY <1>0 DEF DialEnds, MayConnect, StartTypeOK
<1>7. boot' \in Boot /\ RoundCounted' /\ RoundJudged'
  BY <1>4, <1>5 DEF DialEnds
<1> QED
  BY <1>0, <1>6, <1>7 DEF StartInv, StartTypeOK, DialEnds, cfgVars

\* The round is over: errors are counted against valid addresses.
LEMMA JudgeCounted ==
    ASSUME StartInv, JudgeRound
    PROVE  StartInv'
<1>0. /\ StartTypeOK /\ boot \in Boot /\ boot.at = "dial" /\ boot.dialing = {}
      /\ boot.errs \in Nat /\ boot.valid \in Nat /\ boot.won \in BOOLEAN
  BY DEF StartInv, StartTypeOK, JudgeRound, Boot
<1>1. boot.errs <= boot.valid /\ (boot.won <=> boot.errs < boot.valid)
  BY <1>0, FS_EmptySet DEF StartInv, RoundCounted
<1>2. AllFailed => ~boot.won
  BY <1>0, <1>1 DEF AllFailed
<1>3. ~AllFailed => boot.won \/ boot.valid = 0
  BY <1>0, <1>1 DEF AllFailed
<1>4. boot' \in Boot /\ boot'.won = boot.won /\ boot'.valid = boot.valid
  BY <1>0 DEF JudgeRound, Boot
<1>5. \/ boot'.at = "done" /\ ~AllFailed
      \/ boot'.at \in {"manifest", "failed"} /\ AllFailed
  BY <1>0 DEF JudgeRound, Boot
<1>6. RoundCounted' /\ RoundJudged'
  BY <1>2, <1>3, <1>4, <1>5 DEF RoundCounted, RoundJudged
<1> QED
  BY <1>0, <1>4, <1>6 DEF StartInv, StartTypeOK, JudgeRound, cfgVars, netVars

\* Between the rounds only addresses are collected.
LEMMA CollectKept ==
    ASSUME StartInv,
           \/ TurnToNodes
           \/ \E m \in Manifest : AskManifest(m)
           \/ \E b \in Base : AskNode(b)
    PROVE  StartInv'
<1>0. StartTypeOK /\ boot \in Boot /\ RoundJudged
  BY DEF StartInv, StartTypeOK
<1>1. /\ boot' \in Boot /\ boot'.at \in {"manifest", "node"} /\ boot.at \in {"manifest", "node"}
      /\ boot'.won = boot.won
  <2>1. CASE TurnToNodes
    <3>1. bootstrapNodeAPIBases \in SUBSET (Manifest \cup Base)
      BY <1>0, StartAssumption DEF bootstrapNodeAPIBases, rootAPIBaseCandidates, StartTypeOK
    <3> QED BY <1>0, <2>1, <3>1 DEF TurnToNodes, Boot
  <2>2. ASSUME NEW m \in Manifest, AskManifest(m)
        PROVE  /\ boot' \in Boot /\ boot'.at = boot.at /\ boot.at = "manifest"
               /\ boot'.won = boot.won
    <3>1. \A answer : fetchBootstrapPeersFromManifest(m, answer) \in SUBSET Address
      BY StartAssumption DEF fetchBootstrapPeersFromManifest
    <3> QED BY <1>0, <2>2, <3>1 DEF AskManifest, Boot
  <2>3. ASSUME NEW b \in Base, AskNode(b)
        PROVE  /\ boot' \in Boot /\ boot'.at = boot.at /\ boot.at = "node"
               /\ boot'.won = boot.won
    <3>1. \A x, y, z : fetchBootstrapPeersFromNodeAPI(b, x, y, z) \in SUBSET Address
      BY StartAssumption DEF fetchBootstrapPeersFromNodeAPI, advertisedPeersForNode,
         bootstrapPeersFromConnectedPeers, Offers
    <3>2. PICK x, y, z :
             boot' = [boot EXCEPT !.ask = @ \ {b},
                         !.found = @ \cup fetchBootstrapPeersFromNodeAPI(b, x, y, z)]
      BY <2>3 DEF AskNode
    <3>3. boot.at = "node"
      BY <2>3 DEF AskNode
    <3> QED BY <1>0, <3>1, <3>2, <3>3 DEF Boot
  <2> QED BY <2>1, <2>2, <2>3
<1>2. RoundCounted' /\ RoundJudged'
  BY <1>0, <1>1 DEF RoundCounted, RoundJudged
<1>3. UNCHANGED <<peers, indexers, relay, up, conns, canceled, changes>>
  BY DEF TurnToNodes, AskManifest, AskNode, cfgVars, netVars
<1> QED BY <1>0, <1>1, <1>2, <1>3 DEF StartInv, StartTypeOK

LEMMA RetryKept ==
    ASSUME StartInv, Begin \/ Retry
    PROVE  StartInv'
<1>0. /\ StartTypeOK /\ boot \in Boot /\ RoundJudged /\ peers \in SUBSET Address
      /\ boot.found \in SUBSET Address
  BY DEF StartInv, StartTypeOK, Boot
<1>1. UNCHANGED <<peers, indexers, relay, up, conns, canceled, changes>>
  BY DEF Begin, Retry, cfgVars, netVars
<1>2. boot' \in Boot /\ RoundCounted' /\ RoundJudged'
  <2>1. CASE BeginRound(peers, 1) \/ BeginRound(peers \cup boot.found, 2)
    BY <1>0, <2>1, RoundStarts
  <2>2. CASE boot.at = "node" /\ boot' = [boot EXCEPT !.at = "failed"]
    <3>1. boot' \in Boot /\ boot'.at = "failed" /\ boot'.won = boot.won
      BY <1>0, <2>2 DEF Boot
    <3> QED BY <1>0, <2>2, <3>1 DEF RoundCounted, RoundJudged
  <2> QED BY <2>1, <2>2 DEF Begin, Retry
<1> QED BY <1>0, <1>1, <1>2 DEF StartInv, StartTypeOK

\* The rest of the node, and the network, leave the goroutine alone.
LEMMA AroundKept ==
    ASSUME StartInv,
           \/ ConnectToRelay \/ Cancel
           \/ \E p \in Peer : HandlePeerFound(p) \/ PeerComesOrGoes(p) \/ LoseConnection(p)
           \/ \E list \in SUBSET Address, urls \in SUBSET Indexer : ChangeConfig(list, urls)
           \/ UNCHANGED startVars
    PROVE  StartInv'
<1>0. StartTypeOK /\ RoundCounted /\ RoundJudged
  BY DEF StartInv
<1>1. boot' = boot
  BY DEF ConnectToRelay, Cancel, HandlePeerFound, PeerComesOrGoes, LoseConnection,
     ChangeConfig, startVars
<1>2. RoundCounted' /\ RoundJudged'
  BY <1>0, <1>1 DEF RoundCounted, RoundJudged
<1>3. StartTypeOK'
  <2>1. CASE ConnectToRelay
    <3>1. Len(Relay) \in Nat /\ relay \in Nat
      BY <1>0, StartAssumption DEF StartTypeOK
    <3>2. relay' \in 1..Len(Relay) + 1
      BY <1>0, <2>1, <3>1 DEF ConnectToRelay, StartTypeOK
    <3>3. conns' \subseteq Peer
      BY <1>0, <2>1 DEF ConnectToRelay, StartTypeOK, MayConnect
    <3> QED BY <1>0, <2>1, <3>2, <3>3 DEF ConnectToRelay, StartTypeOK, cfgVars
  <2>2. CASE Cancel
    BY <1>0, <2>2 DEF Cancel, StartTypeOK, cfgVars, netVars
  <2>3. ASSUME NEW p \in Peer, HandlePeerFound(p) \/ PeerComesOrGoes(p) \/ LoseConnection(p)
        PROVE  StartTypeOK'
    BY <1>0, <2>3, StartAssumption
    DEF HandlePeerFound, PeerComesOrGoes, LoseConnection, Change, StartTypeOK, cfgVars
  <2>4. ASSUME NEW list \in SUBSET Address, NEW urls \in SUBSET Indexer,
               ChangeConfig(list, urls)
        PROVE  StartTypeOK'
    BY <1>0, <2>4, StartAssumption DEF ChangeConfig, Change, StartTypeOK, netVars
  <2>5. CASE UNCHANGED startVars
    BY <1>0, <2>5 DEF startVars, cfgVars, netVars, StartTypeOK
  <2> QED BY <2>1, <2>2, <2>3, <2>4, <2>5
<1> QED BY <1>2, <1>3 DEF StartInv

\* Host.Bootstrap and the fallback of setupP2P, for any configured and discovered
\* addresses: no dial ever waits to hand over its error, and the node gives a
\* round up only when no dial of it worked, whatever fails, comes, goes or is
\* reconfigured meanwhile.
THEOREM RoundJudgedTheorem == StartSpec => [](StartTypeOK /\ ErrorsFit /\ RoundJudged)
<1>1. StartInit => StartInv
  <2> SUFFICES ASSUME StartInit PROVE StartInv
    OBVIOUS
  <2>1. boot \in Boot /\ boot.at = "start"
    BY DEF StartInit, Start, Boot
  <2>2. StartTypeOK
    <3>1. Len(Relay) \in Nat /\ 1 \in 1..Len(Relay) + 1 /\ 0 \in 0..MaxChanges
      BY StartAssumption
    <3>2. Stable \subseteq up /\ up \subseteq Peer
      BY StartAssumption DEF StartInit
    <3> QED BY <2>1, <3>1, <3>2 DEF StartInit, StartTypeOK
  <2> QED BY <2>1, <2>2 DEF StartInv, RoundCounted, RoundJudged
<1>2. StartInv /\ [StartNext]_startVars => StartInv'
  BY DialCounted, JudgeCounted, CollectKept, RetryKept, AroundKept DEF StartNext, Bootstrapping
<1>3. StartInv => StartTypeOK /\ ErrorsFit /\ RoundJudged
  <2> SUFFICES ASSUME StartInv, boot.at = "dial"
               PROVE  boot.errs + Cardinality(boot.dialing) <= Cardinality(boot.list)
    BY DEF StartInv, ErrorsFit, errChCapacity
  <2>1. boot \in Boot /\ boot.list \in SUBSET Address /\ boot.errs \in Nat
    BY DEF StartInv, StartTypeOK, Boot
  <2>2. IsFiniteSet(boot.dialing) /\ Cardinality(boot.dialing) \in Nat
    BY <2>1, ListsFinite, FS_Subset, FS_CardinalityType DEF StartInv, RoundCounted
  <2> QED BY <2>1, <2>2, ListsFinite DEF StartInv, RoundCounted
<1> QED BY <1>1, <1>2, <1>3, PTL DEF StartSpec
=============================================================================
