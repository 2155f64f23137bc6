---------------------------- MODULE NetworkStart ----------------------------
(***************************************************************************)
(* How a node finds its first peers: the goroutine of setupP2P             *)
(* (cmd/xleaks/setup_p2p.go) that runs Host.Bootstrap                      *)
(* (pkg/p2p/discovery.go) over the configured addresses and, when none of  *)
(* them answers, once more with what discoverBootstrapFallbackPeers        *)
(* (cmd/xleaks/bootstrap_fallback.go) collects from manifests and from the *)
(* APIs of other nodes; beside it mDNS and ConnectToRelays                 *)
(* (pkg/p2p/relay.go).  The configuration may change meanwhile, peers come *)
(* and go, and the context is canceled when the node stops.                *)
(*                                                                         *)
(* An address is what a multiaddr string stands for; a second address of a *)
(* peer also stands for a repeated entry.  Documents are modelled by the   *)
(* addresses they yield, after trimming and removal of duplicates.         *)
(***************************************************************************)
EXTENDS Naturals, Sequences, FiniteSets

CONSTANTS
    Address,     \* addresses in configurations, manifests and answers
    Peer,        \* other nodes
    PeerOf,      \* the peer an address names
    Malformed,   \* when it cannot be parsed or names none
    Self,        \* the node itself
    Stable,      \* peers that can always be reached
    Manifest,    \* defaultBootstrapManifestURLs
    Entries,     \* the addresses of a manifest
    Base,        \* root URLs of node APIs
    DefaultBase, \* defaultBootstrapNodeAPIBases
    Indexer,     \* indexer URLs in configurations
    RootsOf,     \* the http and https root of an indexer's host, if it has one
    Configured,  \* /api/node/config: bootstrap_peers and default_bootstrap_peers
    Listening,   \* its listen_addresses with the node_id of /api/node/status
    Connected,   \* /api/node/peers, with the peers' IDs
    Reliable,    \* manifests and APIs that always answer
    Relay,       \* cfg.Network.RelayAddresses, a sequence
    MaxChanges   \* bound: changes of configuration and of the peers around

Offers == [Base -> SUBSET Address]

ASSUME StartAssumption ==
    /\ IsFiniteSet(Address)
    /\ PeerOf \in [Address -> Peer \cup {Self, Malformed}]
    /\ Self \notin Peer /\ Malformed \notin Peer \cup {Self}
    /\ Stable \subseteq Peer
    /\ Entries \in [Manifest -> SUBSET Address]
    /\ DefaultBase \subseteq Base /\ RootsOf \in [Indexer -> SUBSET Base]
    /\ Configured \in Offers /\ Listening \in Offers /\ Connected \in Offers
    /\ Reliable \subseteq Manifest \cup Base
    /\ Relay \in Seq(Address) /\ MaxChanges \in Nat

VARIABLES
    peers,      \* cfg.Network.BootstrapPeers
    indexers,   \* cfg.Indexer.KnownIndexers
    boot,       \* the bootstrap goroutine
    relay,      \* the entry of Relay to be tried next
    up,         \* peers that can be reached now
    conns,      \* peers the host is connected to
    canceled,   \* the context
    changes     \* changes so far

cfgVars == <<peers, indexers>>
netVars == <<up, conns>>
startVars == <<cfgVars, boot, relay, netVars, canceled, changes>>

\* Where the goroutine is; the round of Bootstrap, its dials under way, how
\* many were valid and how many errors errCh holds; the sources yet to be
\* asked and the addresses found.  won is a ghost: a dial of the round worked.
Boot == [at : {"start", "dial", "manifest", "node", "done", "failed"}, round : 1..2,
         list : SUBSET Address, dialing : SUBSET Address, valid : Nat, errs : Nat,
         won : BOOLEAN, ask : SUBSET (Manifest \cup Base), found : SUBSET Address]

Start == [at |-> "start", round |-> 1, list |-> {}, dialing |-> {}, valid |-> 0,
          errs |-> 0, won |-> FALSE, ask |-> {}, found |-> {}]

-----------------------------------------------------------------------------
(* host.Connect, external: a peer that is connected needs no dial, the     *)
(* node cannot dial itself, and a canceled context fails every dial.       *)

MayConnect(p) == p \in conns \/ (p \in up /\ ~canceled)

MayFail(p) == p \notin conns /\ (p \notin Stable \/ canceled)

-----------------------------------------------------------------------------
(* Host.Bootstrap.                                                         *)

WellFormed(list) == {a \in list : PeerOf[a] # Malformed}

\* Mutant: malformed addresses count as peers that were tried.
CountAll(list) == Cardinality(list)

validPeers(list) == Cardinality(WellFormed(list))

\* Mutant: an unbuffered channel of errors.
Unbuffered(list) == 0

errChCapacity(list) == Cardinality(list)

\* Every well-formed address is dialled in a goroutine of its own.
BeginRound(list, round) ==
    boot' = [Start EXCEPT !.at = "dial", !.round = round, !.list = list,
                          !.dialing = WellFormed(list), !.valid = validPeers(list),
                          !.found = boot.found]

Begin ==
    /\ boot.at = "start"
    /\ BeginRound(peers, 1)
    /\ UNCHANGED <<cfgVars, relay, netVars, canceled, changes>>

\* A goroutine is done when it is connected or has sent its error; nobody
\* receives from errCh before all of them are done.
DialEnds(a) ==
    /\ boot.at = "dial" /\ a \in boot.dialing
    /\ \/ /\ MayConnect(PeerOf[a])
          /\ conns' = conns \cup {PeerOf[a]}
          /\ boot' = [boot EXCEPT !.dialing = @ \ {a}, !.won = TRUE]
       \/ /\ MayFail(PeerOf[a])
          /\ boot.errs < errChCapacity(boot.list)
          /\ boot' = [boot EXCEPT !.dialing = @ \ {a}, !.errs = @ + 1]
          /\ UNCHANGED conns
    /\ UNCHANGED <<cfgVars, relay, up, canceled, changes>>

AllFailed == boot.errs = boot.valid /\ boot.valid > 0

\* wg.Wait returns.  h.dht.Bootstrap, external, starts to fill the routing
\* table, does not wait for it and has no error to return.
JudgeRound ==
    /\ boot.at = "dial" /\ boot.dialing = {}
    /\ boot' = IF ~AllFailed THEN [boot EXCEPT !.at = "done"]
               ELSE IF boot.round = 1
               THEN [boot EXCEPT !.at = "manifest", !.ask = Manifest]
               ELSE [boot EXCEPT !.at = "failed"]
    /\ UNCHANGED <<cfgVars, relay, netVars, canceled, changes>>

-----------------------------------------------------------------------------
(* discoverBootstrapFallbackPeers.  An answer may be missing, cut off or   *)
(* unreadable; a reliable source answers while the context lasts.          *)

SourceAnswers(s) == IF canceled THEN {"fail"}
              ELSE IF s \in Reliable THEN {"ok"} ELSE {"ok", "fail", "bad"}

fetchBootstrapPeersFromManifest(m, answer) == IF answer = "ok" THEN Entries[m] ELSE {}

\* Listen addresses are turned into dialable ones with the node's ID.
advertisedPeersForNode(b, config, status) ==
    IF config = "ok" /\ status = "ok" THEN Listening[b] ELSE {}

bootstrapPeersFromConnectedPeers(b, connected) ==
    IF connected = "ok" THEN Connected[b] ELSE {}

\* The three documents of a node; unreadable peers are left out, any other
\* unreadable document spoils the node's answer.
fetchBootstrapPeersFromNodeAPI(b, config, status, connected) ==
    IF config = "bad" \/ status = "bad" THEN {}
    ELSE (IF config = "ok" THEN Configured[b] ELSE {})
         \cup advertisedPeersForNode(b, config, status)
         \cup bootstrapPeersFromConnectedPeers(b, connected)

rootAPIBaseCandidates(i) == RootsOf[i]

bootstrapNodeAPIBases == DefaultBase \cup UNION {rootAPIBaseCandidates(i) : i \in indexers}

AskManifest(m) ==
    /\ boot.at = "manifest" /\ m \in boot.ask
    /\ \E answer \in SourceAnswers(m) :
          boot' = [boot EXCEPT !.ask = @ \ {m},
                               !.found = @ \cup fetchBootstrapPeersFromManifest(m, answer)]
    /\ UNCHANGED <<cfgVars, relay, netVars, canceled, changes>>

\* The configuration is read when the manifests have been asked.
TurnToNodes ==
    /\ boot.at = "manifest" /\ boot.ask = {}
    /\ boot' = [boot EXCEPT !.at = "node", !.ask = bootstrapNodeAPIBases]
    /\ UNCHANGED <<cfgVars, relay, netVars, canceled, changes>>

AskNode(b) ==
    /\ boot.at = "node" /\ b \in boot.ask
    /\ \E config, status, connected \in SourceAnswers(b) :
          boot' = [boot EXCEPT !.ask = @ \ {b},
                      !.found = @ \cup fetchBootstrapPeersFromNodeAPI(b, config, status, connected)]
    /\ UNCHANGED <<cfgVars, relay, netVars, canceled, changes>>

\* The second round, over what is configured by now and what was found.
Retry ==
    /\ boot.at = "node" /\ boot.ask = {}
    /\ IF boot.found = {} THEN boot' = [boot EXCEPT !.at = "failed"]
       ELSE BeginRound(peers \cup boot.found, 2)
    /\ UNCHANGED <<cfgVars, relay, netVars, canceled, changes>>

-----------------------------------------------------------------------------
(* ConnectToRelays, one after the other, and mDNS.                         *)

ConnectToRelay ==
    /\ relay <= Len(Relay)
    /\ LET p == PeerOf[Relay[relay]]
       IN  \/ p # Malformed /\ MayConnect(p) /\ conns' = conns \cup {p} /\ relay' = relay + 1
           \/ (p = Malformed \/ MayFail(p)) /\ relay' = relay + 1 /\ UNCHANGED conns
    /\ UNCHANGED <<cfgVars, boot, up, canceled, changes>>

\* A peer on the local network announces itself; errors are ignored.
HandlePeerFound(p) ==
    /\ p \in up /\ p \notin conns /\ ~canceled
    /\ conns' = conns \cup {p}
    /\ UNCHANGED <<cfgVars, boot, relay, up, canceled, changes>>

-----------------------------------------------------------------------------
(* The surroundings.                                                       *)

Change == changes < MaxChanges /\ changes' = changes + 1

\* PUT /api/node/config, which parses the addresses but does not ask for a
\* peer in them.
ChangeConfig(list, urls) ==
    /\ Change
    /\ peers' = list /\ indexers' = urls
    /\ UNCHANGED <<boot, relay, netVars, canceled>>

PeerComesOrGoes(p) ==
    /\ Change
    /\ p \notin Stable
    /\ up' = IF p \in up THEN up \ {p} ELSE up \cup {p}
    /\ conns' = conns \cap up'
    /\ UNCHANGED <<cfgVars, boot, relay, canceled>>

LoseConnection(p) ==
    /\ Change
    /\ p \in conns
    /\ conns' = conns \ {p}
    /\ UNCHANGED <<cfgVars, boot, relay, up, canceled>>

Cancel ==
    /\ ~canceled
    /\ canceled' = TRUE
    /\ UNCHANGED <<cfgVars, boot, relay, netVars, changes>>

-----------------------------------------------------------------------------
StartInit ==
    /\ peers \in SUBSET Address /\ indexers \in SUBSET Indexer
    /\ boot = Start /\ relay = 1
    /\ up \in {Stable \cup S : S \in SUBSET Peer} /\ conns = {}
    /\ canceled = FALSE /\ changes = 0

Bootstrapping ==
    \/ Begin \/ JudgeRound \/ TurnToNodes \/ Retry
    \/ \E a \in Address : DialEnds(a)
    \/ \E m \in Manifest : AskManifest(m)
    \/ \E b \in Base : AskNode(b)

StartNext ==
    \/ Bootstrapping \/ ConnectToRelay \/ Cancel
    \/ \E p \in Peer : HandlePeerFound(p) \/ PeerComesOrGoes(p) \/ LoseConnection(p)
    \/ \E list \in SUBSET Address, urls \in SUBSET Indexer : ChangeConfig(list, urls)

\* Goroutines run on; dials and HTTP requests have timeouts.
StartFairness ==
    /\ WF_startVars(Bootstrapping)
    /\ WF_startVars(ConnectToRelay)

StartSpec == StartInit /\ [][StartNext]_startVars /\ StartFairness

-----------------------------------------------------------------------------
(* Properties.                                                             *)

StartTypeOK ==
    /\ peers \subseteq Address /\ indexers \subseteq Indexer
    /\ boot \in Boot /\ relay \in 1..Len(Relay) + 1
    /\ Stable \subseteq up /\ up \subseteq Peer /\ conns \subseteq Peer
    /\ canceled \in BOOLEAN /\ changes \in 0..MaxChanges

\* No dial has to wait before it hands over its error, however many fail: the
\* channel has room for the errors of all dials that are still under way.
ErrorsFit ==
    boot.at = "dial" => boot.errs + Cardinality(boot.dialing) <= errChCapacity(boot.list)

\* Host.Bootstrap counts errors, it does not remember who answered: it fails, and
\* the fallback is tried, only when no dial of the round worked, and it succeeds
\* only when one did or there was nobody to dial.
RoundJudged ==
    /\ boot.at \in {"manifest", "node", "failed"} => ~boot.won
    /\ boot.at = "done" => boot.won \/ boot.valid = 0

\* The goroutine comes to an end whatever fails: no dial waits for ever to hand
\* over its error.
BootstrapEnds == <>(boot.at \in {"done", "failed"})

\* README.md: "If the static peer list is stale, startup also tries the public
\* node API and the repository bootstrap manifest": a list of addresses of
\* which none answers any more does not keep the node alone, while a reliable
\* source knows a peer that can be reached.
StaleListRecovered ==
    (boot.at = "dial" /\ boot.dialing # {} /\ ~boot.won) ~> (conns # {} \/ canceled)
=============================================================================
