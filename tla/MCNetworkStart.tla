---------------------------- MODULE MCNetworkStart ----------------------------
EXTENDS NetworkStart, TLC

CONSTANTS
    oak, elm,                \* peers: oak can always be reached
    me, junk,                \* the node itself, no peer
    atOak, atElm, home, bad, \* addresses
    list, site, index, url   \* a manifest, two node APIs, an indexer's URL

MCAddress == {atOak, atElm, home, bad}
MCPeerOf == (atOak :> oak) @@ (atElm :> elm) @@ (home :> me) @@ (bad :> junk)
MCEntries == list :> {atElm, bad}
MCRoots == url :> {index}
MCConfigured == (site :> {atElm}) @@ (index :> {bad})
MCListening == (site :> {atOak}) @@ (index :> {})
MCConnected == (site :> {home}) @@ (index :> {atElm})
MCRelay == <<bad, atElm, home>>
=============================================================================
