CONSTANTS
    oak = oak
    elm = elm
    me = me
    junk = junk
    atOak = atOak
    atElm = atElm
    home = home
    bad = bad
    list = list
    site = site
    index = index
    url = url
    Address <- MCAddress
    Peer = {oak, elm}
    PeerOf <- MCPeerOf
    Malformed = junk
    Self = me
    Stable = {oak}
    Manifest = {list}
    Entries <- MCEntries
    Base = {site, index}
    DefaultBase = {site}
    Indexer = {url}
    RootsOf <- MCRoots
    Configured <- MCConfigured
    Listening <- MCListening
    Connected <- MCConnected
    Reliable = {site}
    Relay <- MCRelay
    MaxChanges = 1
SPECIFICATION StartSpec
INVARIANTS RoundJudged
PROPERTIES BootstrapEnds StaleListRecovered
CHECK_DEADLOCK FALSE
