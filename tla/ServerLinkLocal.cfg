SPECIFICATION Spec
CONSTANTS
    Nil = Nil
    Junk = Junk
    Error = Error
    MaxInt = 1023
    Kilo = 3
    Kibi = 4
    Second = 1
    DefaultTrustedProxies <- MCDefaultTrustedProxies
    LoopbackPrefixes <- MCLoopbackPrefixes
    lo = lo
    lan = lan
    pub4 = pub4
    pub6 = pub6
    linkLocal = linkLocal
    notes = notes
    other = other
    Nets4 = {lo, lan, pub4}
    Nets6 = {pub6, linkLocal}
    HostParts = {1, 2}
    Hosts = {notes, other}
    Processes <- BlankOnly
    Files <- NoFile
    Templates = {}
    Traffic <- LinkLocalTraffic
\* A start may end with an exit.
CHECK_DEADLOCK FALSE
INVARIANT
    DefaultRangesTrusted
