CONSTANTS
    Hashes = {h1, h2, h3}
    s1 = s1
    s2 = s2
    Sources = {s1, s2}
    Kind <- MCKind
    Cap = 2
    MaxNotes = 5

SPECIFICATION Spec

\* The endpoints stop announcing at the bound and every request has been
\* answered; the fetcher then waits on its subscriptions.
CHECK_DEADLOCK FALSE

INVARIANTS
    TypeOK
    ForwardOncePerStay

PROPERTIES
    DedupRefined
