\* Three exchanges against a rotation of two ids: the third comes a whole turn
\* after the first, so both defences against a late reply are needed.
SPECIFICATION Spec
CONSTANTS
    Queries = {q1}
    Pings = {q1}
    Lookalikes = {}
    Kinds = {"ok", "busy"}
    NumSwIds = 2
    Readers = {r1}
    Closers = {}
    MaxExchanges = 3
    MaxForeign = 1
INVARIANTS
    TypeOK
    CreditedWithinTurn
    StragglersRejected
    LiveReplyNotSwallowed
