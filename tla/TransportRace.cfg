\* Two readers delivering in either order, two threads closing, and a receiver too busy to
\* answer but with errors, which a scan takes for its own on the slot and the function
\* alone. The rotation has one id, as under LOGISWITCH_FIXED_SWID, so every pair of
\* exchanges can share a key.
SPECIFICATION Spec
CONSTANTS
    Queries = {q1, q2}
    Pings = {q1}
    Lookalikes <- OfEverySlot
    Kinds = {"busy"}
    NumSwIds = 1
    Readers = {r1, r2}
    Closers = {c1, c2}
    MaxExchanges = 2
    MaxForeign = 0
SYMMETRY Symmetry
INVARIANTS
    StragglersRejected
    OursFiledAsOurs
    ReadersOutlived
