----------------------------- MODULE MCMeshNode -----------------------------
EXTENDS MeshNode

\* Every channel holds one message.
MCCapacity == [c \in Channels |-> 1]

\* Orders; pings; everything else.
MCLoads == {{"order"}, {"pong"}, {"proof", "log", "report", "echo", "proposal", "ping"}}

\* Nothing but reports of misconduct.
ReportsOnly == {{"report"}}

CONSTANTS h1, h2

\* No round trip yet; a prompt peer and a far one; two prompt peers.
MCMeasured ==
    {[h \in Hops |-> <<>>], [h \in Hops |-> IF h = h1 THEN <<0>> ELSE <<4>>], [h \in Hops |-> <<0>>]}

\* A watchtower takes the three receivers of what it looks at.
WatchtowerOnly == {{"settlement", "log", "misconduct"}}

\* Of the channels the receive task fills, an API node takes the floods' only.
ApiOnly == {{"observer"}}
=============================================================================
