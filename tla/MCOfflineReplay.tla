--------------------------- MODULE MCOfflineReplay ---------------------------
EXTENDS OfflineReplay

\* A session of two turns and one that comes a little later.
MCSessions == <<[at |-> 0, delays |-> <<0, 1>>], [at |-> 1, delays |-> <<0>>]>>
MCTokens   == <<<<2, 1>>, <<1>>>>

Conf(k, o, r, n, c, s, w) ==
    [kind |-> k, source |-> o, router |-> r, threshold |-> n, cap |-> c,
     startup |-> s, workers |-> w]

\* Two workers of which one may be retired, or one and another that takes time to
\* start and may be cancelled.
MCConfigs ==
    {Conf(k, "workload", r, 0, c, s, 2 - s) :
        k \in {"agg", "disagg"}, r \in {"none", "queue"}, c \in {0, 1}, s \in {0, 1}}
    \cup {Conf(k, "requests", "plain", 0, c, 1, 1) : k \in {"agg", "disagg"}, c \in {0, 1}}
=============================================================================
