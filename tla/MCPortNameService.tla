-------------------------- MODULE MCPortNameService --------------------------
EXTENDS PortNameService, TLC
CONSTANTS s1, s2, r1, r2

At(i, n) == [instance |-> i, name |-> n]
Process(p, g, a) == [path |-> p, graceful |-> g, arrivals |-> a]

\* One portname and two requests; then two portnames and one request: with two
\* names, with one name under two instances, with one path.
MCLayouts == {
    Process(s1 :> At(1, "a"), {s1}, {r1, r2}),
    Process(s1 :> At(1, "a") @@ s2 :> At(1, "b"), {s1, s2}, {}),
    Process(s1 :> At(1, "a") @@ s2 :> At(2, "a"), {s1}, {r1}),
    Process(s1 :> At(1, "a") @@ s2 :> At(1, "a"), {s1, s2}, {})}
=============================================================================
