--------------------------- MODULE MCWatchpoints ---------------------------
(* A pool of three nodes and counts of two bits, so that the pool          *)
(* overflows and a count that has fired comes round again; requests with   *)
(* the trigger in front, in the middle, at the end and dropped.            *)
EXTENDS Watchpoints

CONSTANTS a, b

MCAddr == {a, b}
P(t, at, n) == [type |-> t, addr |-> at, count |-> n]
None == P("none", a, 0)
R(w, t, s, k, n) == [watches |-> w, trigger |-> t, stop |-> s, traced |-> k, from |-> n]
MCRequest ==
  { R(<< >>, None, None, {"fic"}, 2),
    R(<< >>, P("x", a, 2), P("w", b, 2), {"fic", "write"}, 0),
    R(<<P("r", a, 0)>>, P("any", a, 1), P("any", a, 3), {"fic"}, 0),
    R(<<P("w", a, 2), P("any", a, 0)>>, P("w", a, 2), None, {"write"}, 0),
    R(<<P("x", b, 1), P("r", b, 1)>>, None, P("x", b, 2), {"read"}, 1),
    R(<<P("any", a, 3), P("w", a, 1)>>, P("r", b, 1), P("x", b, 1), {"idle"}, 0) }
=============================================================================
