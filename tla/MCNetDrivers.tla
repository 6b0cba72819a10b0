---------------------------- MODULE MCNetDrivers ----------------------------
EXTENDS NetDrivers

MCNets == {"a", "b", "c", "p", "q", "w"}
MCNetOrder == <<"a", "b", "c", "p", "q", "w">>
MCWidth == [n \in MCNets |-> IF n \in {"p", "q", "w"} THEN 2 ELSE 1]
Unconnected == [n \in {} |-> n]
Port == "p" :> "w"
Deep == "p" :> "w" @@ "q" :> "p"

S(net, lo, hi, form, delay, lazy) ==
  [net |-> net, lo |-> lo, hi |-> hi, form |-> form, delay |-> delay, lazy |-> lazy, s0 |-> 6, s1 |-> 6]
All2(form, delay, lazy) == S("w", 0, 1, form, delay, lazy)
Pull(lo, hi, lazy) == [S("w", lo, hi, "strength", 0, lazy) EXCEPT !.s0 = 5, !.s1 = 5]
OfPort == {S("p", 0, 1, "assign", 0, TRUE), S("p", 0, 0, "assign", 3, TRUE)}
WholeNet == {All2("assign", 0, FALSE), All2("assign", 3, TRUE), S("p", 0, 1, "assign", 3, TRUE)}
Tristates == {All2("tristate", 0, TRUE), All2("tristate", 2, TRUE)}
Strong == {Pull(0, 1, TRUE), [Pull(0, 1, FALSE) EXCEPT !.delay = 2]} \cup Tristates
Selects == {S("w", 0, 0, "assign", 0, FALSE), S("w", 1, 1, "assign", 2, FALSE), Pull(1, 1, FALSE), S("w", 0, 0, "tristate", 0, FALSE)}
LazySelects == {S("w", 0, 0, "assign", 0, TRUE), S("w", 1, 1, "tristate", 0, TRUE)}

Kinds(k) == [n \in MCNets |-> IF n = "w" THEN k ELSE "wire"]
NoDelay == [n \in {} |-> 0]
Delay(n) == n :> 4
Design(k, delay, srcs) ==
  [kind |-> Kinds(k), actual |-> Port, delay |-> delay,
   sources |-> {s \in srcs : "w" \in DOMAIN delay => s.form # "tristate" \/ s.delay = 0}, switches |-> {}, max_sources |-> 3, max_switches |-> 0]

Alone(d) == [d EXCEPT !.actual = Unconnected, !.sources = {s \in @ : s.net \notin {"p", "q"}}]

Two(d) == [d EXCEPT !.max_sources = 2]

Eager(srcs) == {s \in srcs : ~s.lazy \/ s.net \in {"p", "q"}}

\* Selects beside pending drivers only on a delayed net, strengths on wires and
\* pulled nets, no pull on a trireg, no delayed tristate on a delayed net; a UDP
\* alone.
MCDesigns ==
  {Design("wire", NoDelay, WholeNet \cup Strong),
   Design("wire", NoDelay, Eager(WholeNet \cup Strong) \cup Selects),
   Design("wire", Delay("w"), WholeNet \cup Strong \cup Selects \cup LazySelects \cup OfPort),
   [Design("wire", Delay("w"), {All2("assign", 0, FALSE), S("p", 0, 1, "assign", 3, TRUE), S("q", 0, 1, "assign", 0, TRUE), S("q", 1, 1, "assign", 2, TRUE)})
    EXCEPT !.actual = Deep],
   Alone(Design("wire", NoDelay, Eager(WholeNet \cup Strong) \cup Selects)),
   Two(Alone(Design("wire", Delay("w"), WholeNet \cup Strong \cup LazySelects))),
   Alone(Design("wor", NoDelay, Eager(WholeNet) \cup {S("w", 0, 0, "assign", 2, FALSE)})),
   Alone(Design("wand", Delay("w"), WholeNet \cup {S("w", 1, 1, "assign", 0, TRUE)})),
   Design("tri1", NoDelay, WholeNet \cup Strong), Two(Alone(Design("tri0", Delay("w"), WholeNet \cup Strong))),
   Alone(Design("trireg", NoDelay, WholeNet \cup Tristates)), Two(Alone(Design("trireg", Delay("w"), WholeNet \cup Tristates))),
   [Design("wire", Delay("a"), {S("a", 0, 0, "udp", 0, FALSE)}) EXCEPT !.max_sources = 1],
   Design("wire", Delay("a"), {S("a", 0, 0, "assign", 0, FALSE), S("a", 0, 0, "assign", 3, TRUE)})}

\* Bidirectional switches between one-bit nets.
Sw(x, y) == [a |-> x, b |-> y]
Ends == {S(n, 0, 0, "assign", 0, n = "b") : n \in {"a", "b", "c"}} \cup {S("a", 0, 0, "assign", 0, TRUE)}
Switched(n) == [Alone(Design("wire", NoDelay, Ends)) EXCEPT !.switches = {Sw("a", "b"), Sw("b", "c")}, !.max_switches = n]
MCSwitch == {Switched(1), [Switched(1) EXCEPT !.delay = Delay("b")]}

AllDesigns == MCDesigns \cup MCSwitch
=============================================================================
