----------------------------- MODULE NetDrivers -----------------------------
(***************************************************************************)
(* The drivers of nets (src/elaborate.rs): how continuous assignments,     *)
(* gates, switches, UDPs and port connections, some of them still pending  *)
(* in instances, become one assignment per net.  The passes run in the     *)
(* order of lib.rs: bidirectional switches, net delays, multi-driver nets. *)
(* A value is kept for each bit; a source is an unknown signal.            *)
(***************************************************************************)
EXTENDS Naturals, Sequences, FiniteSets, SequencesExt, TLC

CONSTANTS Nets,        \* the design's nets
          NetOrder,    \* their names in the order the code sorts them
          Width,       \* net -> number of bits
          Designs      \* kind: net -> "wire", "wand", "wor", "tri0", "tri1" or "trireg"
                       \* actual: output ports -> the whole net each is connected to
                       \* delay: the nets with a delay -> that delay; a port has
                       \*   none, its actual's delay replaces it
                       \* sources, switches: what the text may drive and place
                       \* max_sources, max_switches: bounds on them

ASSUME NetsAssumption ==
  /\ ToSet(NetOrder) = Nets
  /\ \A d \in Designs : /\ DOMAIN d.kind = Nets /\ DOMAIN d.actual \subseteq Nets
                        /\ DOMAIN d.delay \subseteq Nets \ DOMAIN d.actual

VARIABLES design,
          sources,     \* what the text drives: target, form, delay, strengths
          switches,    \* tran_switches
          assigns,     \* continuous_assigns: target, rhs, delay, origin
          pending,     \* pending_cont_assign
          udps,        \* udp_instances: target and source
          kinds, widths,              \* with those of the stage nets
          strength_drivers,           \* net -> the drivers a strength resolution uses
          phase

vars == <<design, sources, switches, assigns, pending, udps, kinds, widths, strength_drivers, phase>>

-----------------------------------------------------------------------------
(* Targets and expressions *)

Net(n) == <<n>>
NetDrv(n) == n \o <<"netdrv">>
NetBit(n, i) == n \o <<"netbit", i>>
Drv(n, k) == n \o <<"drv", k>>

Target(n, lo, hi) == [net |-> n, lo |-> lo, hi |-> hi]
Whole(n, t) == t.lo = 0 /\ t.hi = widths[n] - 1

Src(i) == [op |-> "src", i |-> i]
Ref(n) == [op |-> "net", net |-> n]
Bit(n, i) == [op |-> "bit", net |-> n, i |-> i]
Cat(ns) == [op |-> "cat", nets |-> ns]
Marked(s0, s1, e) == [op |-> "mark", s0 |-> s0, s1 |-> s1, e |-> e]
Tristate(i, e) == [op |-> "tri", i |-> i, e |-> e]
Z == [op |-> "z"]
Held == [op |-> "held"]
Pulled(v) == [op |-> "lit", v |-> v]
Wide(lo, hi, e) == [op |-> "wide", lo |-> lo, hi |-> hi, e |-> e]
Call(f, a, b) == [op |-> f, a |-> a, b |-> b]
WresTri(e, tris) == [op |-> "wres_tri", e |-> e, tris |-> tris]
Sres(ds) == [op |-> "sres", drivers |-> ds]
Tranif(own, other, k) == [op |-> "tranif", a |-> own, b |-> other, k |-> k]

Assign(t, e, d, written) == [lhs |-> t, rhs |-> e, delay |-> d, origin |-> written]

Init ==
  /\ design \in Designs
  /\ sources = <<>> /\ switches = <<>> /\ assigns = <<>> /\ pending = <<>> /\ udps = <<>>
  /\ kinds = [n \in {Net(m) : m \in Nets} |-> design.kind[n[1]]]
  /\ widths = [n \in {Net(m) : m \in Nets} |-> Width[n[1]]]
  /\ strength_drivers = <<>>
  /\ phase = "connect"

-----------------------------------------------------------------------------
(* What the text drives *)

\* The connections `actual = port` of the output ports.
Connect ==
  /\ phase = "connect"
  /\ assigns' = SetToSeq({Assign(Target(Net(design.actual[p]), 0, Width[design.actual[p]] - 1), Ref(Net(p)), 0, FALSE) : p \in DOMAIN design.actual})
  /\ phase' = "inline"
  /\ UNCHANGED <<design, sources, switches, pending, udps, kinds, widths, strength_drivers>>

\* strength_marker and the lowering of gates: a strength stays on the value, a
\* tristate primitive is `control ? data : z`.
Driver(s, i) ==
  CASE s.form = "tristate" -> Tristate(i, Src(i))
    [] s.form = "strength" -> Marked(s.s0, s.s1, Src(i))
    [] OTHER -> Src(i)

\* A continuous assignment, a gate or a UDP; one of an instance stays pending.
AddSource(s) ==
  LET i == Len(sources) + 1
      a == Assign(Target(Net(s.net), s.lo, s.hi), Driver(s, i), s.delay, s.form # "tristate")
  IN /\ phase = "inline" /\ i <= design.max_sources
     /\ sources' = Append(sources, s)
     /\ assigns' = IF s.form # "udp" /\ ~s.lazy THEN Append(assigns, a) ELSE assigns
     /\ pending' = IF s.form # "udp" /\ s.lazy THEN Append(pending, a) ELSE pending
     /\ udps' = IF s.form = "udp" THEN Append(udps, [lhs |-> a.lhs, rhs |-> a.rhs]) ELSE udps
     /\ UNCHANGED <<design, switches, kinds, widths, strength_drivers, phase>>

\* record_tran_switches
AddSwitch(w) ==
  /\ phase = "inline" /\ Len(switches) < design.max_switches
  /\ switches' = Append(switches, w)
  /\ UNCHANGED <<design, sources, assigns, pending, udps, kinds, widths, strength_drivers, phase>>

-----------------------------------------------------------------------------
(* resolve_bidirectional_switches *)

DrivesWhole(a, n) == a.lhs.net = n /\ Whole(n, a.lhs)

\* A terminal's own drivers, folded.
Own(as, n) ==
  LET ds == SelectSeq(as, LAMBDA a : DrivesWhole(a, n))
  IN IF ds = <<>> THEN Z ELSE FoldLeft(LAMBDA e, a : Call("wres", e, a.rhs), ds[1].rhs, Tail(ds))

\* Each terminal takes its own drivers, joined by those of the other side.
Bridge(as, k) ==
  LET w == switches[k]
      a == Net(w.a)
      b == Net(w.b)
      rest == SelectSeq(as, LAMBDA x : ~DrivesWhole(x, a) /\ ~DrivesWhole(x, b))
      to(n, m) == Assign(Target(n, 0, widths[n] - 1), Tranif(Own(as, n), Own(as, m), k), 0, FALSE)
  IN rest \o <<to(a, b), to(b, a)>>

ResolveSwitches ==
  /\ phase = "inline"
  /\ IF switches = <<>> THEN UNCHANGED <<assigns, pending>>
     ELSE /\ assigns' = FoldLeft(Bridge, assigns \o pending, [k \in DOMAIN switches |-> k])
          /\ pending' = <<>>
  /\ phase' = "delays"
  /\ UNCHANGED <<design, sources, switches, udps, kinds, widths, strength_drivers>>

-----------------------------------------------------------------------------
(* apply_net_delays *)

Delayed == {Net(n) : n \in DOMAIN design.delay}

Connections ==
  {p \in DOMAIN design.actual : \E i \in DOMAIN assigns : /\ DrivesWhole(assigns[i], Net(design.actual[p])) /\ ~assigns[i].origin
                                                   /\ assigns[i].rhs = Ref(Net(p))}

\* merged: the delayed net a port is one with, through any depth of ports.
MergedAt[k \in 0 .. Cardinality(Nets)] ==
  IF k = 0 THEN <<>>
  ELSE LET m == MergedAt[k-1]
           new == {p \in Connections : Net(p) \notin Delayed /\ (Net(design.actual[p]) \in Delayed \/ Net(design.actual[p]) \in DOMAIN m)}
       IN [q \in {Net(p) : p \in new} |->
             IF Net(design.actual[q[1]]) \in Delayed THEN Net(design.actual[q[1]]) ELSE m[Net(design.actual[q[1]])]]
Merged == MergedAt[Cardinality(Nets)]

\* The pending drivers of a delayed net, materialized.
JoinDelayed(as, ps) ==
  LET hit(p) == p.lhs.net \in Delayed \cup DOMAIN Merged
  IN <<as \o SelectSeq(ps, hit), SelectSeq(ps, LAMBDA p : ~hit(p))>>

Retarget(t) == IF t.net \in DOMAIN Merged THEN [t EXCEPT !.net = Merged[t.net]] ELSE t

IsConnection(a) == ~a.origin /\ a.rhs.op = "net" /\ a.rhs.net \in DOMAIN Merged /\ a.lhs.net = Net(design.actual[a.rhs.net[1]])

\* Mutant: a merged port is left without a driver.
MergeUnread(as) ==
  LET kept == SelectSeq(as, LAMBDA a : ~IsConnection(a))
  IN [i \in DOMAIN kept |-> [kept[i] EXCEPT !.lhs = Retarget(@)]]

\* Connections of merged ports are dropped, their drivers drive the delayed
\* net, and the ports follow it.
Merge(as) ==
  LET kept == SelectSeq(as, LAMBDA a : ~IsConnection(a))
      ports == SelectSeq(NetOrder, LAMBDA n : Net(n) \in DOMAIN Merged)
  IN [i \in DOMAIN kept |-> [kept[i] EXCEPT !.lhs = Retarget(@)]]
     \o [i \in DOMAIN ports |-> LET p == Net(ports[i])
                                IN Assign(Target(p, 0, widths[p] - 1), Ref(Merged[p]), 0, FALSE)]

\* staged: the net takes a stage of its own unless a lone, undelayed
\* assignment drives all of it.
NeedsStage(as, us, n) ==
  LET ds == SelectSeq(as, LAMBDA a : a.lhs.net = n)
  IN \/ Len(ds) > 1 \/ \E i \in DOMAIN us : us[i].lhs.net = n
     \/ \E i \in DOMAIN ds : ds[i].delay # 0 \/ ~Whole(n, ds[i].lhs)

\* The stages of a net: one, or one for each bit of a vector.
Stages(n) ==
  LET d == design.delay[n[1]]
      w == widths[n]
  IN IF w = 1 THEN <<Assign(Target(n, 0, 0), Ref(NetDrv(n)), d, FALSE)>>
     ELSE [i \in 1 .. w |-> Assign(Target(NetBit(n, i-1), 0, 0), Bit(NetDrv(n), i-1), d, FALSE)]
          \o <<Assign(Target(n, 0, w-1), Cat([i \in 1 .. w |-> NetBit(n, i-1)]), 0, FALSE)>>

ApplyNetDelays ==
  LET joined == JoinDelayed(assigns, pending)
      as == Merge(joined[1])
      us == [i \in DOMAIN udps |-> [udps[i] EXCEPT !.lhs = Retarget(@)]]
      driven == {n \in Delayed : \E x \in ToSet(as) \cup ToSet(us) : x.lhs.net = n}
      staged == {n \in driven : NeedsStage(as, us, n) \/ widths[n] > 1}
      moved(t) == IF t.net \in staged THEN [t EXCEPT !.net = NetDrv(t.net)] ELSE t
      bits == UNION {{NetBit(n, i) : i \in 0 .. widths[n] - 1} : n \in {m \in staged : widths[m] > 1}}
      names == SelectSeq(NetOrder, LAMBDA n : Net(n) \in staged)
  IN /\ phase = "delays"
     /\ IF Delayed = {} THEN UNCHANGED <<assigns, pending, udps, kinds, widths>>
        ELSE /\ assigns' = [i \in DOMAIN as |->
                               IF as[i].lhs.net \in driven \ staged THEN [as[i] EXCEPT !.delay = design.delay[as[i].lhs.net[1]]]
                               ELSE [as[i] EXCEPT !.lhs = moved(@)]]
                           \o FlattenSeq([i \in DOMAIN names |-> Stages(Net(names[i]))])
             /\ pending' = joined[2]
             /\ udps' = [i \in DOMAIN us |-> [us[i] EXCEPT !.lhs = moved(@)]]
             /\ kinds' = [n \in {NetDrv(m) : m \in staged} |-> kinds[Front(n)]] @@ [n \in bits |-> "wire"] @@ kinds
             /\ widths' = [n \in {NetDrv(m) : m \in staged} |-> widths[Front(n)]] @@ [n \in bits |-> 1] @@ widths
     /\ phase' = "multi"
     /\ UNCHANGED <<design, sources, switches, strength_drivers>>

-----------------------------------------------------------------------------
(* resolve_multi_driver_nets *)

Overlap(t, u) == t.lo <= u.hi /\ u.lo <= t.hi

WidenNone(as) == {}  \* Mutant: select drivers are left as they are.

\* The nets with a select driver and two drivers that share a bit.
Widen(as) ==
  {n \in {a.lhs.net : a \in ToSet(as)} :
     LET ds == SelectSeq(as, LAMBDA a : a.lhs.net = n)
     IN /\ \E i \in DOMAIN ds : ~Whole(n, ds[i].lhs)
        /\ \E i, j \in DOMAIN ds : i < j /\ Overlap(ds[i].lhs, ds[j].lhs)}

\* A select driver as a driver of the whole net, z elsewhere; a strength and a
\* tristate control stay outermost.
WidenRhs(t, e) ==
  IF e.op \in {"mark", "tri"} THEN [e EXCEPT !.e = Wide(t.lo, t.hi, @)] ELSE Wide(t.lo, t.hi, e)

Widened(as) ==
  [i \in DOMAIN as |->
     LET a == as[i]
     IN IF a.lhs.net \in Widen(as) /\ ~Whole(a.lhs.net, a.lhs)
        THEN [a EXCEPT !.lhs = Target(@.net, 0, widths[@.net] - 1), !.rhs = WidenRhs(a.lhs, @)]
        ELSE a]

\* gate_tristate_parts, marker_code: a driver with its control and strengths.
Strength(e) ==
  CASE e.op = "tri"  -> [ctl |-> e.i, s0 |-> 6, s1 |-> 6, value |-> e.e]
    [] e.op = "mark" -> [ctl |-> 0, s0 |-> e.s0, s1 |-> e.s1, value |-> e.e]
    [] OTHER         -> [ctl |-> 0, s0 |-> 6, s1 |-> 6, value |-> e]

\* marker_level, after strength_marker: 0 supply, 1 strong, 2 pull, 3 weak.
Level(e) ==
  IF e.op # "mark" THEN 1
  ELSE IF e.s0 = 7 /\ e.s1 = 7 THEN 0
  ELSE IF e.s0 >= 6 \/ e.s1 >= 6 THEN 1
  ELSE IF e.s0 = 3 /\ e.s1 = 3 THEN 3 ELSE 2

Wired(n) == kinds[n] \in {"wand", "wor"}

\* single: a driver with a strength, kept for its net.
Single(as) ==
  LET kept == SelectSeq(as, LAMBDA a : Whole(a.lhs.net, a.lhs) /\ a.rhs.op \in {"tri", "mark"})
  IN FoldLeft(LAMBDA f, a : (a.lhs.net :> <<Strength(a.rhs)>>) @@ f, strength_drivers, kept)

\* The whole-net drivers of a net in order, pending ones last.
DriversOf(as, n) == SelectSeq(as, LAMBDA a : DrivesWhole(a, n))

\* multi: several drivers, or one beside an implicit pull or charge.
Multi(as) ==
  {n \in DOMAIN kinds : \/ Len(DriversOf(as, n)) > 1
                        \/ Len(DriversOf(as, n)) = 1 /\ kinds[n] \in {"tri0", "tri1", "trireg"}}

\* Mutant: the drivers of a net run through the delay of the first.
SplitNone(ds) == FALSE

\* split_delays: each delayed driver keeps its delay on a net of its own.
Split(ds) == Len(ds) > 1 /\ \E i \in DOMAIN ds : ds[i].delay # 0

Stage(n, ds, i) == Drv(n, Cardinality({j \in 1 .. i-1 : ds[j].delay # 0}))

\* The delayed drivers, each on its own net, and what the fold reads.
SplitOff(n, ds) ==
  [i \in {j \in DOMAIN ds : Split(ds) /\ ds[j].delay # 0} |->
     [ds[i] EXCEPT !.lhs = Target(Stage(n, ds, i), 0, widths[n] - 1), !.rhs = IF @.op = "mark" THEN @.e ELSE @]]
FoldRhs(n, ds, i) ==
  IF ~(Split(ds) /\ ds[i].delay # 0) THEN ds[i].rhs
  ELSE IF ds[i].rhs.op = "mark" THEN [ds[i].rhs EXCEPT !.e = Ref(Stage(n, ds, i))] ELSE Ref(Stage(n, ds, i))

\* The chains of one net, by level, and its tristate primitives.
Fold(n, es) ==
  LET tris == IF Wired(n) THEN <<>> ELSE SelectSeq(es, LAMBDA e : e.op = "tri")
      raw(e) == IF e.op = "mark" THEN e.e ELSE e
      op(l) == IF l # 1 THEN "wres" ELSE IF Wired(n) THEN kinds[n] ELSE "wres"
      chain(l) == LET xs == SelectSeq(es, LAMBDA e : Level(e) = l /\ (Wired(n) \/ e.op # "tri"))
                  IN IF xs = <<>> THEN Z ELSE FoldLeft(LAMBDA a, e : Call(op(l), a, raw(e)), raw(xs[1]), Tail(xs))
      strong == IF tris = <<>> THEN chain(1) ELSE WresTri(chain(1), tris)
      pull == IF chain(2) # Z THEN chain(2)
              ELSE CASE kinds[n] = "tri0" -> Pulled("0") [] kinds[n] = "tri1" -> Pulled("1")
                     [] kinds[n] = "trireg" -> Held [] OTHER -> Z
      over(h, l) == IF l = Z THEN h ELSE IF h = Z THEN l ELSE Call("over", h, l)
  IN over(chain(0), over(strong, over(pull, chain(3))))

\* strength: the drivers of a net by strength, an implicit one last.
Implicit(n, es) ==
  CASE kinds[n] = "tri0" -> <<[ctl |-> 0, s0 |-> 5, s1 |-> 5, value |-> Pulled("0")]>>
    [] kinds[n] = "tri1" -> <<[ctl |-> 0, s0 |-> 5, s1 |-> 5, value |-> Pulled("1")]>>
    [] kinds[n] = "trireg" /\ ~(\E i \in DOMAIN es : Level(es[i]) = 2) -> <<[ctl |-> 0, s0 |-> 2, s1 |-> 2, value |-> Held]>>
    [] OTHER -> <<>>
Strengths(n, es) == [i \in DOMAIN es |-> Strength(es[i])] \o Implicit(n, es)
Keep(n, es) == ~Wired(n) /\ ((\E i \in DOMAIN es : es[i].op \in {"tri", "mark"}) \/ Implicit(n, es) # <<>>)

\* The drivers that are counted: those of instances too.
Counted(as, ps) == as \o ps

ResolveMultiDriverNets ==
  LET wide == Widened(assigns)
      multi == Multi(Counted(wide, pending))
      hit(a) == a.lhs.net \in multi /\ Whole(a.lhs.net, a.lhs)
      as == wide \o SelectSeq(pending, hit)
      es(n) == LET ds == DriversOf(as, n) IN [i \in DOMAIN ds |-> FoldRhs(n, ds, i)]
      strengths == [n \in {m \in multi : Keep(m, es(m))} |-> Strengths(n, es(n))] @@ Single(wide)
      order == SelectSeq([i \in DOMAIN as |-> <<i, as[i].lhs.net>>],
                         LAMBDA x : hit(as[x[1]]) /\ \A j \in 1 .. x[1] - 1 : ~(hit(as[j]) /\ as[j].lhs.net = x[2]))
      split == UNION {{SplitOff(n, DriversOf(as, n))[i] : i \in DOMAIN SplitOff(n, DriversOf(as, n))} : n \in multi}
      folded(n) == LET ds == DriversOf(as, n)
                   IN Assign(Target(n, 0, widths[n] - 1),
                             IF n \in DOMAIN strengths THEN Sres(strengths[n]) ELSE Fold(n, es(n)),
                             IF Split(ds) THEN 0 ELSE ds[1].delay, FALSE)
  IN /\ phase = "multi"
     /\ IF multi = {} THEN assigns' = wide /\ strength_drivers' = Single(wide) /\ UNCHANGED <<pending, widths, kinds>>
        ELSE /\ assigns' = SelectSeq(as, LAMBDA a : ~hit(a)) \o SetToSeq(split)
                           \o [i \in DOMAIN order |-> folded(order[i][2])]
             /\ pending' = SelectSeq(pending, LAMBDA a : ~hit(a))
             /\ strength_drivers' = strengths
             /\ widths' = [m \in {a.lhs.net : a \in split} |-> widths[Front(Front(m))]] @@ widths
             /\ kinds' = [m \in {a.lhs.net : a \in split} |-> "wire"] @@ kinds
     /\ phase' = "done"
     /\ UNCHANGED <<design, sources, switches, udps>>

Next ==
  \/ Connect
  \/ \E s \in design.sources : AddSource(s)
  \/ \E w \in design.switches : AddSwitch(w)
  \/ ResolveSwitches \/ ApplyNetDelays \/ ResolveMultiDriverNets
  \/ phase = "done" /\ UNCHANGED vars

Spec == Init /\ [][Next]_vars

-----------------------------------------------------------------------------
(* What the simulator computes *)

V == {"0", "1", "x", "z"}

Wres(a, b) == IF a = "z" THEN b ELSE IF b = "z" \/ a = b THEN a ELSE "x"
Wand(a, b) == IF a = "z" THEN b ELSE IF b = "z" THEN a ELSE IF "0" \in {a, b} THEN "0" ELSE IF a = b THEN a ELSE "x"
Wor(a, b) == IF a = "z" THEN b ELSE IF b = "z" THEN a ELSE IF "1" \in {a, b} THEN "1" ELSE IF a = b THEN a ELSE "x"

\* The values of the strongest drivers; ds is a set of strengths and values.
Strongest(ds) ==
  LET s(d) == CASE d.v = "0" -> d.s0 [] d.v = "1" -> d.s1 [] OTHER -> IF d.s0 > d.s1 THEN d.s0 ELSE d.s1
      on == {d \in ds : d.v # "z" /\ s(d) # 0}
  IN {d.v : d \in {e \in on : \A f \in on : s(f) <= s(e)}}

OneOf(vs) == IF vs = {} THEN "z" ELSE IF Cardinality(vs) = 1 THEN CHOOSE v \in vs : TRUE ELSE "x"

\* Bits of a source differ.
SourceBit(v, b) == IF b % 2 = 0 THEN v ELSE CASE v = "0" -> "1" [] v = "1" -> "0" [] v = "x" -> "z" [] v = "z" -> "x"

All == ToSet(assigns) \cup ToSet(pending) \cup ToSet(udps)
Writers(n, b) == {a \in All : a.lhs.net = n /\ a.lhs.lo <= b /\ b <= a.lhs.hi}

RECURSIVE Eval(_, _, _), Value(_, _, _)

\* Bit b of a net once everything has settled; "many" if assignments overwrite
\* each other on it.
Value(n, b, env) ==
  LET ws == Writers(n, b)
  IN IF ws = {} THEN (CASE kinds[n] = "tri0" -> "0" [] kinds[n] = "tri1" -> "1" [] OTHER -> "z")
     ELSE IF Cardinality(ws) > 1 THEN "many"
     ELSE LET a == CHOOSE a \in ws : TRUE IN Eval(a.rhs, b - a.lhs.lo, env)

Eval(e, b, env) ==
  CASE e.op = "src" -> SourceBit(env.v[e.i], b)
    [] e.op = "net" -> Value(e.net, b, env)
    [] e.op = "bit" -> Value(e.net, e.i, env)
    [] e.op = "cat" -> Value(e.nets[b+1], 0, env)
    [] e.op = "z" -> "z"
    [] e.op = "held" -> env.held
    [] e.op = "lit" -> e.v
    [] e.op = "mark" -> Eval(e.e, b, env)
    [] e.op = "tri" -> IF env.on[e.i] THEN Eval(e.e, b, env) ELSE "z"
    [] e.op = "wide" -> IF e.lo <= b /\ b <= e.hi THEN Eval(e.e, b - e.lo, env) ELSE "z"
    [] e.op = "wres" -> Wres(Eval(e.a, b, env), Eval(e.b, b, env))
    [] e.op = "wand" -> Wand(Eval(e.a, b, env), Eval(e.b, b, env))
    [] e.op = "wor" -> Wor(Eval(e.a, b, env), Eval(e.b, b, env))
    [] e.op = "over" -> LET h == Eval(e.a, b, env) IN IF h = "z" THEN Eval(e.b, b, env) ELSE h
    [] e.op = "wres_tri" -> FoldLeft(LAMBDA v, t : Wres(v, Eval(t, b, env)), Eval(e.e, b, env), e.tris)
    [] e.op = "tranif" -> LET own == Eval(e.a, b, env)
                          IN IF env.closed[e.k] THEN Wres(own, Eval(e.b, b, env)) ELSE own
    [] e.op = "sres" ->
         OneOf(Strongest({[s0 |-> d.s0, s1 |-> d.s1, v |-> IF d.ctl = 0 \/ env.on[d.ctl] THEN Eval(d.value, b, env) ELSE "z"]
                          : d \in ToSet(e.drivers)}))

-----------------------------------------------------------------------------
(* Properties *)

\* The nets that are one net with n: ports connected to it, and what closed
\* switches join.
Joined(n, closed) ==
  LET grow[k \in 0 .. Cardinality(Nets)] ==
        IF k = 0 THEN {n}
        ELSE LET g == grow[k-1]
             IN g \cup {p \in DOMAIN design.actual : design.actual[p] \in g}
                  \cup {m \in Nets : \E i \in DOMAIN switches : closed[i] /\ \E x \in g : {switches[i].a, switches[i].b} = {m, x}}
  IN grow[Cardinality(Nets)]

\* The sources that drive bit b of n.
DrivenBy(n, b, closed) == {i \in DOMAIN sources : sources[i].net \in Joined(n, closed) /\ sources[i].lo <= b /\ b <= sources[i].hi}

\* IEEE 1800 6.6 and 28.12: the strongest drivers of the bit decide, an
\* implicit pull or charge among them; wired nets combine them.
Reference(n, b, env) ==
  LET s(i) == sources[i]
      drives(i) == [s0 |-> s(i).s0, s1 |-> s(i).s1,
                    v |-> IF s(i).form = "tristate" /\ ~env.on[i] THEN "z" ELSE SourceBit(env.v[i], b - s(i).lo)]
      implicit == CASE design.kind[n] = "tri0" -> {[s0 |-> 5, s1 |-> 5, v |-> "0"]}
                    [] design.kind[n] = "tri1" -> {[s0 |-> 5, s1 |-> 5, v |-> "1"]}
                    [] design.kind[n] = "trireg" /\ DrivenBy(n, b, env.closed) # {} -> {[s0 |-> 2, s1 |-> 2, v |-> env.held]}
                    [] OTHER -> {}
      top == Strongest({drives(i) : i \in DrivenBy(n, b, env.closed)} \cup implicit)
  IN CASE design.kind[n] = "wand" /\ "0" \in top -> "0"
       [] design.kind[n] = "wor" /\ "1" \in top -> "1"
       [] OTHER -> OneOf(top)

Envs ==
  [v : [DOMAIN sources -> V],
   on : {f \in [DOMAIN sources -> BOOLEAN] : \A i \in DOMAIN sources : sources[i].form # "tristate" => f[i]},
   closed : [DOMAIN switches -> BOOLEAN],
   held : IF \E n \in Nets : design.kind[n] = "trireg" THEN {"0", "1", "x"} ELSE {"x"}]

Done == phase = "done"
Bits(n) == 0 .. Width[n] - 1

\* Every bit of every net has one assignment, and settles to what all its
\* drivers make of it: those of instances, of ports and behind a switch too,
\* each with its strength, on its own bits; "every bit resolves ALL of its
\* drivers", and the terminals of a closed switch agree.
Resolved ==
  Done => /\ \A n \in DOMAIN kinds : \A b \in 0 .. widths[n] - 1 : Cardinality(Writers(n, b)) <= 1
          /\ \A n \in Nets \ DOMAIN design.actual : \A b \in Bits(n), env \in Envs : Value(Net(n), b, env) = Reference(n, b, env)

\* "the port reads the net's delayed value": an output port connected to a
\* delayed net, through any depth of ports, reads what that net has.
PortsRead ==
  Done => \A n \in DOMAIN design.delay : \A p \in Joined(n, [k \in DOMAIN switches |-> FALSE]) \ {n}, b \in Bits(n), env \in Envs :
            Value(Net(p), b, env) = Value(Net(n), b, env)

RECURSIVE Paths(_, _, _), NetPaths(_, _, _)

\* The delays a source's value passes on its way to a net, stage by stage.
NetPaths(n, b, i) ==
  LET stage(a) == IF "delay" \notin DOMAIN a \/ a.delay = 0 THEN <<>> ELSE <<a.delay>>
  IN UNION {{p \o stage(a) : p \in Paths(a.rhs, b - a.lhs.lo, i)} : a \in Writers(n, b)}

Paths(e, b, i) ==
  CASE e.op = "src" -> IF e.i = i THEN {<<>>} ELSE {}
    [] e.op = "net" -> NetPaths(e.net, b, i)
    [] e.op = "bit" -> NetPaths(e.net, e.i, i)
    [] e.op = "cat" -> NetPaths(e.nets[b+1], 0, i)
    [] e.op \in {"z", "held", "lit"} -> {}
    [] e.op \in {"mark", "tri"} -> Paths(e.e, b, i)
    [] e.op = "wide" -> IF e.lo <= b /\ b <= e.hi THEN Paths(e.e, b - e.lo, i) ELSE {}
    [] e.op \in {"wres", "wand", "wor", "over", "tranif"} -> Paths(e.a, b, i) \cup Paths(e.b, b, i)
    [] e.op = "wres_tri" -> Paths(e.e, b, i) \cup UNION {Paths(t, b, i) : t \in ToSet(e.tris)}
    [] e.op = "sres" -> UNION {Paths(d.value, b, i) : d \in ToSet(e.drivers)}

\* "each continuous assignment's delay is its OWN", and the net's delay acts on
\* the resolved value: a driver's value passes its own delay, then the net's,
\* and no other.
DelaysOwn ==
  Done => \A n \in Nets \ DOMAIN design.actual : \A b \in Bits(n) :
            LET own(i) == IF sources[i].delay = 0 THEN <<>> ELSE <<sources[i].delay>>
                net == IF n \in DOMAIN design.delay THEN <<design.delay[n]>> ELSE <<>>
                all == [k \in DOMAIN switches |-> TRUE]
            IN \A i \in DrivenBy(n, b, all) : NetPaths(Net(n), b, i) = {own(i) \o net}
=============================================================================
