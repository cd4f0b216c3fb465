----------------------------- MODULE MCBackend ------------------------------
(* Instances of Backend: each menu is a kind of recording, with what it     *)
(* declares first, what it may declare later and the calls it makes.        *)
EXTENDS Backend

CONSTANTS p1, p2

Scope == Node("scope", 0, 1, 0)
Bus == Node("transaction", 0, 2, 1)    \* unit payload
Call == Node("transaction", 1, 2, 1)   \* a payload that may come later
Stage == Node("stage", 1, 3, 1)
Mark == Node("event", 0, 3, 1)
Text == Node("log", 0, 2, 0)
Tick == Node("clock", 0, 2, 0)

Menu(nodes, later, calls, producers, stamps, times, depth) ==
  [nodes |-> nodes, later |-> later, ops |-> calls, producers |-> producers,
   stamps |-> stamps, times |-> times, related |-> {1, 2}, depth |-> depth]

MCMenus ==
  {Menu(<<Scope, Call, Stage>>, << >>, {"begin", "begin_stage", "end", "end_stage", "payload"},
        {p1}, {0}, {0, 1}, 4),
   Menu(<<Scope, Bus, Mark>>, <<Text>>, {"begin", "point", "end", "declare", "flush"},
        {p1}, {0}, {0, 2}, 4),
   Menu(<<Scope, Bus>>, << >>, {"begin", "embed", "end_embedded", "end", "intern"},
        {p1}, {0}, {0, 2}, 4),
   Menu(<<Scope, Bus>>, << >>, {"begin", "end", "relate"}, {p1}, {0}, {1}, 4),
   Menu(<<Scope, Bus>>, << >>, {"begin", "end", "attribute", "span_kind"}, {p1}, {0}, {1}, 4),
   Menu(<<Scope, Tick>>, <<Bus>>, {"clock_run", "clock_stop", "declare", "associate", "flush"},
        {p1}, {0, 4}, {0, 2, 3}, 4),
   Menu(<<Scope, Bus>>, << >>, {"begin", "end", "payload", "emit"}, {p1, p2}, {0, 1}, {0}, 3),
   Menu(<<Scope, Bus>>, << >>, {"begin", "end", "attribute"}, {p1, p2}, {0, 1}, {1}, 3),
   Menu(<<Scope, Tick>>, << >>, {"clock_run", "clock_stop"}, {p1, p2}, {0, 1}, {0, 2}, 3),
   Menu(<<Text>>, << >>, {"point", "blackout", "flush"}, {p1}, {0, 1}, {0, 1}, 3)}
=============================================================================
