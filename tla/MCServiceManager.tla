-------------------------- MODULE MCServiceManager --------------------------
(* Two services; an upgrade gives the first a port or takes it away.  Two   *)
(* units serve the first, one of them the second too.                      *)
EXTENDS ServiceManager

MCRevisions == {[s \in Services |-> IF s = "web" THEN {80} ELSE {}],
                [s \in Services |-> IF s = "web" THEN {80, 443} ELSE {}]}

\* A port changes hands.
MCMoves == {[s \in Services |-> IF s = "web" THEN {80} ELSE {}],
            [s \in Services |-> IF s = "web" THEN {443} ELSE {80}]}

MCRequired == [s \in Services |-> {"host", "port"}]

\* A unit that is there but may be without its port, one that comes and goes.
MCOffers == [s \in Services |-> [u \in Units |->
               IF u = "u1" THEN {{"host"}, {"host", "port"}}
               ELSE IF s = "web" THEN {{}, {"host", "port"}} ELSE {{}}]]
=============================================================================
