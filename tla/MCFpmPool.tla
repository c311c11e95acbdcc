------------------------------ MODULE MCFpmPool ------------------------------
EXTENDS FpmPool

Pool(pm, min, max, spawn, idle, requests) ==
    [pm |-> pm, min_spare |-> min, max_spare |-> max, max_spawn_rate |-> spawn,
     idle_timeout |-> idle, max_requests |-> requests]

Static == Pool("static", 0, 0, 0, 0, 1)
Dynamic == Pool("dynamic", 1, 1, 2, 0, 0)
Ondemand == Pool("ondemand", 0, 0, 0, 1, 0)

Small == {Static, Dynamic, Ondemand}
OnlyOndemand == {Ondemand}
=============================================================================
