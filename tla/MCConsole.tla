------------------------------ MODULE MCConsole ------------------------------
(* One scene at a time: batches from two recorders, drift sweeps of two    *)
(* workers over a few units of time, and console requests beside traffic.  *)
EXTENDS Console

Quiet ==
    [records |-> 0, recorders |-> Recorders, flushEvery |-> 1, rate |-> 2, capped |-> FALSE, quota |-> 1, time |-> 0,
     sweeps |-> {}, ci |-> TRUE, faults |-> {}, admins |-> {}, operations |-> <<>>, callbacks |-> {}]

Traffic(n, every, limit, kinds) ==
    [Quiet EXCEPT !.records = n, !.flushEvery = every, !.rate = limit, !.capped = TRUE, !.time = 1,
                  !.faults = kinds]
Requesting(ops, kinds, backs) ==
    [Quiet EXCEPT !.admins = DOMAIN ops, !.operations = ops, !.callbacks = backs, !.faults = kinds]
Sweeping(until, replicas, kinds) ==
    [Quiet EXCEPT !.records = 2, !.recorders = {"r1"}, !.time = until, !.sweeps = replicas,
                  !.faults = kinds]

MCSettings ==
    {Traffic(4, 2, 2, {"redis", "api"}), Traffic(3, 1, 2, {"network"}), Traffic(3, 1, 9, {}),
     Sweeping(4, Workers, {"worker", "redis"}), [Sweeping(3, {"w1"}, {}) EXCEPT !.ci = FALSE],
     Requesting([a1 |-> "install", a2 |-> "install", a3 |-> "disconnect"], {"console"}, {"c1", "c2"}),
     Requesting([a1 |-> "install", a2 |-> "install", a3 |-> "disconnect", a4 |-> "disconnect"],
                {"redis"}, {"c1", "c2"}),
     Requesting([a1 |-> "install", a2 |-> "configure", a3 |-> "configure", a4 |-> "disconnect"],
                {}, {"c1"}),
     Requesting([a1 |-> "install", a2 |-> "delete", a3 |-> "rename"], {}, {"c1", "c2"}),
     [Requesting([a1 |-> "revoke", a2 |-> "revoke", a3 |-> "delete"], {}, {}) EXCEPT !.records = 2],
     [Requesting([a1 |-> "mint", a2 |-> "delete", a3 |-> "delete"], {}, {}) EXCEPT !.records = 1],
     [Sweeping(3, {"w1"}, {"slack"}) EXCEPT !.admins = {"a1"}, !.operations = [a1 |-> "install"],
                                             !.callbacks = {"c1"}]}

(* Two drift sweeps; two requests to revoke one key. *)
MCOverlap == {Sweeping(4, Workers, {})}
MCTwice == {Requesting([a1 |-> "revoke", a2 |-> "revoke"], {}, {})}
=============================================================================
