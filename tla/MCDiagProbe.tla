---------------------------- MODULE MCDiagProbe ----------------------------
(* Model-checking instance of DiagProbe.                                   *)
EXTENDS DiagProbe, TLC

CONSTANTS n1, n2, n3

At(height, hash) == [height |-> height, hash |-> hash]
Catchup(on, validated, failed) ==
    [on |-> on, long |-> TRUE, validated |-> validated, failed |-> failed]

Values ==
    [container |-> {"running", "paused"}, tip |-> {At(1, 1), At(3, 1), At(3, 2)},
     fsm |-> {"RUNNING", "IDLE", "CATCHINGBLOCKS"},
     catchup |-> {Catchup(FALSE, 0, FALSE), Catchup(FALSE, 0, TRUE), Catchup(TRUE, 1, FALSE)},
     peers |-> {0, 1}, heights |-> {"known"}, invalid |-> {{}, {2}, {4}},
     health |-> {"ok", "failing"}]

AllWorlds ==
    [container : Values.container, tip : Values.tip, fsm : Values.fsm,
     catchup : Values.catchup, peers : Values.peers, heights : Values.heights,
     invalid : Values.invalid, health : Values.health]

\* A node that is catching up, while several viewers look.
Catching ==
    {[container |-> "running", tip |-> At(1, 1), fsm |-> "CATCHINGBLOCKS",
      catchup |-> Catchup(TRUE, v, FALSE), peers |-> 1, heights |-> "known",
      invalid |-> {}, health |-> "ok"] : v \in {0, 1}}

EveryWorld == AllWorlds \cup Catching

Brief(up, cut, tip) == [up |-> up, cut |-> cut, height |-> tip.height, hash |-> tip.hash]
Seen(mine, other) == n1 :> mine @@ n2 :> Brief(TRUE, FALSE, At(3, 1)) @@ n3 :> other

AllSnapshots ==
    {Seen(Brief(TRUE, FALSE, At(3, 1)), Brief(TRUE, FALSE, At(3, 1))),
     Seen(Brief(TRUE, TRUE, At(1, 1)), Brief(FALSE, FALSE, At(3, 1))),
     Seen(Brief(FALSE, FALSE, At(1, 1)), Brief(TRUE, FALSE, At(3, 2))),
     Seen(Brief(TRUE, FALSE, At(3, 2)), Brief(TRUE, FALSE, At(3, 2)))}

OneSnapshot == {Seen(Brief(TRUE, FALSE, At(3, 1)), Brief(TRUE, FALSE, At(3, 1)))}

OneSource == {"catchup"}

Symmetry == Permutations(Calls)

TwoRounds == {{"container", "tip", "invalid", "peers"}, {"fsm", "catchup", "heights", "health"}}
=============================================================================
