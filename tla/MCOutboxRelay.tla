---------------------------- MODULE MCOutboxRelay ----------------------------
(* Instances of OutboxRelay for TLC: pollers, a binlog reader, or both.    *)
EXTENDS OutboxRelay

CONSTANTS r1, r2, c1

TwoPollers == {r1, r2}
OneStreamer == {c1}
Nobody == {}
=============================================================================
