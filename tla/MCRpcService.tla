---------------------------- MODULE MCRpcService ----------------------------
(* Instances of RpcService for TLC.                                        *)
EXTENDS RpcService, TLC

CONSTANTS c0, c1

Op(o, k, v) == [op |-> o, key |-> k, value |-> v]

Idle == Op("idle", -1, -1)
Get  == Op("get", 0, -1)
Put  == Op("put", 0, 1)

\* one client idles or reads, twice, while the other writes
ReadersWriter == c0 :> {Idle, Get} @@ c1 :> {Put, Op("get", -1, -1)}
TwoAndOne     == c0 :> 2 @@ c1 :> 1

\* the calls of app2a.c and app2b.c
IdlePut  == c0 :> {Idle} @@ c1 :> {Put}
OneEach  == c0 :> 1 @@ c1 :> 1
=============================================================================
