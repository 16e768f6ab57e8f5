---------------------------- MODULE MCIdInterner ----------------------------
(* Three values share shard 0, which has room for two; the fourth, in       *)
(* shard 1, is larger than any chunk of the arena.                          *)
EXTENDS IdInterner, TLC

CONSTANTS t1, t2, v1, v2, v3, v4

MCThread == {t1, t2}
MCValue == {v1, v2, v3, v4}
MCShardOf == (v1 :> 0) @@ (v2 :> 0) @@ (v3 :> 0) @@ (v4 :> 1)
MCUnits == (v1 :> 0) @@ (v2 :> 1) @@ (v3 :> 2) @@ (v4 :> 3)
=============================================================================
