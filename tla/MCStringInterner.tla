-------------------------- MODULE MCStringInterner --------------------------
(***************************************************************************)
(* Instances of StringInterner for TLC.  Strings are numbers: 1 and 2 are  *)
(* short, the others are long; 1 to 3 fall into shard 0.                   *)
(***************************************************************************)
EXTENDS StringInterner, TLC

MCShardOf == [v \in Values |-> IF v <= 3 \/ ShardCount = 1 THEN 0 ELSE 1]

\* Every string has a key of its own, except that the long ones share theirs:
\* a collision of the truncated hash, with equal length and prefix.
MCCacheKey == [v \in Values |-> IF v \in Long THEN 0 ELSE v]

\* All strings compete for the ways of one line.
MCLineOf == [v \in Values |-> 0]

MCWayOf == [v \in Values |-> v % NumWays]

\* The interning threads are interchangeable.
MCSymmetry == Permutations(Interning)

\* No string equals another one moved by 4 bytes.
MCShiftedEqual == {}

\* The string 4 repeats itself every 4 bytes, so what is compared with it may
\* be equal to it.
MCSelfShifted == {<<4, 4>>}

\* Record sizes in words: long strings take two.
MCSizeOf == [v \in Values |-> IF v \in Long THEN 2 ELSE 1]
=============================================================================
