------------------------------ MODULE RedisLists ------------------------------
(***************************************************************************)
(* The Redis list commands queue.ts relies on.  The head of a list is      *)
(* element 1: LPUSH adds there, RPOPLPUSH takes from the other end, LREM    *)
(* with count 1 removes the occurrence nearest the head.                   *)
(***************************************************************************)
EXTENDS Integers, Sequences, SequencesExt

LPush(x, list) == <<x>> \o list

LRem(list, x) ==
    IF x \in ToSet(list)
    THEN [i \in 1..(Len(list) - 1) |->
             IF \E j \in 1..i : list[j] = x THEN list[i + 1] ELSE list[i]]
    ELSE list
=============================================================================
