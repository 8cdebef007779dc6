----------------------------- MODULE WorkLedger -----------------------------
(***************************************************************************)
(* What the shard table promises, whatever agents, leases and frames do:   *)
(* every shard is worked off once.  It is open until it is counted into    *)
(* its pass, exactly once and for good; or it is set aside for an operator *)
(* who reopens it or accepts the gap; or, a chunk of a file that changed   *)
(* under it, it is given up for good, to be found again by the next pass.  *)
(***************************************************************************)
EXTENDS Naturals

CONSTANTS Shards, Chunks

VARIABLES status, counts

Init ==
    /\ status = [s \in Shards |-> "open"]
    /\ counts = [s \in Shards |-> 0]

Move(S, from, to) ==
    /\ S # {}
    /\ \A s \in S : status[s] = from
    /\ status' = [s \in Shards |-> IF s \in S THEN to ELSE status[s]]

Count(s) ==
    /\ Move({s}, "open", "counted")
    /\ counts' = [counts EXCEPT ![s] = @ + 1]

SetAside(S) == Move(S, "open", "aside") /\ UNCHANGED counts
Reopen(S)   == Move(S, "aside", "open") /\ UNCHANGED counts
Discard(S)  == Move(S, "aside", "discarded") /\ UNCHANGED counts

GiveUp(s) ==
    /\ s \in Chunks
    /\ Move({s}, "open", "discarded")
    /\ UNCHANGED counts

Next ==
    \/ \E s \in Shards : Count(s) \/ GiveUp(s)
    \/ \E S \in SUBSET Shards : SetAside(S) \/ Reopen(S) \/ Discard(S)

Spec == Init /\ [][Next]_<<status, counts>>
=============================================================================
