--------------------------- MODULE MCChunkGroups ----------------------------
(* An instance of ChunkGroups for TLC: two ranges, the least a chunked     *)
(* file has.  Its runs outlive their leases, with one execution more where *)
(* the source keeps still, or they fail, or the parent ships it again.     *)
EXTENDS ChunkGroups

MCScopes == {[chunks |-> 2, runs |-> 5, faults |-> {"expire"}],
             [chunks |-> 2, runs |-> 4, faults |-> {"expire", "drift"}],
             [chunks |-> 2, runs |-> 5, faults |-> {"drift", "ioerror", "drop"}],
             [chunks |-> 2, runs |-> 4, faults |-> {"drift", "replan"}]}
=============================================================================
