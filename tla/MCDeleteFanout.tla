--------------------------- MODULE MCDeleteFanout ---------------------------
(* An instance of DeleteFanout for TLC. *)
EXTENDS DeleteFanout, TLC

(* "w": a wide orphan in a live directory, with a directory inside it.     *)
(* "d": a live directory with an orphan four levels deep, narrow all over. *)
(* "p": a wide orphan of two wide directories, in a live one.              *)
(* "m": a wide orphan in a live directory, and below it a narrow chain.    *)
MCDirs   == {"wlive", "w", "wa", "wac", "dlive", "d", "da", "dac", "plive", "p", "pa", "pb",
             "mlive", "m", "ma", "mac"}
MCFiles  == {"wf", "wg", "df", "dg", "dh", "pf", "pg", "ph", "pi", "mf", "mg", "mh", "mi"}
MCAncestors == [n \in MCDirs \cup MCFiles |->
    CASE n \in {"wlive", "dlive", "plive", "mlive"} -> <<>>
      [] n = "w"                  -> <<"wlive">>
      [] n \in {"wf", "wa"}       -> <<"w", "wlive">>
      [] n \in {"wac", "wg"}      -> <<"wa", "w", "wlive">>
      [] n = "d"                  -> <<"dlive">>
      [] n \in {"df", "da"}       -> <<"d", "dlive">>
      [] n \in {"dg", "dac"}      -> <<"da", "d", "dlive">>
      [] n = "dh"                 -> <<"dac", "da", "d", "dlive">>
      [] n = "p"                  -> <<"plive">>
      [] n \in {"pa", "pb"}       -> <<"p", "plive">>
      [] n \in {"pf", "pg"}       -> <<"pa", "p", "plive">>
      [] n \in {"ph", "pi"}       -> <<"pb", "p", "plive">>
      [] n = "m"                  -> <<"mlive">>
      [] n \in {"mf", "mg", "ma"} -> <<"m", "mlive">>
      [] n \in {"mh", "mac"}      -> <<"ma", "m", "mlive">>
      [] n = "mi"                 -> <<"mac", "ma", "m", "mlive">>]

MCTree(c) == {n \in MCDirs \cup MCFiles : n = c \o "live" \/ c \o "live" \in Range(MCAncestors[n])}
MCScope(c, t, b, k, s, w, m, F) ==
    [tree |-> MCTree(c), orphans |-> {c}, threshold |-> t, splitBatch |-> b, budget |-> k,
     subdirBatch |-> s, workers |-> w, runs |-> m, faults |-> F]

MCWide   == MCScope("w", 1, 1, 1, 1, 2, 12, {})
MCMixed  == MCScope("m", 2, 2, 1, 1, 2, 9, {})
MCPair   == MCScope("p", 1, 2, 1, 1, 1, 12, {})
MCDeep   == MCScope("d", 9, 1, 1, 1, 3, 9, {})
MCFaults == MCScope("d", 9, 1, 1, 2, 2, 3, {"expire", "crash"})
MCScopes == {MCWide, MCMixed, MCPair, MCDeep, MCFaults}
=============================================================================
