----------------------------- MODULE MCDirSync ------------------------------
(* Instances of DirSync for TLC. *)
EXTENDS DirSync, TLC

Opt(dry, skip, direct, big, specials, filter) ==
    [dry |-> dry, skip |-> skip, direct |-> direct, big |-> big, specials |-> specials,
     filter |-> filter]

(* The defaults of the job spec, and every switch away from them. *)
MCDefault == {Opt(FALSE, TRUE, TRUE, FALSE, TRUE, {})}
MCOptions ==
    MCDefault \cup {Opt(FALSE, FALSE, TRUE, FALSE, FALSE, {}), Opt(FALSE, TRUE, FALSE, FALSE, TRUE, {1}),
                    Opt(FALSE, FALSE, FALSE, TRUE, TRUE, {}), Opt(FALSE, TRUE, TRUE, TRUE, TRUE, {}),
                    Opt(TRUE, TRUE, TRUE, FALSE, TRUE, {}), Opt(TRUE, TRUE, TRUE, TRUE, TRUE, {})}

(* A source name: missing, or of any type. *)
MCSources == {SrcObj(t, 1) : t \in Types}

(* A destination name: missing, in sync, with other metadata, older, newer  *)
(* or of another kind.                                                      *)
MCTargets ==
    {None, SrcObj("file", 1), [SrcObj("file", 1) EXCEPT !.meta = 1],
     Obj("file", 1, Foreign, 0, FALSE), Obj("file", 3, Foreign, 0, FALSE),
     Obj("dir", 0, 0, 0, FALSE), Obj("dir", 0, 0, 0, TRUE), Obj("link", 1, Foreign, 0, FALSE)}

MCFile == {SrcObj("file", 1)}
MCNone == {None}
=============================================================================
