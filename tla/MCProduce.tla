----------------------------- MODULE MCProduce -----------------------------
(* Instances of Produce for TLC: a key of the root, and a child prefix     *)
(* with a directory object and another key.                                *)
EXTENDS Produce

MCKey == {1, 3, 4}
MCDirKey == {3}
MCChild == {2}
MCOwnerOf == [k \in MCKey |-> IF k = 1 THEN 0 ELSE 2]

Meeting(flags, limits, mtimes, sameSizes, recorded, objects) ==
    [on : flags, limit : limits, mtime : mtimes, sameSize : sameSizes,
     samePerms : {FALSE}, recorded : recorded, objects : objects]

Sides(srcs, dsts) == [src : srcs, dst : dsts]
AllSides == Sides(SUBSET MCKey, SUBSET MCKey)

\* every way two objects compare, for the command lines that tell them apart
DecisionConfigurations ==
    Meeting({{}, {"update"}, {"checkAll"}, {"deleteSrc", "dirs"}, {"update", "deleteSrc"},
             {"perms", "gate"}, {"perms"}, {"force", "checkAll", "deleteDst"}},
            {-1}, {"older", "same", "newer"}, BOOLEAN, {{}},
            Sides({{1, 3, 4}}, {{1, 3}}))

\* every pair of listings
MergeConfigurations ==
    Meeting({{"deleteDst"}, {"deleteDst", "dirs"}, {"existing"}, {"ignoreExisting", "gate"},
             {"gate", "deleteDst", "dirs"}},
            {-1}, {"newer"}, {FALSE}, {{1, 3}}, AllSides)

\* a limit that is reached, among source objects, extra ones, or both
LimitConfigurations ==
    Meeting({{}, {"deleteDst", "dirs"}}, {0, 1, 2}, {"newer"}, {FALSE}, {{}},
            Sides({{3}, {1, 3, 4}}, {{1}, {1, 4}}))

\* two producers take from one limit
SharedConfigurations ==
    Meeting({{"deep", "dirs"}}, {1, 2}, {"newer"}, {FALSE}, {{}}, Sides({{1, 3, 4}}, {{1, 3}}))

\* the root and its child prefix, each with a producer of its own; the last
\* reaches its limit when it has met all of the source
DeepConfigurations ==
    Meeting({{"deep", "dirs"}, {"deep", "deleteDst", "gate", "dirs"}}, {-1},
            {"newer"}, {FALSE}, {{1, 3}}, Sides({{1}, {3, 4}, {1, 4}}, {{4}, {1, 3}}))
    \cup Meeting({{"deep", "deleteDst"}}, {1}, {"newer"}, {FALSE}, {{}},
                 Sides({{}}, {{1, 3}}))
    \cup SharedConfigurations

PassConfigurations ==
    DecisionConfigurations \cup MergeConfigurations \cup LimitConfigurations
    \cup DeepConfigurations

\* --delete-src with the gate, the source object being newer
GateConfigurations ==
    Meeting({{"gate", "deleteSrc"}}, {-1}, {"newer"}, {FALSE}, {{}}, Sides({{1}}, {{1}}))

\* both sides hold the same
CutConfigurations ==
    Meeting({{"deep", "deleteDst"}}, {-1}, {"same"}, {TRUE}, {{}}, Sides({{1, 4}}, {{1, 4}}))

\* both have an extra object, and one may be deleted
ExtraConfigurations ==
    Meeting({{"deep", "deleteDst"}}, {1}, {"newer"}, {FALSE}, {{}}, Sides({{}}, {{1, 4}}))
=============================================================================
