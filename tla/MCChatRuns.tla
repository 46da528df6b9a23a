------------------------------ MODULE MCChatRuns ------------------------------
(* Small instances of ChatRuns for TLC. *)
EXTENDS ChatRunsLedger, TLC

CONSTANTS r1, r2, s1, s2

MCRuns1 == {r1}
MCRuns2 == {r1, r2}
MCSessions1 == {s1}
MCSessions2 == {s1, s2}
MCNone == {}

\* Ids of rows are interchangeable: order comes from stamp.
RunSymmetry == Permutations(MCRuns2)
=============================================================================
