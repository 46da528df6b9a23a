--------------------------- MODULE MCBoardControl ---------------------------
(* Small instances of BoardControl for TLC. *)
EXTENDS BoardControl, TLC

CONSTANTS b1, b2, t1, t2, w1, w2

\* One card; two cards, the second blocked by the first.
MCOne == t1 :> {}
MCChain == t1 :> {} @@ t2 :> {t1}

\* Workers are tokio tasks, and interchangeable.
WorkerSymmetry == Permutations({w1, w2})
=============================================================================
