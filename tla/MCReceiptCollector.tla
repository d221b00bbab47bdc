------------------------- MODULE MCReceiptCollector -------------------------
(* The plugin with two sessions, one guard, two awaiting callers.          *)
EXTENDS ReceiptCollector

CONSTANTS default, s1, c1, c2, stored

MCSessions == {default, s1}
MCCallers == {c1, c2}

\* A caller leaves prevHash alone, passes "" or the hash of a stored receipt.
MCOverrides == {NoOverride, EmptyHash, <<stored>>}
MCStoredByOthers == {<<stored>>}

\* The summaries the guard runner emits of a pass and of a block.
MCEvents ==
  {[guards |-> "coherence" :> "pass", final |-> "pass"],
   [guards |-> "coherence" :> "block", final |-> "block"]}

\* The database adds enough interleavings for two objects and two receipts, all
\* of one millisecond (so that any row is the last by built_at).
MCMaxStates == [b \in BOOLEAN |-> IF b THEN 2 ELSE 3]
MCMaxReceipts == [b \in BOOLEAN |-> IF b THEN 2 ELSE 3]
MCMaxNow == [b \in BOOLEAN |-> IF b THEN 0 ELSE 1]

MCSymmetry == Permutations(MCSessions) \cup Permutations(MCCallers)
=============================================================================
