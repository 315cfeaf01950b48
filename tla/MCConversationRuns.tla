------------------------- MODULE MCConversationRuns -------------------------
(* ConversationRuns on small instances.                                    *)
EXTENDS ConversationRuns, TLC

Symmetry == Permutations(Workers)
=============================================================================
