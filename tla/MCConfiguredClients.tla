------------------------- MODULE MCConfiguredClients -------------------------
(* ConfiguredClients for TLC: files of up to two entries, one too long.    *)
EXTENDS ConfiguredClients, TLC

CONSTANTS shared, a, b, odd, x, y, bad, t1, t2, t3

SomeEntries == [subject : {x, y, bad}, token_env : {shared, a, b, odd}]

EntryLists == {<<e>> : e \in SomeEntries}
  \cup {<<e, f>> : e \in SomeEntries, f \in [subject : {x, y}, token_env : {shared, a, b}]}

ThreeEntries == [i \in 1..3 |-> [subject |-> x, token_env |-> a]]

MCFiles == {[configured |-> TRUE, valid |-> TRUE, entries |-> l] :
              l \in EntryLists \cup {<<>>, ThreeEntries}}
  \cup {[configured |-> FALSE, valid |-> FALSE, entries |-> <<>>],
        [configured |-> TRUE, valid |-> FALSE, entries |-> <<[subject |-> x, token_env |-> a]>>]}

Symmetry == Permutations(GoodTokens)
=============================================================================
