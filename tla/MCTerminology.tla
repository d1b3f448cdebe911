--------------------------- MODULE MCTerminology ---------------------------
EXTENDS Terminology, TLC

Pay(w, S) == [term |-> w, syn |-> S, anchor |-> 1]
MCPayloads == {Pay("w1", {}), Pay("w2", {})}
MCRaw == {[word |-> "w1", syn |-> {}, from |-> <<1>>], [word |-> "w2", syn |-> {}, from |-> <<9, 1>>]}
Sym == Permutations(Tasks)
=============================================================================
