-------------------------------- MODULE MCVcs --------------------------------
(* An instance of Vcs for TLC: a source file and a file under node_modules. *)
EXTENDS Vcs, TLC

CONSTANTS p1, p2, old, new, binary, garbled, none, short

TwoProcesses == {p1, p2}
Swapped == Permutations(TwoProcesses)
TwoPaths == {1, 2}
Dependencies == {2}
AllContents == {old, new, binary, garbled, short}
NewOnly == {new}
\* Reading replaces what is not UTF-8.
ReadAsText ==
    [c \in AllContents \cup {none} |-> IF c = binary THEN garbled ELSE c]
TextAndBinary == {<<binary, old>>}
TextOnly == {<<old, old>>}
\* Nothing is claimed of what follows a collection that ran beside another
\* operation, nor of what follows a kill and an overlap: such states are not
\* explored further.
StillClaimed == ~raced /\ ~(overlapped /\ killed > 0)
=============================================================================
