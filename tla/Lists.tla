------------------------------- MODULE Lists -------------------------------
(***************************************************************************)
(* The lists of the handlers: what a comprehension keeps, what a loop that *)
(* skips what it has seen leaves, and what a stable sort by a key returns. *)
(***************************************************************************)
EXTENDS Integers, Sequences, FiniteSets

\* The elements of s at the positions `at`, in their order.
Picked(s, at) ==
    LET upto[i \in 0 .. Len(s)] ==
            IF i = 0 THEN <<>> ELSE IF i \in at THEN Append(upto[i - 1], s[i]) ELSE upto[i - 1]
    IN  upto[Len(s)]

Where(s, Is(_)) == Picked(s, {i \in DOMAIN s : Is(s[i])})

\* The first element of each key, as the loops with a set of those seen leave them.
OnceBy(s, key) == Picked(s, {i \in DOMAIN s : \A j \in 1 .. (i - 1) : key[j] # key[i]})

\* s.sort(key=...): key[i] is the pair of numbers read of the i-th element;
\* equal ones stay as they were.
Precedes(key, i, j) ==
    \/ key[i][1] < key[j][1]
    \/ key[i][1] = key[j][1] /\ (key[i][2] < key[j][2] \/ (key[i][2] = key[j][2] /\ i < j))
SortedBy(s, key) ==
    LET place == [i \in DOMAIN s |-> 1 + Cardinality({j \in DOMAIN s : Precedes(key, j, i)})]
    IN  [n \in DOMAIN s |-> s[CHOOSE i \in DOMAIN s : place[i] = n]]

FirstOf(s, n) == SubSeq(s, 1, IF Len(s) < n THEN Len(s) ELSE n)
=============================================================================
