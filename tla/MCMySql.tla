------------------------------ MODULE MCMySql ------------------------------
EXTENDS MySql
CONSTANTS p, q

MCGroups == <<2, 2, 2>>
\* the documented texts, cut anywhere or with one letter changed, put in or left out
Letters == {"h", "-", "{", "x"}
Cuts(t) == {SubSeq(t, 1, n) : n \in 0 .. Len(t)}
Edited(t, i, c) ==
    {[t EXCEPT ![i] = c], InsertAt(t, i, c), RemoveAt(t, i)}
MCTexts == UNION {Cuts(t) \cup UNION {Edited(t, i, c) : i \in DOMAIN t, c \in Letters} :
                     t \in Documented}
MCSpares == {<<>>, <<"0", "0">>, <<"h", "h">>}
Symmetry == Permutations(Procs)
=============================================================================
