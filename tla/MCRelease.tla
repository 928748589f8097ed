---- MODULE MCRelease ----
EXTENDS Release

CONSTANTS anna, ben, w1, w2, b1, o1, o2

MCHistory == [u \in {anna, ben} |-> IF u = anna THEN 1 ELSE NoAccount]

Plan(k1, u1, k2, u2, bound) ==
    [does |-> [w \in {w1, w2} |-> IF w = w1 THEN [kind |-> k1, subject |-> u1]
                                  ELSE [kind |-> k2, subject |-> u2]],
     commands |-> bound]

\* A change to the prefix and a turn after it; maintenance of memories beside
\* an ignored change, with room for an abort and a second preparation; an
\* account that comes, and writes.
MCPlans ==
    {Plan("edit", anna, "message", anna, 3),
     Plan("row", anna, "cursor", anna, 4),
     Plan("signup", ben, "message", ben, 3)}
====
