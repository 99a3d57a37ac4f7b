------------------------------ MODULE MCScore ------------------------------
(* Small instance of Score for TLC.                                        *)
EXTENDS Score, TLC

P(j, m, t, a, d, o) == [jours |-> j, mois |-> m, termines |-> t, actifs |-> a,
                        defauts |-> d, objectif |-> o]

\* Below both thresholds with a bronze badge, above both with a silver one,
\* between them after a default.
MCProfils == {P(15, 2, 0, 0, 0, FALSE), P(21, 7, 1, 0, 0, TRUE), P(24, 12, 1, 0, 1, TRUE)}

MCBareme == {P(j, m, t, a, d, o) : j \in 0 .. 30, m \in {0, 1, 5, 9, 10, 14}, t \in 0 .. 2,
                                   a \in 0 .. 2, d \in 0 .. 2, o \in BOOLEAN}

MCSymetrie == Permutations(Requetes)

MCUnAccident == ~(courseScore /\ courseDossier)
=============================================================================
