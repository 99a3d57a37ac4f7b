---------------------------- MODULE ScoreProofs ----------------------------
(***************************************************************************)
(* Theorems about the credit score of a client: its formula for every      *)
(* profile, the row and its history, the files and the badges, for every   *)
(* number of scorings and of administrators at a time.                     *)
(***************************************************************************)
EXTENDS Score, Sommes

-----------------------------------------------------------------------------
(* Arithmetic.                                                             *)

(* A product grows with its factors, and its order is that of a factor.    *)
LEMMA Produits ==
  ASSUME NEW d \in Nat \ {0}
  PROVE  /\ \A x \in Int : x * d \in Int
         /\ \A x, y \in Int : x <= y => x * d <= y * d
         /\ \A x, y \in Int : x * d < y * d => x < y
<1>1. \A x, y \in Int : x <= y => x * d <= y * d
  OBVIOUS
<1>2. \A x, y \in Int : x * d < y * d => x < y
  BY <1>1
<1>. QED
  BY <1>1, <1>2

(* Math.round(n / d) is the integer whose half-open interval holds n / d.  *)
LEMMA ArrondiDit ==
  ASSUME NEW n \in Nat, NEW d \in Nat \ {0}
  PROVE  LET r == Arrondi(n, d) IN
         /\ r \in Nat
         /\ 2 * (r * d) <= 2 * n + d
         /\ 2 * n + d < 2 * (r * d) + 2 * d
<1>. DEFINE r == Arrondi(n, d)
<1>. DEFINE m == 2 * n + d
<1>. DEFINE e == 2 * d
<1>0. e \in Nat \ {0} /\ m \in Nat
  OBVIOUS
<1>1. r = m \div e
  BY DEF Arrondi
<1>2. ASSUME NEW k \in Nat, NEW f \in Nat \ {0}
      PROVE  /\ k \div f \in Nat
             /\ (k \div f) * f <= k
             /\ k < (k \div f) * f + f
  <2>1. k \div f \in Int /\ k = f * (k \div f) + (k % f) /\ (k % f) \in 0 .. f - 1
    BY <1>2
  <2>2. ~(k \div f < 0)
    BY <1>2
  <2>. QED
    BY <2>1, <2>2
<1>3. (m \div e) \in Nat /\ (m \div e) * e <= m /\ m < (m \div e) * e + e
  BY <1>0, <1>2
<1>4. r \in Nat /\ r * e <= m /\ m < r * e + e
  BY <1>1, <1>3
<1>. HIDE DEF r
<1>5. r * e = 2 * (r * d)
  BY <1>4
<1>. QED
  BY <1>4, <1>5 DEF r

(* The rounding keeps the order of the numerators.                         *)
LEMMA ArrondiCroit ==
  ASSUME NEW n \in Nat, NEW m \in Nat, NEW d \in Nat \ {0}, n <= m
  PROVE  Arrondi(n, d) <= Arrondi(m, d)
<1>. DEFINE a == Arrondi(n, d)
<1>. DEFINE b == Arrondi(m, d)
<1>1. a \in Nat /\ 2 * (a * d) <= 2 * n + d
  BY ArrondiDit
<1>2. b \in Nat /\ 2 * m + d < 2 * (b * d) + 2 * d
  BY ArrondiDit
<1>. HIDE DEF a, b
<1>3. a * d \in Int /\ b * d \in Int /\ (b + 1) * d = b * d + d
  BY <1>1, <1>2
<1>4. a * d < (b + 1) * d
  BY <1>1, <1>2, <1>3
<1>5. a < b + 1
  BY <1>1, <1>2, <1>4, Produits
<1>. QED
  BY <1>1, <1>2, <1>5 DEF a, b

(* The rounding of at most k times the denominator is at most k.           *)
LEMMA ArrondiBorne ==
  ASSUME NEW n \in Nat, NEW d \in Nat \ {0}, NEW k \in Nat, n <= k * d
  PROVE  Arrondi(n, d) \in 0 .. k
<1>. DEFINE a == Arrondi(n, d)
<1>1. a \in Nat /\ 2 * (a * d) <= 2 * n + d
  BY ArrondiDit
<1>. HIDE DEF a
<1>2. a * d \in Int /\ k * d \in Int /\ (k + 1) * d = k * d + d
  BY <1>1
<1>3. a * d < (k + 1) * d
  BY <1>1, <1>2
<1>4. a < k + 1
  BY <1>1, <1>3, Produits
<1>. QED
  BY <1>1, <1>4 DEF a

(* A whole number of points is added before or after the rounding.         *)
LEMMA ArrondiDecale ==
  ASSUME NEW n \in Nat, NEW d \in Nat \ {0}, NEW k \in Nat
  PROVE  Arrondi(n + k * d, d) = Arrondi(n, d) + k
<1>. DEFINE a == Arrondi(n, d)
<1>. DEFINE b == Arrondi(n + k * d, d)
<1>1. a \in Nat /\ 2 * (a * d) <= 2 * n + d /\ 2 * n + d < 2 * (a * d) + 2 * d
  BY ArrondiDit
<1>0. n + k * d \in Nat
  OBVIOUS
<1>2. b \in Nat /\ 2 * (b * d) <= 2 * (n + k * d) + d
      /\ 2 * (n + k * d) + d < 2 * (b * d) + 2 * d
  BY <1>0, ArrondiDit
<1>. HIDE DEF a, b
<1>3. /\ a * d \in Int /\ b * d \in Int /\ k * d \in Int
      /\ (b + 1) * d = b * d + d /\ (a + k) * d = a * d + k * d
      /\ (a + k + 1) * d = a * d + k * d + d
  BY <1>1, <1>2
<1>4. b * d < (a + k + 1) * d /\ (a + k) * d < (b + 1) * d
  BY <1>1, <1>2, <1>3
<1>5. b < a + k + 1 /\ a + k < b + 1
  BY <1>1, <1>2, <1>4, Produits
<1>. QED
  BY <1>1, <1>2, <1>5 DEF a, b

(* A sum of two fractions rounded once differs by at most one from the sum *)
(* of the two rounded.                                                     *)
LEMMA ArrondiSomme ==
  ASSUME NEW x \in Nat, NEW y \in Nat, NEW c \in Nat \ {0}, NEW d \in Nat \ {0}
  PROVE  Arrondi(x, c) + Arrondi(y, d) - Arrondi(x * d + c * y, c * d) \in -1 .. 1
<1>. DEFINE u == Arrondi(x, c)
<1>. DEFINE v == Arrondi(y, d)
<1>. DEFINE e == c * d
<1>. DEFINE w == Arrondi(x * d + c * y, e)
<1>0. /\ e \in Nat \ {0} /\ x * d \in Nat /\ c * y \in Nat
      /\ x * d + c * y \in Nat
  OBVIOUS
<1>1. u \in Nat /\ 2 * (u * c) <= 2 * x + c /\ 2 * x + c < 2 * (u * c) + 2 * c
  BY ArrondiDit
<1>2. v \in Nat /\ 2 * (v * d) <= 2 * y + d /\ 2 * y + d < 2 * (v * d) + 2 * d
  BY ArrondiDit
<1>. HIDE DEF e
<1>3. w \in Nat /\ 2 * (w * e) <= 2 * (x * d + c * y) + e
      /\ 2 * (x * d + c * y) + e < 2 * (w * e) + 2 * e
  BY <1>0, ArrondiDit
<1>. HIDE DEF u, v, w
<1>4. /\ 2 * (u * e) <= 2 * (x * d) + e
      /\ 2 * (x * d) + e < 2 * (u * e) + 2 * e
  <2>1. /\ (2 * (u * c)) * d <= (2 * x + c) * d
        /\ (2 * x + c + 1) * d <= (2 * (u * c) + 2 * c) * d
    BY <1>1, Produits
  <2>2. /\ (2 * (u * c)) * d = 2 * (u * e) /\ (2 * x + c) * d = 2 * (x * d) + e
        /\ (2 * x + c + 1) * d = 2 * (x * d) + e + d
        /\ (2 * (u * c) + 2 * c) * d = 2 * (u * e) + 2 * e
    BY <1>1 DEF e
  <2>. QED
    BY <2>1, <2>2, <1>0, <1>1
<1>5. /\ 2 * (v * e) <= 2 * (c * y) + e
      /\ 2 * (c * y) + e < 2 * (v * e) + 2 * e
  <2>1. /\ (2 * (v * d)) * c <= (2 * y + d) * c
        /\ (2 * y + d + 1) * c <= (2 * (v * d) + 2 * d) * c
    BY <1>2, Produits
  <2>2. /\ (2 * (v * d)) * c = 2 * (v * e) /\ (2 * y + d) * c = 2 * (c * y) + e
        /\ (2 * y + d + 1) * c = 2 * (c * y) + e + c
        /\ (2 * (v * d) + 2 * d) * c = 2 * (v * e) + 2 * e
    BY <1>2 DEF e
  <2>. QED
    BY <2>1, <2>2, <1>0, <1>2
<1>6. /\ u * e \in Int /\ v * e \in Int /\ w * e \in Int
      /\ (w + 2) * e = w * e + 2 * e /\ (u + v) * e = u * e + v * e
      /\ (u + v + 2) * e = u * e + v * e + 2 * e
  BY <1>0, <1>1, <1>2, <1>3
<1>7. w * e < (u + v + 2) * e /\ (u + v) * e < (w + 2) * e
  BY <1>0, <1>3, <1>4, <1>5, <1>6
<1>8. w < u + v + 2 /\ u + v < w + 2
  BY <1>0, <1>1, <1>2, <1>3, <1>7, Produits
<1>9. u + v - w \in -1 .. 1
  BY <1>1, <1>2, <1>3, <1>8
<1>. QED
  BY ONLY <1>9 DEF u, v, w, e

-----------------------------------------------------------------------------
(* The formula.                                                            *)

(* The greatest of 1 and a number.                                         *)
LEMMA MaxUn == \A n \in Nat : Max({1, n}) = IF n > 1 THEN n ELSE 1
<1>. SUFFICES ASSUME NEW n \in Nat PROVE Max({1, n}) = IF n > 1 THEN n ELSE 1
  OBVIOUS
<1>1. PICK m : m = IF n > 1 THEN n ELSE 1
  OBVIOUS
<1>2. m \in {1, n} /\ \A y \in {1, n} : m >= y
  BY <1>1
<1>3. \A x \in {1, n} : (\A y \in {1, n} : x >= y) => x = m
  BY <1>2
<1>. QED
  BY <1>1, <1>2, <1>3 DEF Max

(* The parts of the score of a profile.                                    *)
LEMMA PartsDuScore ==
  ASSUME NEW p \in Profil
  PROVE  /\ p.jours \in 0 .. 30 /\ Credits(p) \in Nat
         /\ PointsAnciennete(p) \in 0 .. 20 /\ PointsObjectif(p) \in 0 .. 10
         /\ DenRemboursement(p) \in Nat \ {0}
         /\ NumRemboursement(p) \in 0 .. DenRemboursement(p)
<1>1. /\ p.jours \in 0 .. 30 /\ p.mois \in Nat /\ p.termines \in Nat /\ p.actifs \in Nat
      /\ p.defauts \in Nat /\ p.objectif \in BOOLEAN
  BY DEF Profil
<1>2. Credits(p) \in Nat /\ p.termines <= Credits(p)
  BY <1>1 DEF Credits
<1>3. PointsAnciennete(p) \in 0 .. 20
  BY <1>1 DEF PointsAnciennete, PlusPetit
<1>4. PointsObjectif(p) \in 0 .. 10
  BY DEF PointsObjectif
<1>5. DenRemboursement(p) = IF Credits(p) > 1 THEN 2 * Credits(p) ELSE 2
  BY <1>2, MaxUn DEF DenRemboursement
<1>6. NumRemboursement(p) \in 0 .. DenRemboursement(p)
  BY <1>1, <1>2, <1>5 DEF NumRemboursement
<1>. QED
  BY <1>1, <1>2, <1>3, <1>4, <1>5, <1>6

(* The regularity and the repayments of a profile, over a common           *)
(* denominator.                                                            *)
Brut(p) == (40 * p.jours) * DenRemboursement(p) + 30 * (30 * NumRemboursement(p))

LEMMA BrutDit ==
  ASSUME NEW p \in Profil
  PROVE  /\ 30 * DenRemboursement(p) \in Nat \ {0}
         /\ Brut(p) \in Nat /\ Brut(p) <= 70 * (30 * DenRemboursement(p))
<1>. DEFINE d == DenRemboursement(p)
<1>. DEFINE r == NumRemboursement(p)
<1>1. p.jours \in 0 .. 30 /\ d \in Nat \ {0} /\ r \in 0 .. d
  BY PartsDuScore
<1>. HIDE DEF d, r
<1>2. (40 * p.jours) * d <= 1200 * d /\ (40 * p.jours) * d \in Nat
  BY <1>1, Produits
<1>3. Brut(p) = (40 * p.jours) * d + 30 * (30 * r)
  BY DEF Brut, d, r
<1>4. (40 * p.jours) * d + 30 * (30 * r) \in 0 .. 70 * (30 * d)
  BY <1>1, <1>2
<1>5. 30 * d \in Nat \ {0}
  BY <1>1
<1>. QED
  BY <1>3, <1>4, <1>5, <1>1 DEF d

(* The score is the rounding of those two parts and the points of the      *)
(* others, between 0 and 100.                                              *)
LEMMA ScoreDit ==
  ASSUME NEW p \in Profil
  PROVE  /\ Score(p) = Arrondi(Brut(p), 30 * DenRemboursement(p))
                         + (PointsAnciennete(p) + PointsObjectif(p))
         /\ Arrondi(Brut(p), 30 * DenRemboursement(p)) \in 0 .. 70
         /\ Score(p) \in 0 .. 100
<1>. DEFINE d == DenRemboursement(p)
<1>. DEFINE k == PointsAnciennete(p) + PointsObjectif(p)
<1>1. /\ p.jours \in 0 .. 30 /\ d \in Nat \ {0} /\ k \in 0 .. 30
      /\ NumRemboursement(p) \in Nat
  BY PartsDuScore
<1>2. 30 * d \in Nat \ {0} /\ Brut(p) \in Nat /\ Brut(p) <= 70 * (30 * d)
  BY BrutDit
<1>3. Arrondi(Brut(p), 30 * d) \in 0 .. 70
  BY <1>2, ArrondiBorne
<1>4. Arrondi(Brut(p) + k * (30 * d), 30 * d) = Arrondi(Brut(p), 30 * d) + k
  <2>1. PICK n \in Nat : n = Brut(p)
    BY <1>2
  <2>2. PICK e \in Nat \ {0} : e = 30 * d
    BY <1>2
  <2>3. k \in Nat
    BY <1>1
  <2>. HIDE DEF k, d
  <2>4. Arrondi(n + k * e, e) = Arrondi(n, e) + k
    BY <2>3, ArrondiDecale
  <2>. QED
    BY <2>1, <2>2, <2>4
<1>5. Score(p) = Arrondi(40 * p.jours * d + 30 * d * k + 900 * NumRemboursement(p), 30 * d)
  BY DEF Score
<1>6. 40 * p.jours * d + 30 * d * k + 900 * NumRemboursement(p) = Brut(p) + k * (30 * d)
  <2>. HIDE DEF d, k
  <2>1. 40 * p.jours * d + 30 * d * k + 900 * NumRemboursement(p)
          = ((40 * p.jours) * d + 30 * (30 * NumRemboursement(p))) + k * (30 * d)
    BY <1>1
  <2>. QED
    BY <2>1 DEF Brut, d
<1>. QED
  BY <1>1, <1>3, <1>4, <1>5, <1>6

(* A profile with the same denominator, no less under it and no fewer      *)
(* points has no lower score.                                              *)
LEMMA ScoreCroit ==
  ASSUME NEW p \in Profil, NEW s \in Profil,
         DenRemboursement(p) = DenRemboursement(s), p.jours <= s.jours,
         NumRemboursement(p) <= NumRemboursement(s),
         PointsAnciennete(p) = PointsAnciennete(s), PointsObjectif(p) <= PointsObjectif(s)
  PROVE  Score(p) <= Score(s)
<1>. DEFINE d == DenRemboursement(p)
<1>1. /\ p.jours \in Nat /\ s.jours \in Nat /\ d \in Nat \ {0}
      /\ NumRemboursement(p) \in Nat /\ NumRemboursement(s) \in Nat
  BY PartsDuScore
<1>2. (40 * p.jours) * d <= (40 * s.jours) * d
      /\ (40 * p.jours) * d \in Int /\ (40 * s.jours) * d \in Int
  <2>. HIDE DEF d
  <2>. QED
    BY <1>1, Produits
<1>3. Brut(p) <= Brut(s)
  BY <1>1, <1>2 DEF Brut
<1>4. Arrondi(Brut(p), 30 * d) <= Arrondi(Brut(s), 30 * d)
  BY <1>3, BrutDit, ArrondiCroit
<1>5. /\ Score(p) = Arrondi(Brut(p), 30 * d) + (PointsAnciennete(p) + PointsObjectif(p))
      /\ Arrondi(Brut(p), 30 * d) \in Int
  BY ScoreDit
<1>6. /\ Score(s) = Arrondi(Brut(s), 30 * d) + (PointsAnciennete(s) + PointsObjectif(s))
      /\ Arrondi(Brut(s), 30 * d) \in Int
  BY ScoreDit
<1>7. /\ PointsAnciennete(p) \in Int /\ PointsObjectif(p) \in Int
      /\ PointsAnciennete(s) \in Int /\ PointsObjectif(s) \in Int
  BY PartsDuScore
<1>. HIDE DEF d
<1>. QED
  BY <1>4, <1>5, <1>6, <1>7

(* The components that are shown add up to the score but for one point.    *)
LEMMA ComposantesJustes ==
  ASSUME NEW p \in Profil
  PROVE  PointsAffiches(p) - Score(p) \in -1 .. 1
<1>. DEFINE d == DenRemboursement(p)
<1>. DEFINE x == 40 * p.jours
<1>. DEFINE y == 30 * NumRemboursement(p)
<1>1. x \in Nat /\ y \in Nat /\ d \in Nat \ {0} /\ 30 \in Nat \ {0}
  BY PartsDuScore
<1>2. Arrondi(x, 30) + Arrondi(y, d) - Arrondi(x * d + 30 * y, 30 * d) \in -1 .. 1
  <2>. HIDE DEF x, y, d
  <2>. QED
    BY <1>1, ArrondiSomme
<1>3. Brut(p) = x * d + 30 * y
  BY DEF Brut
<1>4. /\ Arrondi(x, 30) \in Nat /\ Arrondi(y, d) \in Nat
      /\ Arrondi(Brut(p), 30 * d) \in Nat
      /\ PointsAnciennete(p) \in Nat /\ PointsObjectif(p) \in Nat
  <2>1. Arrondi(x, 30) \in Nat /\ Arrondi(y, d) \in Nat
    <3>. HIDE DEF x, y, d
    <3>. QED
      BY <1>1, ArrondiDit
  <2>2. Arrondi(Brut(p), 30 * d) \in Nat
    BY ScoreDit
  <2>3. PointsAnciennete(p) \in Nat /\ PointsObjectif(p) \in Nat
    BY PartsDuScore
  <2>. QED
    BY <2>1, <2>2, <2>3
<1>5. PointsAffiches(p) = Arrondi(x, 30) + PointsAnciennete(p) + Arrondi(y, d)
                            + PointsObjectif(p)
  BY DEF PointsAffiches
<1>6. Score(p) = Arrondi(Brut(p), 30 * d) + (PointsAnciennete(p) + PointsObjectif(p))
  BY ScoreDit
<1>. HIDE DEF x, y, d
<1>. QED
  BY <1>2, <1>3, <1>4, <1>5, <1>6

(* A day more and a target reached never cost points.                      *)
LEMMA JourDePlus ==
  ASSUME NEW p \in Profil, p.jours < 30
  PROVE  Score(p) <= Score([p EXCEPT !.jours = @ + 1])
<1>1. PICK s : s = [p EXCEPT !.jours = @ + 1]
  OBVIOUS
<1>2. /\ s \in Profil /\ s.jours = p.jours + 1 /\ s.mois = p.mois /\ s.termines = p.termines
      /\ s.actifs = p.actifs /\ s.defauts = p.defauts
  BY <1>1 DEF Profil
<1>3. s.objectif = p.objectif
  BY <1>1 DEF Profil
<1>4. /\ DenRemboursement(s) = DenRemboursement(p) /\ NumRemboursement(s) = NumRemboursement(p)
      /\ PointsAnciennete(s) = PointsAnciennete(p) /\ PointsObjectif(s) = PointsObjectif(p)
  BY <1>2, <1>3 DEF DenRemboursement, NumRemboursement, PointsAnciennete, PointsObjectif, Credits
<1>5. /\ p.jours <= s.jours /\ NumRemboursement(p) <= NumRemboursement(s)
      /\ PointsObjectif(p) <= PointsObjectif(s)
  BY <1>2, <1>4, PartsDuScore
<1>6. Score(p) <= Score(s)
  BY <1>2, <1>4, <1>5, ScoreCroit
<1>. QED
  BY <1>1, <1>6

LEMMA ObjectifAtteint ==
  ASSUME NEW p \in Profil, ~p.objectif
  PROVE  Score(p) <= Score([p EXCEPT !.objectif = TRUE])
<1>1. PICK s : s = [p EXCEPT !.objectif = TRUE]
  OBVIOUS
<1>2. /\ s \in Profil /\ s.jours = p.jours /\ s.mois = p.mois /\ s.termines = p.termines
      /\ s.actifs = p.actifs /\ s.defauts = p.defauts
  BY <1>1 DEF Profil
<1>4. /\ DenRemboursement(s) = DenRemboursement(p) /\ NumRemboursement(s) = NumRemboursement(p)
      /\ PointsAnciennete(s) = PointsAnciennete(p)
  BY <1>2 DEF DenRemboursement, NumRemboursement, PointsAnciennete, Credits
<1>5. /\ p.jours <= s.jours /\ NumRemboursement(p) <= NumRemboursement(s)
      /\ PointsObjectif(p) <= PointsObjectif(s)
  <2>1. PointsObjectif(p) = 0
    BY DEF PointsObjectif
  <2>. QED
    BY <1>2, <1>4, <2>1, PartsDuScore
<1>6. Score(p) <= Score(s)
  BY <1>2, <1>4, <1>5, ScoreCroit
<1>. QED
  BY <1>1, <1>6

(* A credit that ends well never gives less than it gave while it ran, nor *)
(* more if it fails.                                                       *)
LEMMA CreditFini ==
  ASSUME NEW p \in Profil, p.actifs > 0
  PROVE  Score(p) <= Score([p EXCEPT !.actifs = @ - 1, !.termines = @ + 1])
<1>0. /\ p \in [jours : 0 .. 30, mois : Nat, termines : Nat, actifs : Nat,
                defauts : Nat, objectif : BOOLEAN]
      /\ p.actifs \in Nat /\ p.termines \in Nat
  BY DEF Profil
<1>. DEFINE x == p.actifs - 1
<1>. DEFINE y == p.termines + 1
<1>9. x \in Nat /\ y \in Nat
  BY <1>0
<1>. HIDE DEF x, y
<1>1. PICK s : s = [p EXCEPT !.actifs = x, !.termines = y]
  OBVIOUS
<1>2. /\ s \in Profil /\ s.jours = p.jours /\ s.mois = p.mois /\ s.defauts = p.defauts
      /\ s.termines = p.termines + 1 /\ s.actifs = p.actifs - 1
      /\ p.jours \in Nat /\ p.actifs \in Nat /\ p.termines \in Nat /\ p.defauts \in Nat
  <2>1. /\ s \in Profil /\ s.jours = p.jours /\ s.mois = p.mois
        /\ s.actifs = x /\ s.termines = y /\ s.defauts = p.defauts
    BY <1>0, <1>1, <1>9 DEF Profil
  <2>. QED
    BY <2>1 DEF Profil, x, y
<1>3. s.objectif = p.objectif
  BY <1>1 DEF Profil
<1>4. Credits(s) = Credits(p) /\ Credits(p) # 0
  BY <1>2 DEF Credits
<1>5. /\ DenRemboursement(s) = DenRemboursement(p)
      /\ PointsAnciennete(s) = PointsAnciennete(p) /\ PointsObjectif(s) = PointsObjectif(p)
  BY <1>2, <1>3, <1>4 DEF DenRemboursement, PointsAnciennete, PointsObjectif
<1>6. NumRemboursement(p) <= NumRemboursement(s)
  BY <1>2, <1>4 DEF NumRemboursement
<1>7. p.jours <= s.jours /\ PointsObjectif(p) <= PointsObjectif(s)
  BY <1>2, <1>5, PartsDuScore
<1>8. Score(p) <= Score(s)
  BY <1>2, <1>5, <1>6, <1>7, ScoreCroit
<1>. QED
  BY <1>1, <1>8 DEF x, y

LEMMA CreditEchu ==
  ASSUME NEW p \in Profil, p.actifs > 0
  PROVE  Score([p EXCEPT !.actifs = @ - 1, !.defauts = @ + 1]) <= Score(p)
<1>0. /\ p \in [jours : 0 .. 30, mois : Nat, termines : Nat, actifs : Nat,
                defauts : Nat, objectif : BOOLEAN]
      /\ p.actifs \in Nat /\ p.defauts \in Nat
  BY DEF Profil
<1>. DEFINE x == p.actifs - 1
<1>. DEFINE y == p.defauts + 1
<1>9. x \in Nat /\ y \in Nat
  BY <1>0
<1>. HIDE DEF x, y
<1>1. PICK s : s = [p EXCEPT !.actifs = x, !.defauts = y]
  OBVIOUS
<1>2. /\ s \in Profil /\ s.jours = p.jours /\ s.mois = p.mois /\ s.defauts = p.defauts + 1
      /\ s.termines = p.termines /\ s.actifs = p.actifs - 1
      /\ p.jours \in Nat /\ p.actifs \in Nat /\ p.termines \in Nat /\ p.defauts \in Nat
  <2>1. /\ s \in Profil /\ s.jours = p.jours /\ s.mois = p.mois
        /\ s.actifs = x /\ s.termines = p.termines /\ s.defauts = y
    BY <1>0, <1>1, <1>9 DEF Profil
  <2>. QED
    BY <2>1 DEF Profil, x, y
<1>3. s.objectif = p.objectif
  BY <1>1 DEF Profil
<1>4. Credits(s) = Credits(p) /\ Credits(p) # 0
  BY <1>2 DEF Credits
<1>5. /\ DenRemboursement(s) = DenRemboursement(p)
      /\ PointsAnciennete(s) = PointsAnciennete(p) /\ PointsObjectif(s) = PointsObjectif(p)
  BY <1>2, <1>3, <1>4 DEF DenRemboursement, PointsAnciennete, PointsObjectif
<1>6. NumRemboursement(s) <= NumRemboursement(p)
  BY <1>2, <1>4 DEF NumRemboursement
<1>7. s.jours <= p.jours /\ PointsObjectif(s) <= PointsObjectif(p)
  BY <1>2, <1>5, PartsDuScore
<1>8. Score(s) <= Score(p)
  BY <1>2, <1>5, <1>6, <1>7, ScoreCroit
<1>. QED
  BY <1>1, <1>8 DEF x, y

(* The thresholds, what is announced and what is granted.                  *)
LEMMA SeuilsEnOrdre ==
  ASSUME NEW s \in 0 .. 100
  PROVE  /\ Eligible(s) <=> getPlafondMicroCredit(s) > 0
         /\ Eligible(s) => MontantAnnonce(s) = getPlafondMicroCredit(s)
         /\ s < 90 => ProchainSeuil(s) > s
<1>. USE DEF Eligible, SEUIL_SCORE_MICRO_CREDIT
<1>1. getPlafondMicroCredit(s) = IF s >= 90 THEN 100000 ELSE IF s >= 80 THEN 50000
                                 ELSE IF s >= 70 THEN 25000 ELSE IF s >= 60 THEN 10000 ELSE 0
  BY DEF getPlafondMicroCredit
<1>2. MontantAnnonce(s) = IF s >= 90 THEN 100000 ELSE IF s >= 80 THEN 50000
                          ELSE IF s >= 70 THEN 25000 ELSE 10000
  BY DEF MontantAnnonce
<1>3. s < 90 => ProchainSeuil(s) > s
  BY DEF ProchainSeuil, EligiblePADME, SEUIL_SCORE_PADME
<1>. QED
  BY <1>1, <1>2, <1>3

(* The least element of a set of naturals.                                 *)
LEMMA MinDit ==
  ASSUME NEW T \in SUBSET Nat, T # {}
  PROVE  Min(T) \in T /\ \A y \in T : Min(T) <= y
<1>1. PICK x \in T : \A y \in T : x <= y
  BY PlusPetitElement
<1>2. \E z \in T : \A y \in T : z <= y
  BY <1>1
<1>. QED
  BY <1>2 DEF Min

(* A higher threshold is not reached earlier.                              *)
LEMMA MoisCroissent ==
  ASSUME NEW s \in 0 .. 100, NEW mois \in Nat, NEW t \in Nat, NEW u \in Nat, t <= u,
         MoisPour(s, mois, u) # -1
  PROVE  /\ MoisPour(s, mois, t) \in Nat /\ MoisPour(s, mois, u) \in Nat
         /\ MoisPour(s, mois, t) <= MoisPour(s, mois, u)
<1>. DEFINE gain == IF mois < 10 THEN 3 ELSE 1
<1>. DEFINE A(v) == {i \in 1 .. 24 : PlusPetit(s + i * gain, 100) >= v}
<1>1. \A v \in {t, u} : MoisPour(s, mois, v) = IF s >= v THEN 0
                           ELSE IF A(v) # {} THEN Min(A(v)) ELSE -1
  BY DEF MoisPour
<1>2. A(u) \subseteq A(t) /\ A(t) \subseteq Nat /\ A(u) \subseteq Nat
  <2>1. \A i \in 1 .. 24 : PlusPetit(s + i * gain, 100) \in Int
    BY DEF PlusPetit
  <2>. QED
    BY <2>1
<1>. HIDE DEF A
<1>3. CASE s >= t
  BY <1>1, <1>2, <1>3, MinDit
<1>4. CASE s < t
  <2>1. A(u) # {} /\ A(t) # {} /\ ~(s >= u) /\ ~(s >= t)
    BY <1>1, <1>2, <1>4
  <2>2. MoisPour(s, mois, u) = Min(A(u)) /\ MoisPour(s, mois, t) = Min(A(t))
    BY <1>1, <2>1
  <2>3. Min(A(u)) \in A(u) /\ Min(A(t)) \in A(t) /\ \A y \in A(t) : Min(A(t)) <= y
    BY <1>2, <2>1, MinDit
  <2>. QED
    BY <1>2, <2>2, <2>3
<1>. QED
  BY <1>3, <1>4

(* What the formula promises holds of every profile, not only of those of  *)
(* a table.                                                                *)
THEOREM FormuleOrdonnee == \A p \in Profil : Ordonne(p)
<1>. SUFFICES ASSUME NEW p \in Profil PROVE Ordonne(p)
  OBVIOUS
<1>1. Score(p) \in 0 .. 100
  BY ScoreDit
<1>2. p.jours < 30 => Score(p) <= Score([p EXCEPT !.jours = @ + 1])
  BY JourDePlus
<1>3. ~p.objectif => Score(p) <= Score([p EXCEPT !.objectif = TRUE])
  BY ObjectifAtteint
<1>4. p.actifs > 0 => /\ Score([p EXCEPT !.actifs = @ - 1, !.defauts = @ + 1]) <= Score(p)
                      /\ Score(p) <= Score([p EXCEPT !.actifs = @ - 1, !.termines = @ + 1])
  BY CreditFini, CreditEchu
<1>5. PointsAffiches(p) - Score(p) \in -1 .. 1
  BY ComposantesJustes
<1>6. LET s == Score(p) IN
      /\ Eligible(s) <=> getPlafondMicroCredit(s) > 0
      /\ Eligible(s) => MontantAnnonce(s) = getPlafondMicroCredit(s)
      /\ s < 90 => ProchainSeuil(s) > s
  BY <1>1, SeuilsEnOrdre
<1>7. LET m(seuil) == MoisPour(Score(p), p.mois, seuil) IN
      m(90) # -1 => 0 <= m(60) /\ m(60) <= m(70) /\ m(70) <= m(90)
  <2>1. PICK s \in 0 .. 100 : s = Score(p)
    BY <1>1
  <2>2. p.mois \in Nat
    BY DEF Profil
  <2>3. MoisPour(s, p.mois, 90) # -1 =>
          /\ MoisPour(s, p.mois, 70) \in Nat
          /\ MoisPour(s, p.mois, 70) <= MoisPour(s, p.mois, 90)
    <3>1. 70 \in Nat /\ 90 \in Nat /\ 70 <= 90
      OBVIOUS
    <3>. QED
      BY <2>2, <3>1, MoisCroissent
  <2>4. MoisPour(s, p.mois, 70) \in Nat =>
          /\ MoisPour(s, p.mois, 60) \in Nat
          /\ MoisPour(s, p.mois, 60) <= MoisPour(s, p.mois, 70)
    <3>1. MoisPour(s, p.mois, 70) \in Nat => MoisPour(s, p.mois, 70) # -1
      OBVIOUS
    <3>2. 60 \in Nat /\ 70 \in Nat /\ 60 <= 70
      OBVIOUS
    <3>. QED
      BY <3>1, <3>2, <2>2, MoisCroissent
  <2>. QED
    BY <2>1, <2>3, <2>4
<1>. QED
  BY <1>1, <1>2, <1>3, <1>4, <1>5, <1>6, <1>7 DEF Ordonne

-----------------------------------------------------------------------------
(* The inductive invariants.                                               *)

EtapesCalcul == {"lireAncien", "ecrireScore", "notifier", "historiser", "chercherDossier",
                 "creerDossier", "sauverPdf", "lireBadge", "creerBadge"}
EtapesDecision == {"ecrireDossier", "commission"}
Etapes  == EtapesCalcul \cup EtapesDecision \cup {"libre"}
Locales == [op : {"aucune", "calcul", "decision"}, lu : Ligne, ancien : Ligne, n : Nat,
            statut : StatutDossierPADME \cup {"AUCUN"}]

(* What a slot holds at each of its steps.                                 *)
EtapeOK(q) ==
    /\ Calcule(q) <=> pc[q] \in EtapesCalcul
    /\ Decide(q) <=> pc[q] \in EtapesDecision
    /\ pc[q] = "sauverPdf" => loc[q].n \in DOMAIN dossiers
    /\ pc[q] = "creerBadge" => loc[q].n \in Niveaux
    /\ pc[q] \in EtapesDecision => loc[q].n \in DOMAIN dossiers
    /\ pc[q] = "ecrireDossier" => loc[q].statut \in StatutDossierPADME

Typage ==
    /\ TypeOK
    /\ pc \in [Requetes -> Etapes] /\ loc \in [Requetes -> Locales]
    /\ \A q \in Requetes : EtapeOK(q)
    /\ aJour \in BOOLEAN /\ annonce \in BOOLEAN
    /\ courseScore \in BOOLEAN /\ courseDossier \in BOOLEAN

(* While scorings do not meet: what the one under way has read and written. *)
AvantHistorique == {"lireAncien", "ecrireScore", "notifier", "historiser"}

UnCalcul == \A p, q \in Requetes : Calcule(p) /\ Calcule(q) => p = q

Lu(q) ==
    /\ pc[q] \in AvantHistorique /\ aJour => loc[q].lu.score = Score(profil)
    /\ pc[q] = "ecrireScore" => loc[q].ancien = ligne
    /\ pc[q] \in {"notifier", "historiser"} => ligne = loc[q].lu
    /\ pc[q] = "notifier" /\ Eligible(loc[q].lu.score) /\ Eligible(loc[q].ancien.score)
         => annonce

Suivi ==
    /\ UnCalcul
    /\ \A q \in Requetes : Lu(q)
    /\ (\A q \in Requetes : pc[q] # "notifier") /\ Eligible(ligne.score) => annonce
    /\ (\A q \in Requetes : pc[q] \notin AvantHistorique) /\ aJour =>
         /\ ligne.score = Score(profil)
         /\ historique # <<>> /\ historique[Len(historique)] = ligne.score

ScoreTenu == courseScore \/ Suivi

(* One badge is about to be won at a time, above those that are there.     *)
EnRoute(d) == dossiers[d].recent /\ dossiers[d].statut \in EnTraitement

Badges ==
    /\ UnCalcul
    /\ \A i, j \in DOMAIN badges : i < j => badges[i] < badges[j]
    /\ \A q \in Requetes : pc[q] = "creerBadge" =>
         \A i \in DOMAIN badges : badges[i] < loc[q].n

BadgesTenus == courseScore \/ Badges

(* While administrators do not meet: what the one at work read still holds. *)
Decisions ==
    /\ \A p, q \in Requetes : Decide(p) /\ Decide(q) => p = q
    /\ \A q \in Requetes : pc[q] = "ecrireDossier" =>
         loc[q].statut \in SuitesDe(dossiers[loc[q].n].statut)
    /\ \A q \in Requetes : pc[q] = "commission" =>
         dossiers[loc[q].n].statut = "ACCEPTE" /\ dossiers[loc[q].n].commissions = 0
    /\ \A d \in DOMAIN dossiers :
         /\ dossiers[d].commissions <= 1
         /\ Rang[dossiers[d].statut] < 3 => dossiers[d].commissions = 0

DossiersTenus == courseDossier \/ Decisions

(* One recent file in the administration, none while one is created.       *)
UnDossier ==
    /\ UnCalcul
    /\ \A d, e \in DOMAIN dossiers : EnRoute(d) /\ EnRoute(e) => d = e
    /\ \A q \in Requetes : pc[q] = "creerDossier" => \A d \in DOMAIN dossiers : ~EnRoute(d)

UnDossierTenu == courseScore \/ courseDossier \/ UnDossier

-----------------------------------------------------------------------------
(* What the steps do.                                                      *)

(* The state of an idle slot is one.                                       *)
LEMMA ReposType == Vide \in Ligne /\ Repos \in Locales /\ Repos.op = "aucune"
  BY DEF Repos, Vide, Ligne, Locales

(* The score of the client is one.                                         *)
LEMMA LectureType ==
  ASSUME profil \in Profil
  PROVE  [presente |-> TRUE, score |-> Score(profil), mois |-> profil.mois,
          jours |-> profil.jours] \in Ligne
<1>1. Score(profil) \in 0 .. 100
  BY ScoreDit
<1>. QED
  BY <1>1 DEF Ligne, Profil

(* An element of a sequence is replaced.                                   *)
LEMMA Remplace ==
  ASSUME NEW D, NEW s \in Seq(D), NEW n \in DOMAIN s, NEW e \in D
  PROVE  /\ [s EXCEPT ![n] = e] \in Seq(D) /\ DOMAIN [s EXCEPT ![n] = e] = DOMAIN s
         /\ \A d \in DOMAIN s : [s EXCEPT ![n] = e][d] = IF d = n THEN e ELSE s[d]
  OBVIOUS

(* A step of one slot leaves the others where they were.                   *)
LEMMA UnSeul ==
  ASSUME Typage, NEW q \in Requetes, LireStatistiques(q) \/ LireDossier(q) \/ Poursuivre(q)
  PROVE  \A p \in Requetes \ {q} : pc'[p] = pc[p] /\ loc'[p] = loc[p]
<1>. USE DEF Typage, Vers, Repondre
<1>1. CASE LireStatistiques(q) \/ LireDossier(q)
  BY <1>1 DEF LireStatistiques, LireDossier
<1>2. CASE \/ LireAncien(q) \/ EcrireScore(q) \/ Notifier(q) \/ Historiser(q)
           \/ ChercherDossier(q) \/ CreerDossier(q)
  BY <1>2 DEF LireAncien, EcrireScore, Notifier, Historiser, ChercherDossier, CreerDossier
<1>3. CASE \/ SauverPdf(q) \/ LireBadge(q) \/ CreerBadge(q) \/ EcrireDossier(q)
           \/ CreerCommission(q)
  BY <1>3 DEF SauverPdf, LireBadge, CreerBadge, EcrireDossier, CreerCommission
<1>. QED
  BY <1>1, <1>2, <1>3 DEF Poursuivre

(* What is no step of a slot: the other tables, time and crashes.          *)
Exterieur == Evoluer \/ Vieillir \/ Panne \/ UNCHANGED vars

LEMMA ExterieurProcs ==
  ASSUME Typage, Exterieur
  PROVE  \/ UNCHANGED <<pc, loc>>
         \/ /\ Panne /\ aJour' = FALSE /\ UNCHANGED <<profil, ligne, historique, dossiers, badges>>
            /\ \A q \in Requetes : pc'[q] = "libre" /\ loc'[q] = Repos
  BY DEF Exterieur, Evoluer, Vieillir, Panne, vars, procVars, rowVars

(* The moves of the slot that acts.                                        *)
Va(q, de, vers) == pc[q] = de /\ pc'[q] = vers
Garde(q) == loc'[q] = loc[q]
Repond(q, de) == Va(q, de, "libre") /\ loc'[q] = Repos

PasseCalcul(q) ==
    \/ /\ Va(q, "libre", "lireAncien")
       /\ loc'[q].op = "calcul" /\ loc'[q].lu.score = Score(profil) /\ aJour'
    \/ /\ Va(q, "lireAncien", "ecrireScore")
       /\ loc'[q].op = loc[q].op /\ loc'[q].lu = loc[q].lu /\ loc'[q].ancien = ligne
    \/ Va(q, "ecrireScore", "notifier") /\ Garde(q)
    \/ Va(q, "notifier", "historiser") /\ Garde(q)
    \/ Va(q, "historiser", "chercherDossier") /\ Garde(q)
    \/ Va(q, "historiser", "lireBadge") /\ Garde(q)
    \/ Va(q, "chercherDossier", "creerDossier") /\ Garde(q) /\ \A d \in DOMAIN dossiers : ~EnRoute(d)
    \/ Va(q, "chercherDossier", "lireBadge") /\ Garde(q)
    \/ /\ Va(q, "creerDossier", "sauverPdf")
       /\ loc'[q].op = loc[q].op /\ loc'[q].n \in DOMAIN dossiers'
    \/ Va(q, "sauverPdf", "lireBadge") /\ Garde(q)
    \/ Repond(q, "sauverPdf")
    \/ /\ Va(q, "lireBadge", "creerBadge") /\ loc'[q].op = loc[q].op /\ loc'[q].n \in Niveaux
       /\ ~DejaAtteint(loc'[q].n)
    \/ Repond(q, "lireBadge")
    \/ Repond(q, "creerBadge")

PasseDecision(q) ==
    \/ /\ Va(q, "libre", "ecrireDossier") /\ loc'[q].op = "decision"
       /\ loc'[q].n \in DOMAIN dossiers
       /\ loc'[q].statut \in SuitesDe(dossiers[loc'[q].n].statut)
       /\ courseDossier' = (courseDossier \/ \E p \in Requetes : Decide(p))
    \/ Va(q, "ecrireDossier", "commission") /\ Garde(q) /\ loc[q].statut = "ACCEPTE"
    \/ Repond(q, "ecrireDossier")
    \/ Repond(q, "commission")

(* The statuts that follow one.                                            *)
LEMMA SuitesDit ==
  /\ SuitesDe("GENERE") = {"VALIDE_ADMIN"} /\ SuitesDe("VALIDE_ADMIN") = {"SOUMIS_PADME"}
  /\ SuitesDe("SOUMIS_PADME") = {"ACCEPTE", "REJETE"}
  /\ SuitesDe("ACCEPTE") = {} /\ SuitesDe("REJETE") = {}
  BY DEF SuitesDe, Suites

LEMMA RangDit ==
  /\ Rang["GENERE"] = 0 /\ Rang["VALIDE_ADMIN"] = 1 /\ Rang["SOUMIS_PADME"] = 2
  /\ Rang["ACCEPTE"] = 3 /\ Rang["REJETE"] = 3
  BY DEF Rang

(* A level that is open is one.                                            *)
LEMMA NiveauType ==
  ASSUME NEW l, NiveauxOuverts(l) # {}
  PROVE  Max(NiveauxOuverts(l)) \in Niveaux
<1>. DEFINE T == NiveauxOuverts(l)
<1>1. T \subseteq 1 .. 4
  BY DEF NiveauxOuverts, Niveaux
<1>2. T # {}
  OBVIOUS
<1>. HIDE DEF T
<1>3. \E x \in T : \A y \in T : x >= y
  <2>1. CASE 4 \in T
    BY <1>1, <2>1
  <2>2. CASE 4 \notin T /\ 3 \in T
    BY <1>1, <2>2
  <2>3. CASE 4 \notin T /\ 3 \notin T /\ 2 \in T
    BY <1>1, <2>3
  <2>4. CASE 4 \notin T /\ 3 \notin T /\ 2 \notin T
    <3>0. \A x \in T : x = 1
      BY <1>1, <2>4
    <3>1. T = {1}
      BY <1>2, <3>0
    <3>. QED
      BY <3>1
  <2>. QED
    BY <2>1, <2>2, <2>3, <2>4
<1>4. Max(T) \in T
  BY <1>3 DEF Max
<1>. QED
  BY <1>1, <1>4 DEF T, Niveaux

(* A slot begins, or goes on, as the table says.                           *)
LEMMA Commence ==
  ASSUME Typage, NEW q \in Requetes, LireStatistiques(q) \/ LireDossier(q)
  PROVE  /\ LireStatistiques(q) => PasseCalcul(q)
         /\ LireDossier(q) => PasseDecision(q)
         /\ pc' \in [Requetes -> Etapes] /\ loc' \in [Requetes -> Locales]
         /\ EtapeOK(q)'
<1>. DEFINE r == [presente |-> TRUE, score |-> Score(profil), mois |-> profil.mois,
                  jours |-> profil.jours]
<1>1. CASE LireStatistiques(q)
  <2>1. r \in Ligne /\ r.score = Score(profil)
    BY LectureType DEF Typage, TypeOK
  <2>2. PICK l : l = [Repos EXCEPT !.op = "calcul", !.lu = r]
    OBVIOUS
  <2>. HIDE DEF r
  <2>3. l \in Locales /\ l.op = "calcul" /\ l.lu = r
    BY <2>1, <2>2, ReposType DEF Locales
  <2>4. /\ pc[q] = "libre" /\ pc' = [pc EXCEPT ![q] = "lireAncien"]
        /\ loc' = [loc EXCEPT ![q] = l] /\ aJour'
    BY <1>1, <2>2 DEF LireStatistiques, Vers, r
  <2>5. /\ pc' \in [Requetes -> Etapes] /\ loc' \in [Requetes -> Locales]
        /\ pc'[q] = "lireAncien" /\ loc'[q] = l
    BY <2>3, <2>4 DEF Typage, Etapes, EtapesCalcul
  <2>6. ~LireDossier(q)
    BY <2>5 DEF LireDossier, Vers, Typage
  <2>7. PasseCalcul(q)
    BY <2>1, <2>3, <2>4, <2>5 DEF PasseCalcul, Va
  <2>. QED
    BY <2>3, <2>5, <2>6, <2>7 DEF EtapeOK, Calcule, Decide, EtapesCalcul, EtapesDecision
<1>2. CASE LireDossier(q)
  <2>0. PICK d \in DOMAIN dossiers : \E s \in SuitesDe(dossiers[d].statut) :
          loc' = [loc EXCEPT ![q] = [Repos EXCEPT !.op = "decision", !.n = d, !.statut = s]]
    BY <1>2 DEF LireDossier
  <2>1. PICK s \in SuitesDe(dossiers[d].statut) :
          loc' = [loc EXCEPT ![q] = [Repos EXCEPT !.op = "decision", !.n = d, !.statut = s]]
    BY <2>0
  <2>2. PICK l : l = [Repos EXCEPT !.op = "decision", !.n = d, !.statut = s]
    OBVIOUS
  <2>10. dossiers[d] \in DossierPADME /\ d \in Nat
    BY DEF Typage, TypeOK
  <2>3. dossiers[d].statut \in StatutDossierPADME /\ d \in Nat
    BY <2>10 DEF DossierPADME
  <2>4. s \in StatutDossierPADME
    BY <2>3, SuitesDit DEF StatutDossierPADME
  <2>5. l \in Locales /\ l.op = "decision" /\ l.n = d /\ l.statut = s
    BY <2>2, <2>3, <2>4, ReposType DEF Locales
  <2>6. /\ pc[q] = "libre" /\ pc' = [pc EXCEPT ![q] = "ecrireDossier"]
        /\ loc' = [loc EXCEPT ![q] = l] /\ UNCHANGED dossiers
        /\ courseDossier' = (courseDossier \/ \E p \in Requetes : Decide(p))
    BY <1>2, <2>1, <2>2 DEF LireDossier, Vers, rowVars
  <2>7. /\ pc' \in [Requetes -> Etapes] /\ loc' \in [Requetes -> Locales]
        /\ pc'[q] = "ecrireDossier" /\ loc'[q] = l
    BY <2>5, <2>6 DEF Typage, Etapes, EtapesDecision
  <2>8. ~LireStatistiques(q)
    BY <2>7 DEF LireStatistiques, Vers, Typage
  <2>9. PasseDecision(q)
    BY <2>5, <2>6, <2>7 DEF PasseDecision, Va
  <2>. QED
    BY <2>4, <2>5, <2>6, <2>7, <2>8, <2>9 DEF EtapeOK, Calcule, Decide, EtapesCalcul,
       EtapesDecision
<1>. QED
  BY <1>1, <1>2

(* A slot goes on as the table says: the steps that keep what it read.     *)
LEMMA Avance ==
  ASSUME Typage, NEW q \in Requetes,
         \/ EcrireScore(q) \/ Notifier(q) \/ Historiser(q) \/ ChercherDossier(q)
  PROVE  /\ PasseCalcul(q)
         /\ pc' \in [Requetes -> Etapes] /\ loc' \in [Requetes -> Locales]
         /\ EtapeOK(q)'
<1>. USE DEF Typage, Vers
<1>1. PICK e \in {"notifier", "historiser", "chercherDossier", "creerDossier", "lireBadge"} :
        pc' = [pc EXCEPT ![q] = e] /\ loc' = loc
  BY DEF EcrireScore, Notifier, Historiser, ChercherDossier
<1>2. pc[q] \in EtapesCalcul
  BY DEF EcrireScore, Notifier, Historiser, ChercherDossier, EtapesCalcul
<1>3. pc' \in [Requetes -> Etapes] /\ pc'[q] = e /\ e \in EtapesCalcul
  BY <1>1 DEF Etapes, EtapesCalcul
<1>4. EtapeOK(q)'
  BY <1>1, <1>2, <1>3 DEF EtapeOK, Calcule, Decide, EtapesCalcul, EtapesDecision
<1>5. PasseCalcul(q)
  BY <1>1, <1>3 DEF PasseCalcul, Va, Garde, EcrireScore, Notifier, Historiser, ChercherDossier,
     DossierRecent, EnRoute
<1>. QED
  BY <1>1, <1>3, <1>4, <1>5

(* An answer leaves an idle slot.                                          *)
LEMMA Repondu ==
  ASSUME Typage, NEW q \in Requetes, Repondre(q)
  PROVE  /\ pc' \in [Requetes -> Etapes] /\ loc' \in [Requetes -> Locales]
         /\ EtapeOK(q)' /\ pc'[q] = "libre" /\ loc'[q] = Repos
<1>1. /\ pc' \in [Requetes -> Etapes] /\ loc' \in [Requetes -> Locales]
      /\ pc'[q] = "libre" /\ loc'[q] = Repos
  BY ReposType DEF Typage, Repondre, Vers, Etapes
<1>2. EtapeOK(q)'
  BY <1>1, ReposType DEF EtapeOK, Calcule, Decide, EtapesCalcul, EtapesDecision
<1>. QED
  BY <1>1, <1>2

(* What the slot has read is kept: the next step is on the badges, or on    *)
(* the commission.                                                         *)
LEMMA VersBadge ==
  ASSUME Typage, NEW q \in Requetes, pc[q] \in EtapesCalcul, Vers(q, "lireBadge"), loc' = loc
  PROVE  /\ pc' \in [Requetes -> Etapes] /\ loc' \in [Requetes -> Locales]
         /\ EtapeOK(q)' /\ pc'[q] = "lireBadge"
<1>1. pc' \in [Requetes -> Etapes] /\ pc'[q] = "lireBadge"
  BY DEF Typage, Etapes, EtapesCalcul, Vers
<1>2. EtapeOK(q)'
  BY <1>1 DEF Typage, EtapeOK, Calcule, Decide, EtapesCalcul, EtapesDecision
<1>. QED
  BY <1>1, <1>2 DEF Typage

LEMMA VersCommission ==
  ASSUME Typage, NEW q \in Requetes, pc[q] \in EtapesDecision, Vers(q, "commission"),
         loc' = loc, DOMAIN dossiers' = DOMAIN dossiers
  PROVE  /\ pc' \in [Requetes -> Etapes] /\ loc' \in [Requetes -> Locales]
         /\ EtapeOK(q)' /\ pc'[q] = "commission"
<1>1. pc' \in [Requetes -> Etapes] /\ pc'[q] = "commission"
  BY DEF Typage, Etapes, EtapesDecision, Vers
<1>2. EtapeOK(q)'
  BY <1>1 DEF Typage, EtapeOK, Calcule, Decide, EtapesCalcul, EtapesDecision
<1>. QED
  BY <1>1, <1>2 DEF Typage

(* Files are written one at a time: what happens to each.                  *)
DossierPareil(d) == dossiers'[d] = dossiers[d]
DossierSigne(d, q) ==
    /\ pc[q] = "ecrireDossier" /\ pc'[q] # "ecrireDossier" /\ d = loc[q].n
    /\ dossiers'[d] = [dossiers[d] EXCEPT !.statut = loc[q].statut]
DossierPaye(d, q) ==
    /\ Va(q, "commission", "libre") /\ d = loc[q].n
    /\ dossiers'[d] = [dossiers[d] EXCEPT !.commissions = @ + 1]
DossierImprime(d) == dossiers'[d] = [dossiers[d] EXCEPT !.pdf = TRUE]
DossierVieilli(d) == dossiers'[d] = [dossiers[d] EXCEPT !.recent = FALSE]

LEMMA DossierEcrit ==
  ASSUME Typage, NEW n \in DOMAIN dossiers, NEW e \in DossierPADME,
         dossiers' = [dossiers EXCEPT ![n] = e]
  PROVE  /\ dossiers' \in Seq(DossierPADME) /\ DOMAIN dossiers' = DOMAIN dossiers
         /\ dossiers'[n] = e /\ \A d \in DOMAIN dossiers \ {n} : DossierPareil(d)
  BY Remplace DEF Typage, TypeOK, DossierPareil

(* A row of a file with one column changed is one.                         *)
LEMMA LignesDeDossier ==
  ASSUME NEW r \in DossierPADME
  PROVE  /\ [r EXCEPT !.pdf = TRUE] \in DossierPADME
         /\ [r EXCEPT !.recent = FALSE] \in DossierPADME
         /\ [r EXCEPT !.commissions = @ + 1] \in DossierPADME
         /\ \A s \in StatutDossierPADME : [r EXCEPT !.statut = s] \in DossierPADME
<1>1. r.commissions + 1 \in Nat
  BY DEF DossierPADME
<1>. QED
  BY <1>1 DEF DossierPADME

(* The file is printed, or the request fails.                              *)
LEMMA SauverPdfDit ==
  ASSUME Typage, NEW q \in Requetes, SauverPdf(q)
  PROVE  /\ PasseCalcul(q)
         /\ pc' \in [Requetes -> Etapes] /\ loc' \in [Requetes -> Locales] /\ EtapeOK(q)'
         /\ dossiers' \in Seq(DossierPADME) /\ DOMAIN dossiers' = DOMAIN dossiers
         /\ \A d \in DOMAIN dossiers : DossierPareil(d) \/ DossierImprime(d)
<1>. DEFINE n == loc[q].n
<1>0. /\ pc[q] = "sauverPdf" /\ n \in DOMAIN dossiers /\ dossiers \in Seq(DossierPADME)
      /\ pc[q] \in EtapesCalcul
  BY DEF SauverPdf, Typage, TypeOK, EtapeOK, EtapesCalcul
<1>1. CASE /\ dossiers' = [dossiers EXCEPT ![n].pdf = TRUE]
           /\ Vers(q, "lireBadge") /\ UNCHANGED loc
  <2>1. PICK e : e = [dossiers[n] EXCEPT !.pdf = TRUE]
    OBVIOUS
  <2>0. dossiers[n] \in DossierPADME
    BY <1>0
  <2>2. e \in DossierPADME /\ dossiers' = [dossiers EXCEPT ![n] = e]
    BY <2>0, <1>1, <2>1, LignesDeDossier
  <2>3. /\ dossiers' \in Seq(DossierPADME) /\ DOMAIN dossiers' = DOMAIN dossiers
        /\ dossiers'[n] = e /\ \A d \in DOMAIN dossiers \ {n} : DossierPareil(d)
    BY <1>0, <2>2, DossierEcrit
  <2>4. /\ pc' \in [Requetes -> Etapes] /\ loc' \in [Requetes -> Locales] /\ EtapeOK(q)'
        /\ pc'[q] = "lireBadge"
    BY <1>0, <1>1, VersBadge
  <2>5. PasseCalcul(q)
    BY <1>0, <1>1, <2>4 DEF PasseCalcul, Va, Garde
  <2>. QED
    BY <2>1, <2>3, <2>4, <2>5 DEF DossierImprime
<1>2. CASE Repondre(q) /\ UNCHANGED dossiers
  BY <1>0, <1>2, Repondu DEF PasseCalcul, Repond, Va, DossierPareil
<1>. QED
  BY <1>1, <1>2 DEF SauverPdf

(* A decision is written.                                                  *)
LEMMA EcrireDossierDit ==
  ASSUME Typage, NEW q \in Requetes, EcrireDossier(q)
  PROVE  /\ PasseDecision(q)
         /\ pc' \in [Requetes -> Etapes] /\ loc' \in [Requetes -> Locales] /\ EtapeOK(q)'
         /\ dossiers' \in Seq(DossierPADME) /\ DOMAIN dossiers' = DOMAIN dossiers
         /\ \A d \in DOMAIN dossiers : DossierPareil(d) \/ DossierSigne(d, q)
         /\ \A d \in DOMAIN dossiers : d # loc[q].n => DossierPareil(d)
         /\ DossierSigne(loc[q].n, q)
<1>. DEFINE n == loc[q].n
<1>0. /\ pc[q] = "ecrireDossier" /\ n \in DOMAIN dossiers /\ dossiers \in Seq(DossierPADME)
      /\ pc[q] \in EtapesDecision /\ loc[q].statut \in StatutDossierPADME
  BY DEF EcrireDossier, Typage, TypeOK, EtapeOK, EtapesDecision
<1>1. PICK e : e = [dossiers[n] EXCEPT !.statut = loc[q].statut]
  OBVIOUS
<1>6. dossiers[n] \in DossierPADME
  BY <1>0
<1>2. e \in DossierPADME /\ dossiers' = [dossiers EXCEPT ![n] = e]
  BY <1>0, <1>6, <1>1, LignesDeDossier DEF EcrireDossier
<1>3. /\ dossiers' \in Seq(DossierPADME) /\ DOMAIN dossiers' = DOMAIN dossiers
      /\ dossiers'[n] = e /\ \A d \in DOMAIN dossiers \ {n} : DossierPareil(d)
  BY <1>0, <1>2, DossierEcrit
<1>4. CASE loc[q].statut = "ACCEPTE" /\ Vers(q, "commission") /\ UNCHANGED loc
  <2>1. /\ pc' \in [Requetes -> Etapes] /\ loc' \in [Requetes -> Locales] /\ EtapeOK(q)'
        /\ pc'[q] = "commission"
    BY <1>0, <1>3, <1>4, VersCommission
  <2>2. PasseDecision(q)
    BY <1>0, <1>4, <2>1 DEF PasseDecision, Va, Garde
  <2>. QED
    BY <1>0, <1>1, <1>3, <2>1, <2>2 DEF DossierSigne, Va
<1>5. CASE Repondre(q)
  BY <1>0, <1>1, <1>3, <1>5, Repondu DEF PasseDecision, Repond, Va, DossierSigne
<1>. QED
  BY <1>4, <1>5 DEF EcrireDossier

(* The collector of an accepted file is paid, or the insert fails.         *)
LEMMA CreerCommissionDit ==
  ASSUME Typage, NEW q \in Requetes, CreerCommission(q)
  PROVE  /\ PasseDecision(q)
         /\ pc' \in [Requetes -> Etapes] /\ loc' \in [Requetes -> Locales] /\ EtapeOK(q)'
         /\ dossiers' \in Seq(DossierPADME) /\ DOMAIN dossiers' = DOMAIN dossiers
         /\ \A d \in DOMAIN dossiers : DossierPareil(d) \/ DossierPaye(d, q)
<1>. DEFINE n == loc[q].n
<1>0. /\ pc[q] = "commission" /\ n \in DOMAIN dossiers /\ dossiers \in Seq(DossierPADME)
  BY DEF CreerCommission, Typage, TypeOK, EtapeOK, EtapesDecision
<1>1. PICK e : e = [dossiers[n] EXCEPT !.commissions = @ + 1]
  OBVIOUS
<1>2. /\ pc' \in [Requetes -> Etapes] /\ loc' \in [Requetes -> Locales] /\ EtapeOK(q)'
      /\ pc'[q] = "libre" /\ loc'[q] = Repos
  BY Repondu DEF CreerCommission
<1>3. PasseDecision(q)
  BY <1>0, <1>2 DEF PasseDecision, Repond, Va
<1>4. CASE dossiers' = [dossiers EXCEPT ![n].commissions = @ + 1]
  <2>0. dossiers[n] \in DossierPADME
    BY <1>0
  <2>1. e \in DossierPADME /\ dossiers' = [dossiers EXCEPT ![n] = e]
    BY <2>0, <1>1, <1>4, LignesDeDossier
  <2>2. /\ dossiers' \in Seq(DossierPADME) /\ DOMAIN dossiers' = DOMAIN dossiers
        /\ dossiers'[n] = e /\ \A d \in DOMAIN dossiers \ {n} : DossierPareil(d)
    BY <1>0, <2>1, DossierEcrit
  <2>. QED
    BY <1>0, <1>1, <1>2, <1>3, <2>2 DEF DossierPaye, Va
<1>5. CASE UNCHANGED dossiers
  BY <1>0, <1>2, <1>3, <1>5 DEF DossierPareil
<1>. QED
  BY <1>4, <1>5 DEF CreerCommission

(* A file is made, GENERE, recent and unpaid.                              *)
LEMMA CreerDossierDit ==
  ASSUME Typage, NEW q \in Requetes, CreerDossier(q)
  PROVE  /\ PasseCalcul(q)
         /\ pc' \in [Requetes -> Etapes] /\ loc' \in [Requetes -> Locales] /\ EtapeOK(q)'
         /\ dossiers' \in Seq(DossierPADME)
         /\ DOMAIN dossiers' = DOMAIN dossiers \cup {Len(dossiers')}
         /\ Len(dossiers') \notin DOMAIN dossiers
         /\ \A d \in DOMAIN dossiers : DossierPareil(d)
         /\ dossiers'[Len(dossiers')].statut = "GENERE"
         /\ dossiers'[Len(dossiers')].commissions = 0
<1>. DEFINE r == [statut |-> "GENERE", recent |-> TRUE, pdf |-> FALSE,
                  score |-> loc[q].lu.score, commissions |-> 0]
<1>0. /\ pc[q] = "creerDossier" /\ pc' = [pc EXCEPT ![q] = "sauverPdf"]
      /\ dossiers' = Append(dossiers, r) /\ loc' = [loc EXCEPT ![q].n = Len(dossiers')]
  BY DEF CreerDossier, Vers
<1>1. loc[q] \in Locales /\ dossiers \in Seq(DossierPADME) /\ Calcule(q)
  BY <1>0 DEF Typage, TypeOK, EtapeOK, EtapesCalcul
<1>2. r \in DossierPADME /\ r.statut = "GENERE" /\ r.commissions = 0
  <2>1. loc[q].lu.score \in 0 .. 100
    BY <1>1 DEF Locales, Ligne
  <2>. QED
    BY <2>1 DEF DossierPADME, StatutDossierPADME
<1>. HIDE DEF r
<1>3. /\ dossiers' \in Seq(DossierPADME) /\ Len(dossiers') = Len(dossiers) + 1
      /\ Len(dossiers') \in Nat /\ Len(dossiers) \in Nat
      /\ DOMAIN dossiers' = 1 .. Len(dossiers') /\ DOMAIN dossiers = 1 .. Len(dossiers)
      /\ dossiers'[Len(dossiers')] = r
      /\ \A d \in DOMAIN dossiers : DossierPareil(d)
  BY <1>0, <1>1, <1>2 DEF DossierPareil
<1>4. PICK l : l = [loc[q] EXCEPT !.n = Len(dossiers')]
  OBVIOUS
<1>5. l \in Locales /\ l.op = loc[q].op /\ l.n = Len(dossiers')
  BY <1>1, <1>3, <1>4 DEF Locales
<1>6. /\ loc' = [loc EXCEPT ![q] = l]
      /\ pc' \in [Requetes -> Etapes] /\ loc' \in [Requetes -> Locales]
      /\ pc'[q] = "sauverPdf" /\ loc'[q] = l
  BY <1>0, <1>4, <1>5 DEF Typage, Etapes, EtapesCalcul
<1>7. Len(dossiers') \in DOMAIN dossiers' /\ Len(dossiers') \notin DOMAIN dossiers
      /\ DOMAIN dossiers' = DOMAIN dossiers \cup {Len(dossiers')}
  BY <1>3
<1>8. EtapeOK(q)'
  BY <1>1, <1>5, <1>6, <1>7 DEF EtapeOK, Calcule, Decide, EtapesCalcul, EtapesDecision
<1>9. PasseCalcul(q)
  BY <1>0, <1>5, <1>6, <1>7 DEF PasseCalcul, Va
<1>. QED
  BY <1>2, <1>3, <1>6, <1>7, <1>8, <1>9

(* The row that was there is read.                                         *)
LEMMA LireAncienDit ==
  ASSUME Typage, NEW q \in Requetes, LireAncien(q)
  PROVE  /\ PasseCalcul(q)
         /\ pc' \in [Requetes -> Etapes] /\ loc' \in [Requetes -> Locales] /\ EtapeOK(q)'
<1>0. /\ pc[q] = "lireAncien" /\ pc' = [pc EXCEPT ![q] = "ecrireScore"]
      /\ loc' = [loc EXCEPT ![q].ancien = ligne]
  BY DEF LireAncien, Vers
<1>1. loc[q] \in Locales /\ ligne \in Ligne /\ Calcule(q)
  BY <1>0 DEF Typage, TypeOK, EtapeOK, EtapesCalcul
<1>4. PICK l : l = [loc[q] EXCEPT !.ancien = ligne]
  OBVIOUS
<1>5. l \in Locales /\ l.op = loc[q].op /\ l.lu = loc[q].lu /\ l.ancien = ligne
  BY <1>1, <1>4 DEF Locales
<1>6. /\ loc' = [loc EXCEPT ![q] = l]
      /\ pc' \in [Requetes -> Etapes] /\ loc' \in [Requetes -> Locales]
      /\ pc'[q] = "ecrireScore" /\ loc'[q] = l
  BY <1>0, <1>4, <1>5 DEF Typage, Etapes, EtapesCalcul
<1>8. EtapeOK(q)'
  BY <1>1, <1>5, <1>6 DEF EtapeOK, Calcule, Decide, EtapesCalcul, EtapesDecision
<1>9. PasseCalcul(q)
  BY <1>0, <1>5, <1>6 DEF PasseCalcul, Va
<1>. QED
  BY <1>6, <1>8, <1>9

(* The badge to win is read.                                               *)
LEMMA LireBadgeDit ==
  ASSUME Typage, NEW q \in Requetes, LireBadge(q)
  PROVE  /\ PasseCalcul(q)
         /\ pc' \in [Requetes -> Etapes] /\ loc' \in [Requetes -> Locales] /\ EtapeOK(q)'
<1>. DEFINE n == Max(NiveauxOuverts(ligne))
<1>0. pc[q] = "lireBadge"
  BY DEF LireBadge
<1>1. CASE NiveauxOuverts(ligne) # {} /\ ~DejaAtteint(n)
  <2>0. n \in Niveaux
    BY <1>1, NiveauType
  <2>9. /\ pc' = [pc EXCEPT ![q] = "creerBadge"] /\ loc' = [loc EXCEPT ![q].n = n]
    BY <1>1 DEF LireBadge, Vers
  <2>. HIDE DEF n
  <2>1. loc[q] \in Locales /\ Calcule(q) /\ n \in Nat
    BY <1>0, <2>0 DEF Typage, TypeOK, EtapeOK, EtapesCalcul, Niveaux
  <2>4. PICK l : l = [loc[q] EXCEPT !.n = n]
    OBVIOUS
  <2>5. l \in Locales /\ l.op = loc[q].op /\ l.n = n
    BY <2>1, <2>4 DEF Locales
  <2>6. /\ loc' = [loc EXCEPT ![q] = l]
        /\ pc' \in [Requetes -> Etapes] /\ loc' \in [Requetes -> Locales]
        /\ pc'[q] = "creerBadge" /\ loc'[q] = l
    BY <2>9, <2>4, <2>5 DEF Typage, Etapes, EtapesCalcul
  <2>8. EtapeOK(q)'
    BY <2>0, <2>1, <2>5, <2>6 DEF EtapeOK, Calcule, Decide, EtapesCalcul, EtapesDecision
  <2>10. PasseCalcul(q)
    BY <1>0, <1>1, <2>0, <2>5, <2>6 DEF PasseCalcul, Va
  <2>. QED
    BY <2>6, <2>8, <2>10
<1>2. CASE Repondre(q)
  BY <1>0, <1>2, Repondu DEF PasseCalcul, Repond, Va
<1>. QED
  BY <1>1, <1>2 DEF LireBadge

(* A badge is won.                                                         *)
LEMMA CreerBadgeDit ==
  ASSUME Typage, NEW q \in Requetes, CreerBadge(q)
  PROVE  /\ PasseCalcul(q)
         /\ pc' \in [Requetes -> Etapes] /\ loc' \in [Requetes -> Locales] /\ EtapeOK(q)'
         /\ badges' \in Seq(Niveaux)
<1>0. /\ pc[q] = "creerBadge" /\ Repondre(q) /\ badges' = Append(badges, loc[q].n)
      /\ loc[q].n \in Niveaux /\ badges \in Seq(Niveaux)
  BY DEF CreerBadge, Typage, TypeOK, EtapeOK
<1>1. PasseCalcul(q)
  BY <1>0, Repondu DEF PasseCalcul, Repond, Va
<1>. QED
  BY <1>0, <1>1, Repondu

(* All of them: a slot that acts follows one table or the other.           *)
LEMMA Table ==
  ASSUME Typage, NEW q \in Requetes, LireStatistiques(q) \/ LireDossier(q) \/ Poursuivre(q)
  PROVE  /\ PasseCalcul(q) \/ PasseDecision(q)
         /\ pc' \in [Requetes -> Etapes] /\ loc' \in [Requetes -> Locales] /\ EtapeOK(q)'
<1>1. CASE LireStatistiques(q) \/ LireDossier(q)
  BY <1>1, Commence
<1>2. CASE EcrireScore(q) \/ Notifier(q) \/ Historiser(q) \/ ChercherDossier(q)
  BY <1>2, Avance
<1>. QED
  BY <1>1, <1>2, SauverPdfDit, EcrireDossierDit, CreerCommissionDit, CreerDossierDit,
     LireAncienDit, LireBadgeDit, CreerBadgeDit DEF Poursuivre

-----------------------------------------------------------------------------
(* Types.                                                                  *)

(* A file grows older.                                                     *)
LEMMA VieillirDit ==
  ASSUME Typage, Vieillir
  PROVE  /\ dossiers' \in Seq(DossierPADME) /\ DOMAIN dossiers' = DOMAIN dossiers
         /\ \A d \in DOMAIN dossiers : DossierPareil(d) \/ DossierVieilli(d)
<1>1. PICK n \in DOMAIN dossiers : dossiers' = [dossiers EXCEPT ![n].recent = FALSE]
  BY DEF Vieillir
<1>2. dossiers[n] \in DossierPADME
  BY DEF Typage, TypeOK
<1>3. PICK e : e = [dossiers[n] EXCEPT !.recent = FALSE]
  OBVIOUS
<1>4. e \in DossierPADME /\ dossiers' = [dossiers EXCEPT ![n] = e]
  BY <1>1, <1>2, <1>3, LignesDeDossier
<1>5. /\ dossiers' \in Seq(DossierPADME) /\ DOMAIN dossiers' = DOMAIN dossiers
      /\ dossiers'[n] = e /\ \A d \in DOMAIN dossiers \ {n} : DossierPareil(d)
  BY <1>4, DossierEcrit
<1>. QED
  BY <1>3, <1>5 DEF DossierVieilli

(* A slot that does not create, print, decide on or pay a file leaves the   *)
(* files alone.                                                            *)
LEMMA DossiersLaisses ==
  ASSUME NEW q \in Requetes,
         \/ LireStatistiques(q) \/ LireDossier(q) \/ LireAncien(q) \/ EcrireScore(q)
         \/ Notifier(q) \/ Historiser(q) \/ ChercherDossier(q) \/ LireBadge(q) \/ CreerBadge(q)
  PROVE  dossiers' = dossiers
  BY DEF LireStatistiques, LireDossier, LireAncien, EcrireScore, Notifier, Historiser,
     ChercherDossier, LireBadge, CreerBadge, rowVars

(* Rows of files are never lost.                                           *)
LEMMA DomaineCroit ==
  ASSUME Typage, [Next]_vars
  PROVE  /\ DOMAIN dossiers \subseteq DOMAIN dossiers'
         /\ dossiers' \in Seq(DossierPADME)
<1>1. dossiers' = dossiers =>
        DOMAIN dossiers \subseteq DOMAIN dossiers' /\ dossiers' \in Seq(DossierPADME)
  BY DEF Typage, TypeOK
<1>2. CASE \E q \in Requetes : LireStatistiques(q) \/ LireDossier(q) \/ Poursuivre(q)
  <2>1. PICK q \in Requetes : LireStatistiques(q) \/ LireDossier(q) \/ Poursuivre(q)
    BY <1>2
  <2>2. CASE SauverPdf(q) \/ EcrireDossier(q) \/ CreerCommission(q) \/ CreerDossier(q)
    BY <2>2, SauverPdfDit, EcrireDossierDit, CreerCommissionDit, CreerDossierDit
  <2>. QED
    BY <1>1, <2>1, <2>2, DossiersLaisses DEF Poursuivre
<1>3. CASE Vieillir
  BY <1>3, VieillirDit
<1>4. CASE Evoluer \/ Panne \/ UNCHANGED vars
  BY <1>1, <1>4 DEF Evoluer, Panne, vars, rowVars
<1>. QED
  BY <1>2, <1>3, <1>4 DEF Next

(* The row, its history and the badges keep their types.                   *)
LEMMA LignesTypees ==
  ASSUME Typage, [Next]_vars
  PROVE  /\ profil' \in Profil /\ ligne' \in Ligne /\ historique' \in Seq(0 .. 100)
         /\ badges' \in Seq(Niveaux) /\ calculs' \in 0 .. MaxCalculs
         /\ aJour' \in BOOLEAN /\ annonce' \in BOOLEAN
         /\ courseScore' \in BOOLEAN /\ courseDossier' \in BOOLEAN
<1>0. /\ profil \in Profil /\ ligne \in Ligne /\ historique \in Seq(0 .. 100)
      /\ badges \in Seq(Niveaux) /\ calculs \in 0 .. MaxCalculs /\ MaxCalculs \in Nat
      /\ aJour \in BOOLEAN /\ annonce \in BOOLEAN
      /\ courseScore \in BOOLEAN /\ courseDossier \in BOOLEAN
      /\ \A q \in Requetes : loc[q].lu \in Ligne /\ loc[q].lu.score \in 0 .. 100
  <2>1. \A l \in Ligne : l.score \in 0 .. 100
    BY DEF Ligne
  <2>. QED
    BY <2>1, ScoreAssumption DEF Typage, TypeOK
<1>1. CASE \E q \in Requetes : LireStatistiques(q)
  BY <1>0, <1>1 DEF LireStatistiques, rowVars
<1>2. CASE \E q \in Requetes : LireDossier(q)
  BY <1>0, <1>2 DEF LireDossier, rowVars
<1>3. ASSUME NEW q \in Requetes, EcrireScore(q) PROVE ligne' \in Ligne /\ annonce' \in BOOLEAN
  BY <1>0, <1>3 DEF EcrireScore
<1>4. ASSUME NEW q \in Requetes, Historiser(q) PROVE historique' \in Seq(0 .. 100)
  BY <1>0, <1>4 DEF Historiser
<1>5. ASSUME NEW q \in Requetes, Notifier(q) PROVE annonce' \in BOOLEAN
  BY <1>0, <1>5 DEF Notifier
<1>6. CASE \E q \in Requetes : EcrireScore(q) \/ Historiser(q) \/ Notifier(q)
  BY <1>0, <1>3, <1>4, <1>5, <1>6 DEF EcrireScore, Historiser, Notifier, rowVars, histVars
<1>7. CASE \E q \in Requetes : \/ LireAncien(q) \/ ChercherDossier(q) \/ CreerDossier(q)
                               \/ SauverPdf(q) \/ LireBadge(q) \/ EcrireDossier(q)
                               \/ CreerCommission(q)
  BY <1>0, <1>7 DEF LireAncien, ChercherDossier, CreerDossier, SauverPdf, LireBadge,
     EcrireDossier, CreerCommission, rowVars, histVars
<1>8. CASE \E q \in Requetes : CreerBadge(q)
  BY <1>0, <1>8, CreerBadgeDit DEF CreerBadge, histVars
<1>9. CASE Evoluer \/ Vieillir \/ Panne
  BY <1>0, <1>9, ScoreAssumption DEF Evoluer, Vieillir, Panne, rowVars, histVars
<1>10. CASE UNCHANGED vars
  BY <1>0, <1>10 DEF vars, rowVars, histVars
<1>. QED
  BY <1>1, <1>2, <1>6, <1>7, <1>8, <1>9, <1>10 DEF Next, Poursuivre

(* What another slot holds survives a step.                                *)
LEMMA EtapeReste ==
  ASSUME NEW p \in Requetes, EtapeOK(p), pc'[p] = pc[p], loc'[p] = loc[p],
         DOMAIN dossiers \subseteq DOMAIN dossiers'
  PROVE  EtapeOK(p)'
  BY DEF EtapeOK, Calcule, Decide

(* The types are kept.                                                     *)
LEMMA TypageInduit ==
  ASSUME Typage, [Next]_vars
  PROVE  Typage'
<1>1. /\ pc' \in [Requetes -> Etapes] /\ loc' \in [Requetes -> Locales]
      /\ \A p \in Requetes : EtapeOK(p)'
  <2>1. CASE \E q \in Requetes : LireStatistiques(q) \/ LireDossier(q) \/ Poursuivre(q)
    <3>1. PICK q \in Requetes : LireStatistiques(q) \/ LireDossier(q) \/ Poursuivre(q)
      BY <2>1
    <3>2. /\ pc' \in [Requetes -> Etapes] /\ loc' \in [Requetes -> Locales] /\ EtapeOK(q)'
      BY <3>1, Table
    <3>3. ASSUME NEW p \in Requetes \ {q} PROVE EtapeOK(p)'
      <4>1. pc'[p] = pc[p] /\ loc'[p] = loc[p]
        BY <3>1, UnSeul
      <4>. QED
        BY <4>1, DomaineCroit, EtapeReste DEF Typage
    <3>. QED
      BY <3>2, <3>3
  <2>2. CASE UNCHANGED <<pc, loc>>
    BY <2>2, DomaineCroit, EtapeReste DEF Typage
  <2>3. CASE Panne
    <3>1. pc' = [q \in Requetes |-> "libre"] /\ loc' = [q \in Requetes |-> Repos]
      BY <2>3 DEF Panne
    <3>. QED
      BY <3>1, ReposType DEF EtapeOK, Calcule, Decide, EtapesCalcul, EtapesDecision, Etapes
  <2>. QED
    BY <2>1, <2>2, <2>3, ExterieurProcs DEF Next, Exterieur
<1>2. \A q \in Requetes : loc'[q].lu \in Ligne /\ loc'[q].ancien \in Ligne
  <2>1. \A l \in Locales : l.lu \in Ligne /\ l.ancien \in Ligne
    BY DEF Locales
  <2>. QED
    BY <1>1, <2>1
<1>. QED
  BY <1>1, <1>2, LignesTypees, DomaineCroit DEF Typage, TypeOK

(* They hold at the start.                                                 *)
LEMMA TypageInit == Init => Typage
<1>. SUFFICES ASSUME Init PROVE Typage
  OBVIOUS
<1>1. profil \in Profil
  BY ScoreAssumption DEF Init
<1>2. /\ pc = [q \in Requetes |-> "libre"] /\ loc = [q \in Requetes |-> Repos]
      /\ ligne = Vide /\ historique = <<>> /\ dossiers = <<>> /\ badges = <<>>
      /\ calculs \in 0 .. MaxCalculs
  BY ScoreAssumption DEF Init
<1>3. /\ pc \in [Requetes -> Etapes] /\ loc \in [Requetes -> Locales]
      /\ \A q \in Requetes : EtapeOK(q)
  BY <1>2, ReposType DEF EtapeOK, Calcule, Decide, EtapesCalcul, EtapesDecision, Etapes
<1>4. \A q \in Requetes : loc[q].lu \in Ligne /\ loc[q].ancien \in Ligne
  BY <1>2, ReposType DEF Repos
<1>5. TypeOK
  BY <1>1, <1>2, <1>4, ReposType DEF TypeOK
<1>. QED
  BY <1>3, <1>5 DEF Typage, Init

(* Every row and local variable has its type, and every slot holds what its *)
(* step needs.                                                             *)
THEOREM ScoreTypes == Spec => []Typage
<1>1. Typage /\ [Next]_vars => Typage'
  BY TypageInduit
<1>. QED
  BY <1>1, TypageInit, PTL DEF Spec

THEOREM ScoreTypeOK == Spec => []TypeOK
<1>1. Typage => TypeOK
  BY DEF Typage
<1>. QED
  BY <1>1, ScoreTypes, PTL

(* The order of the formula in every state.                                *)
THEOREM BaremeTenu == Spec => []BaremeOrdonne
<1>1. Typage => BaremeOrdonne
  BY FormuleOrdonnee DEF Typage, TypeOK, BaremeOrdonne
<1>. QED
  BY <1>1, ScoreTypes, PTL

-----------------------------------------------------------------------------
(* The row, its last snapshot and what the client was told.                *)

(* That two requests met is not forgotten.                                 *)
LEMMA CoursesDurent ==
  ASSUME [Next]_vars
  PROVE  (courseScore => courseScore') /\ (courseDossier => courseDossier')
<1>1. courseScore => courseScore'
  BY DEF Next, LireStatistiques, LireDossier, Poursuivre, LireAncien, EcrireScore, Notifier,
     Historiser, ChercherDossier, CreerDossier, SauverPdf, LireBadge, CreerBadge, EcrireDossier,
     CreerCommission, Evoluer, Vieillir, Panne, histVars, vars
<1>2. courseDossier => courseDossier'
  BY DEF Next, LireStatistiques, LireDossier, Poursuivre, LireAncien, EcrireScore, Notifier,
     Historiser, ChercherDossier, CreerDossier, SauverPdf, LireBadge, CreerBadge, EcrireDossier,
     CreerCommission, Evoluer, Vieillir, Panne, histVars, vars
<1>. QED
  BY <1>1, <1>2

(* Only one scoring is under way while no two meet.                        *)
LEMMA UnCalculInduit ==
  ASSUME Typage, UnCalcul, [Next]_vars, ~courseScore'
  PROVE  UnCalcul'
<1>0. \A q \in Requetes : EtapeOK(q)
  BY DEF Typage
<1>1. CASE \E q \in Requetes : LireStatistiques(q)
  <2>1. PICK q \in Requetes : LireStatistiques(q)
    BY <1>1
  <2>2. \A p \in Requetes : ~Calcule(p)
    BY <2>1 DEF LireStatistiques
  <2>3. \A p \in Requetes \ {q} : loc'[p] = loc[p]
    BY <2>1, UnSeul
  <2>. QED
    BY <2>2, <2>3 DEF UnCalcul, Calcule
<1>2. CASE \E q \in Requetes : LireDossier(q) \/ Poursuivre(q)
  <2>1. PICK q \in Requetes : LireDossier(q) \/ Poursuivre(q)
    BY <1>2
  <2>2. \A p \in Requetes \ {q} : loc'[p] = loc[p]
    BY <2>1, UnSeul
  <2>3. EtapeOK(q)' /\ (PasseCalcul(q) \/ PasseDecision(q))
    BY <2>1, Table
  <2>4. ~Va(q, "libre", "lireAncien")
    BY <2>1 DEF Va, LireDossier, Poursuivre, LireAncien, EcrireScore, Notifier, Historiser,
       ChercherDossier, CreerDossier, SauverPdf, LireBadge, CreerBadge, EcrireDossier,
       CreerCommission, Vers, Typage
  <2>5. Calcule(q)' => Calcule(q)
    BY <1>0, <2>3, <2>4, ReposType DEF EtapeOK, EtapesCalcul, EtapesDecision, Va, Repond, Garde,
       PasseCalcul, PasseDecision, Calcule
  <2>. QED
    BY <2>2, <2>5 DEF UnCalcul, Calcule
<1>3. CASE Exterieur
  BY <1>3, ExterieurProcs, ReposType DEF UnCalcul, Calcule
<1>. QED
  BY <1>1, <1>2, <1>3 DEF Next, Exterieur

(* A step that neither reads nor writes a score.                           *)
LEMMA SuiviNeutre ==
  ASSUME Suivi, UnCalcul', UNCHANGED <<profil, ligne, historique, aJour, annonce>>,
         \A p \in Requetes : \/ pc'[p] = pc[p] /\ loc'[p] = loc[p]
                             \/ pc[p] \notin AvantHistorique /\ pc'[p] \notin AvantHistorique
  PROVE  Suivi'
<1>1. ASSUME NEW p \in Requetes PROVE Lu(p)'
  BY DEF Suivi, Lu, AvantHistorique
<1>2. (\A p \in Requetes : pc'[p] # "notifier") /\ Eligible(ligne'.score) => annonce'
  BY DEF Suivi, AvantHistorique
<1>3. (\A p \in Requetes : pc'[p] \notin AvantHistorique) /\ aJour' =>
         /\ ligne'.score = Score(profil')
         /\ historique' # <<>> /\ historique'[Len(historique')] = ligne'.score
  BY DEF Suivi
<1>. QED
  BY <1>1, <1>2, <1>3 DEF Suivi

(* The steps that do.                                                      *)
LEMMA SuiviCalcul ==
  ASSUME Typage, Suivi, UnCalcul', ~courseScore', NEW q \in Requetes,
         \/ LireStatistiques(q) \/ LireAncien(q) \/ EcrireScore(q) \/ Notifier(q) \/ Historiser(q)
  PROVE  Suivi'
<1>0. /\ EtapeOK(q) /\ EtapeOK(q)'
      /\ \A p \in Requetes : EtapeOK(p)
      /\ PasseCalcul(q) \/ PasseDecision(q)
      /\ \A p \in Requetes \ {q} : pc'[p] = pc[p] /\ loc'[p] = loc[p]
  BY Table, UnSeul DEF Typage, Poursuivre
<1>1. ASSUME NEW p \in Requetes \ {q} PROVE ~Calcule(p) /\ pc[p] \notin AvantHistorique
  <2>1. CASE LireStatistiques(q)
    BY <1>0, <2>1 DEF LireStatistiques, EtapeOK, EtapesCalcul, AvantHistorique
  <2>2. CASE LireAncien(q) \/ EcrireScore(q) \/ Notifier(q) \/ Historiser(q)
    <3>1. Calcule(q)
      BY <1>0, <2>2 DEF LireAncien, EcrireScore, Notifier, Historiser, EtapeOK, EtapesCalcul
    <3>. QED
      BY <1>0, <3>1 DEF Suivi, UnCalcul, EtapeOK, EtapesCalcul, AvantHistorique
  <2>. QED
    BY <2>1, <2>2
<1>2. ASSUME NEW p \in Requetes \ {q} PROVE Lu(p)' /\ pc'[p] \notin AvantHistorique
  BY <1>0, <1>1 DEF Lu, AvantHistorique
<1>3. CASE LireStatistiques(q)
  <2>1. /\ pc[q] = "libre" /\ pc'[q] = "lireAncien" /\ loc'[q].lu.score = Score(profil)
        /\ UNCHANGED <<profil, ligne, historique, annonce>>
    <3>1. pc[q] = "libre" /\ pc' = [pc EXCEPT ![q] = "lireAncien"]
          /\ UNCHANGED <<profil, ligne, historique, annonce>>
      BY <1>3 DEF LireStatistiques, Vers, rowVars
    <3>2. PasseCalcul(q)
      BY <1>3, Commence
    <3>3. pc'[q] = "lireAncien"
      BY <3>1 DEF Typage
    <3>. QED
      BY <3>1, <3>2, <3>3 DEF PasseCalcul, Va, Repond
  <2>2. Lu(q)'
    BY <2>1 DEF Lu, AvantHistorique
  <2>3. Eligible(ligne'.score) => annonce'
    BY <1>1, <2>1 DEF Suivi, AvantHistorique
  <2>. QED
    BY <1>2, <2>1, <2>2, <2>3 DEF Suivi, AvantHistorique
<1>4. CASE LireAncien(q)
  <2>1. /\ pc[q] = "lireAncien" /\ pc'[q] = "ecrireScore" /\ loc'[q].lu = loc[q].lu
        /\ loc'[q].ancien = ligne /\ UNCHANGED <<profil, ligne, historique, annonce, aJour>>
    <3>1. pc[q] = "lireAncien" /\ UNCHANGED <<profil, ligne, historique, annonce, aJour>>
      BY <1>4 DEF LireAncien, Vers, rowVars, histVars
    <3>2. PasseCalcul(q)
      BY <1>4, LireAncienDit
    <3>. QED
      BY <3>1, <3>2 DEF PasseCalcul, Va, Repond
  <2>2. Lu(q)'
    BY <2>1 DEF Lu, AvantHistorique, Suivi
  <2>3. Eligible(ligne'.score) => annonce'
    BY <1>1, <2>1 DEF Suivi, AvantHistorique
  <2>. QED
    BY <1>2, <2>1, <2>2, <2>3 DEF Suivi, AvantHistorique
<1>5. CASE EcrireScore(q)
  <2>1. /\ pc[q] = "ecrireScore" /\ pc'[q] = "notifier" /\ loc'[q] = loc[q]
        /\ ligne' = loc[q].lu /\ (annonce' <=> (annonce /\ Eligible(ligne'.score)))
        /\ UNCHANGED <<profil, historique, aJour>>
    BY <1>5 DEF EcrireScore, Vers, Typage
  <2>2. Eligible(ligne.score) => annonce
    BY <1>1, <2>1 DEF Suivi, AvantHistorique
  <2>3. Lu(q)'
    BY <2>1, <2>2 DEF Lu, AvantHistorique, Suivi
  <2>. QED
    BY <1>2, <2>1, <2>3 DEF Suivi, AvantHistorique
<1>6. CASE Notifier(q)
  <2>1. /\ pc[q] = "notifier" /\ pc'[q] = "historiser" /\ loc'[q] = loc[q]
        /\ (annonce' <=> (annonce \/ DevientEligible(q)))
        /\ UNCHANGED <<profil, ligne, historique, aJour>>
    BY <1>6 DEF Notifier, Vers, Typage, rowVars
  <2>2. Lu(q)'
    BY <2>1 DEF Lu, AvantHistorique, Suivi
  <2>3. Eligible(ligne'.score) => annonce'
    BY <2>1 DEF Suivi, Lu, DevientEligible
  <2>. QED
    BY <1>2, <2>1, <2>2, <2>3 DEF Suivi, AvantHistorique
<1>7. CASE Historiser(q)
  <2>1. /\ pc[q] = "historiser" /\ pc'[q] \in {"chercherDossier", "lireBadge"}
        /\ historique' = Append(historique, loc[q].lu.score)
        /\ UNCHANGED <<profil, ligne, annonce, aJour>>
    BY <1>7 DEF Historiser, Vers, Typage, histVars
  <2>2. Lu(q)'
    BY <2>1 DEF Lu, AvantHistorique
  <2>3. Eligible(ligne'.score) => annonce'
    BY <1>1, <2>1 DEF Suivi, AvantHistorique
  <2>4. historique' # <<>> /\ historique'[Len(historique')] = loc[q].lu.score
    BY <2>1 DEF Typage, TypeOK
  <2>5. ligne'.score = loc[q].lu.score /\ (aJour' => ligne'.score = Score(profil'))
    BY <2>1 DEF Suivi, Lu, AvantHistorique
  <2>. QED
    BY <1>2, <2>1, <2>2, <2>3, <2>4, <2>5 DEF Suivi, AvantHistorique
<1>. QED
  BY <1>3, <1>4, <1>5, <1>6, <1>7

LEMMA ScoreTenuInduit ==
  ASSUME Typage, ScoreTenu, [Next]_vars
  PROVE  ScoreTenu'
<1>1. courseScore => courseScore'
  BY CoursesDurent
<1>2. SUFFICES ASSUME ~courseScore' PROVE Suivi'
  BY DEF ScoreTenu
<1>3. Suivi /\ UnCalcul /\ UnCalcul'
  BY <1>1, <1>2, UnCalculInduit DEF ScoreTenu, Suivi
<1>4. CASE \E q \in Requetes : \/ LireStatistiques(q) \/ LireAncien(q) \/ EcrireScore(q)
                               \/ Notifier(q) \/ Historiser(q)
  BY <1>2, <1>3, <1>4, SuiviCalcul
<1>5. CASE \E q \in Requetes : \/ LireDossier(q) \/ ChercherDossier(q) \/ CreerDossier(q)
                               \/ SauverPdf(q) \/ LireBadge(q) \/ CreerBadge(q)
                               \/ EcrireDossier(q) \/ CreerCommission(q)
  <2>1. PICK q \in Requetes : \/ LireDossier(q) \/ ChercherDossier(q) \/ CreerDossier(q)
                              \/ SauverPdf(q) \/ LireBadge(q) \/ CreerBadge(q)
                              \/ EcrireDossier(q) \/ CreerCommission(q)
    BY <1>5
  <2>2. /\ PasseCalcul(q) \/ PasseDecision(q)
        /\ \A p \in Requetes \ {q} : pc'[p] = pc[p] /\ loc'[p] = loc[p]
    BY <2>1, Table, UnSeul DEF Poursuivre
  <2>3. /\ UNCHANGED <<profil, ligne, historique, aJour, annonce>>
        /\ pc[q] \in {"libre", "chercherDossier", "creerDossier", "sauverPdf", "lireBadge",
                      "creerBadge", "ecrireDossier", "commission"}
    BY <2>1 DEF LireDossier, ChercherDossier, CreerDossier, SauverPdf, LireBadge, CreerBadge,
       EcrireDossier, CreerCommission, rowVars, histVars
  <2>4. pc'[q] # "lireAncien"
    BY <2>1 DEF LireDossier, ChercherDossier, CreerDossier, SauverPdf, LireBadge, CreerBadge,
       EcrireDossier, CreerCommission, Vers, Repondre, Typage
  <2>5. pc[q] \notin AvantHistorique /\ pc'[q] \notin AvantHistorique
    BY <2>2, <2>3, <2>4 DEF PasseCalcul, PasseDecision, Va, Repond, AvantHistorique
  <2>. QED
    BY <1>3, <2>2, <2>3, <2>5, SuiviNeutre
<1>6. CASE Vieillir \/ UNCHANGED vars
  <2>1. UNCHANGED <<profil, ligne, historique, aJour, annonce, pc, loc>>
    BY <1>6 DEF Vieillir, vars, histVars, procVars, rowVars
  <2>. QED
    BY <1>3, <2>1, SuiviNeutre
<1>7. CASE Evoluer
  <2>1. aJour' = FALSE /\ UNCHANGED <<ligne, historique, annonce, pc, loc>>
    BY <1>7 DEF Evoluer, procVars, rowVars
  <2>2. \A p \in Requetes : Lu(p)'
    BY <1>3, <2>1 DEF Suivi, Lu
  <2>. QED
    BY <1>3, <2>1, <2>2 DEF Suivi
<1>8. CASE Panne
  <2>1. /\ aJour' = FALSE /\ UNCHANGED ligne
        /\ \A p \in Requetes : pc'[p] = "libre"
        /\ annonce' = (annonce \/ \E q \in Requetes : pc[q] = "notifier")
    BY <1>8 DEF Panne, rowVars
  <2>2. \A p \in Requetes : Lu(p)'
    BY <2>1 DEF Lu, AvantHistorique
  <2>. QED
    BY <1>3, <2>1, <2>2 DEF Suivi, AvantHistorique
<1>. QED
  BY <1>4, <1>5, <1>6, <1>7, <1>8 DEF Next, Poursuivre

(* With no scoring under way the row, the last snapshot and the tables     *)
(* agree and an eligible client was told so, unless two scorings met.      *)
THEOREM ScoreSuivi == Spec => []ScoreAJour
<1>1. Init => ScoreTenu
  BY ReposType DEF Init, ScoreTenu, Suivi, UnCalcul, Calcule, Lu, AvantHistorique, Eligible,
     Vide, SEUIL_SCORE_MICRO_CREDIT
<1>2. Typage /\ ScoreTenu /\ [Next]_vars => ScoreTenu'
  BY ScoreTenuInduit
<1>3. Typage /\ ScoreTenu => ScoreAJour
  <2>. SUFFICES ASSUME Typage, Suivi, \A q \in Requetes : ~Calcule(q), aJour
       PROVE  /\ ligne.score = Score(profil)
              /\ historique[Len(historique)] = ligne.score
              /\ Eligible(ligne.score) => annonce
    BY DEF ScoreTenu, ScoreAJour
  <2>1. \A q \in Requetes : pc[q] \notin AvantHistorique /\ pc[q] # "notifier"
    BY DEF Typage, EtapeOK, EtapesCalcul, AvantHistorique
  <2>. QED
    BY <2>1 DEF Suivi
<1>. QED
  BY <1>1, <1>2, <1>3, ScoreTypes, PTL DEF Spec

-----------------------------------------------------------------------------
(* Badges.                                                                 *)

(* The level that is written is above those that are there.                *)
LEMMA BadgesInduit ==
  ASSUME Typage, BadgesTenus, [Next]_vars
  PROVE  BadgesTenus'
<1>1. SUFFICES ASSUME ~courseScore' PROVE Badges'
  BY DEF BadgesTenus
<1>2. Badges /\ UnCalcul'
  BY <1>1, CoursesDurent, UnCalculInduit DEF BadgesTenus, Badges
<1>0. badges \in Seq(Niveaux) /\ \A q \in Requetes : EtapeOK(q)
  BY DEF Typage, TypeOK
<1>3. ASSUME badges' = badges,
             \A p \in Requetes : (pc'[p] = pc[p] /\ loc'[p] = loc[p]) \/ pc'[p] # "creerBadge"
      PROVE  Badges'
  BY <1>2, <1>3 DEF Badges
<1>4. CASE \E q \in Requetes : LireStatistiques(q) \/ LireDossier(q) \/ Poursuivre(q)
  <2>1. PICK q \in Requetes : LireStatistiques(q) \/ LireDossier(q) \/ Poursuivre(q)
    BY <1>4
  <2>2. /\ \A p \in Requetes \ {q} : pc'[p] = pc[p] /\ loc'[p] = loc[p]
        /\ PasseCalcul(q) \/ PasseDecision(q)
    BY <2>1, UnSeul, Table
  <2>3. CASE LireBadge(q)
    <3>1. badges' = badges /\ pc[q] = "lireBadge"
      BY <2>3 DEF LireBadge, rowVars
    <3>2. CASE pc'[q] = "creerBadge"
      <4>1. ~DejaAtteint(loc'[q].n) /\ loc'[q].n \in Niveaux
        BY <2>2, <3>1, <3>2 DEF PasseCalcul, PasseDecision, Va, Repond
      <4>2. \A i \in DOMAIN badges : badges[i] < loc'[q].n
        <5>. SUFFICES ASSUME NEW i \in DOMAIN badges PROVE badges[i] < loc'[q].n
          OBVIOUS
        <5>. DEFINE k == Len(badges)
        <5>1. k \in DOMAIN badges /\ i \in Nat /\ k \in Nat /\ i <= k /\ badges # <<>>
          BY <1>0
        <5>2. badges[i] \in Niveaux /\ badges[k] \in Niveaux
          BY <1>0, <5>1
        <5>3. ~(badges[k] >= loc'[q].n)
          BY <4>1, <5>1 DEF DejaAtteint
        <5>4. i = k \/ badges[i] < badges[k]
          BY <1>2, <5>1 DEF Badges
        <5>. QED
          BY <4>1, <5>2, <5>3, <5>4 DEF Niveaux
      <4>. QED
        BY <1>2, <2>2, <3>1, <4>2 DEF Badges
    <3>. QED
      BY <1>3, <2>2, <3>1, <3>2
  <2>4. CASE CreerBadge(q)
    <3>1. /\ pc[q] = "creerBadge" /\ badges' = Append(badges, loc[q].n) /\ pc'[q] = "libre"
          /\ loc[q].n \in Niveaux /\ Calcule(q)
      BY <1>0, <2>4 DEF CreerBadge, Repondre, Vers, Typage, EtapeOK, EtapesCalcul
    <3>2. \A p \in Requetes : pc'[p] # "creerBadge"
      BY <1>0, <1>2, <2>2, <3>1 DEF Badges, UnCalcul, EtapeOK, EtapesCalcul
    <3>3. \A i, j \in DOMAIN badges' : i < j => badges'[i] < badges'[j]
      <4>. SUFFICES ASSUME NEW i \in DOMAIN badges', NEW j \in DOMAIN badges', i < j
           PROVE  badges'[i] < badges'[j]
        OBVIOUS
      <4>. DEFINE k == Len(badges)
      <4>1. /\ k \in Nat /\ DOMAIN badges = 1 .. k /\ DOMAIN badges' = 1 .. (k + 1)
            /\ badges'[k + 1] = loc[q].n /\ \A d \in 1 .. k : badges'[d] = badges[d]
        BY <1>0, <3>1
      <4>2. i \in 1 .. k
        BY <4>1
      <4>3. CASE j \in 1 .. k
        BY <1>2, <4>1, <4>2, <4>3 DEF Badges
      <4>4. CASE j = k + 1
        BY <1>2, <3>1, <4>1, <4>2, <4>4 DEF Badges
      <4>. QED
        BY <4>1, <4>3, <4>4
    <3>. QED
      BY <1>2, <3>2, <3>3 DEF Badges
  <2>5. CASE ~LireBadge(q) /\ ~CreerBadge(q)
    <3>1. badges' = badges /\ pc[q] # "lireBadge"
      BY <2>1, <2>5 DEF LireStatistiques, LireDossier, Poursuivre, LireAncien, EcrireScore, Notifier,
         Historiser, ChercherDossier, CreerDossier, SauverPdf, EcrireDossier, CreerCommission,
         rowVars
    <3>2. pc'[q] # "creerBadge"
      BY <2>2, <3>1 DEF PasseCalcul, PasseDecision, Va, Repond
    <3>. QED
      BY <1>3, <2>2, <3>1, <3>2
  <2>. QED
    BY <2>3, <2>4, <2>5
<1>5. CASE Exterieur
  <2>1. badges' = badges
    BY <1>5 DEF Exterieur, Evoluer, Vieillir, Panne, vars, rowVars
  <2>. QED
    BY <1>3, <1>5, <2>1, ExterieurProcs
<1>. QED
  BY <1>4, <1>5 DEF Next, Exterieur

-----------------------------------------------------------------------------
(* Files.                                                                  *)

(* What a step does to a file that was there.                              *)
LEMMA DossierSuit ==
  ASSUME Typage, [Next]_vars, NEW d \in DOMAIN dossiers
  PROVE  \/ DossierPareil(d) \/ DossierImprime(d) \/ DossierVieilli(d)
         \/ \E q \in Requetes : DossierSigne(d, q) \/ DossierPaye(d, q)
<1>1. CASE \E q \in Requetes : LireStatistiques(q) \/ LireDossier(q) \/ Poursuivre(q)
  <2>1. PICK q \in Requetes : LireStatistiques(q) \/ LireDossier(q) \/ Poursuivre(q)
    BY <1>1
  <2>2. CASE SauverPdf(q) \/ EcrireDossier(q) \/ CreerCommission(q) \/ CreerDossier(q)
    BY <2>2, SauverPdfDit, EcrireDossierDit, CreerCommissionDit, CreerDossierDit
  <2>3. dossiers' = dossiers => DossierPareil(d)
    BY DEF DossierPareil
  <2>. QED
    BY <2>1, <2>2, <2>3, DossiersLaisses DEF Poursuivre
<1>2. CASE Vieillir
  BY <1>2, VieillirDit
<1>3. CASE Evoluer \/ Panne \/ UNCHANGED vars
  BY <1>3 DEF Evoluer, Panne, vars, rowVars, DossierPareil
<1>. QED
  BY <1>1, <1>2, <1>3 DEF Next

(* A file that was not there was just made.                                *)
LEMMA DossierNouveau ==
  ASSUME Typage, [Next]_vars, NEW d \in DOMAIN dossiers', d \notin DOMAIN dossiers
  PROVE  /\ \E q \in Requetes : CreerDossier(q)
         /\ d = Len(dossiers') /\ dossiers'[d].statut = "GENERE" /\ dossiers'[d].commissions = 0
<1>1. CASE \E q \in Requetes : LireStatistiques(q) \/ LireDossier(q) \/ Poursuivre(q)
  <2>1. PICK q \in Requetes : LireStatistiques(q) \/ LireDossier(q) \/ Poursuivre(q)
    BY <1>1
  <2>2. CASE CreerDossier(q)
    BY <2>2, CreerDossierDit
  <2>3. CASE SauverPdf(q) \/ EcrireDossier(q) \/ CreerCommission(q)
    BY <2>3, SauverPdfDit, EcrireDossierDit, CreerCommissionDit
  <2>. QED
    BY <2>1, <2>2, <2>3, DossiersLaisses DEF Poursuivre
<1>2. CASE Exterieur
  BY <1>2, VieillirDit DEF Exterieur, Evoluer, Panne, vars, rowVars
<1>. QED
  BY <1>1, <1>2 DEF Next, Exterieur

(* The columns of a file after a step.                                     *)
LEMMA ColonnesDe ==
  ASSUME NEW r \in DossierPADME
  PROVE  /\ [r EXCEPT !.pdf = TRUE].statut = r.statut
         /\ [r EXCEPT !.pdf = TRUE].commissions = r.commissions
         /\ [r EXCEPT !.recent = FALSE].statut = r.statut
         /\ [r EXCEPT !.recent = FALSE].commissions = r.commissions
         /\ [r EXCEPT !.recent = FALSE].recent = FALSE
         /\ [r EXCEPT !.commissions = @ + 1].statut = r.statut
         /\ [r EXCEPT !.commissions = @ + 1].commissions = r.commissions + 1
         /\ \A s : [r EXCEPT !.statut = s].statut = s
         /\ \A s : [r EXCEPT !.statut = s].commissions = r.commissions
  BY DEF DossierPADME

(* The statut of a file is signed by one slot, or stays; its commissions   *)
(* are paid by one slot, or stay.                                          *)
LEMMA ColonnesSuivent ==
  ASSUME Typage, [Next]_vars, NEW d \in DOMAIN dossiers
  PROVE  /\ \/ dossiers'[d].statut = dossiers[d].statut
            \/ \E q \in Requetes : /\ DossierSigne(d, q)
                                   /\ dossiers'[d].statut = loc[q].statut
         /\ \/ dossiers'[d].commissions = dossiers[d].commissions
            \/ \E q \in Requetes : /\ DossierPaye(d, q)
                                   /\ dossiers'[d].commissions = dossiers[d].commissions + 1
         /\ (\E q \in Requetes : DossierSigne(d, q))
              => dossiers'[d].commissions = dossiers[d].commissions
         /\ (\E q \in Requetes : DossierPaye(d, q)) => dossiers'[d].statut = dossiers[d].statut
<1>1. PICK r : r = dossiers[d]
  OBVIOUS
<1>2. r \in DossierPADME
  BY <1>1 DEF Typage, TypeOK
<1>3. ASSUME NEW q \in Requetes, DossierSigne(d, q)
      PROVE  /\ dossiers'[d].statut = loc[q].statut
             /\ dossiers'[d].commissions = dossiers[d].commissions
  BY <1>1, <1>2, <1>3, ColonnesDe DEF DossierSigne
<1>4. ASSUME NEW q \in Requetes, DossierPaye(d, q)
      PROVE  /\ dossiers'[d].statut = dossiers[d].statut
             /\ dossiers'[d].commissions = dossiers[d].commissions + 1
  BY <1>1, <1>2, <1>4, ColonnesDe DEF DossierPaye
<1>5. DossierPareil(d) \/ DossierImprime(d) \/ DossierVieilli(d) =>
        /\ dossiers'[d].statut = dossiers[d].statut
        /\ dossiers'[d].commissions = dossiers[d].commissions
  BY <1>1, <1>2, ColonnesDe DEF DossierPareil, DossierImprime, DossierVieilli
<1>. QED
  BY <1>3, <1>4, <1>5, DossierSuit

(* An old file stays old.                                                  *)
LEMMA ResteAncien ==
  ASSUME Typage, [Next]_vars, NEW d \in DOMAIN dossiers
  PROVE  dossiers'[d].recent => dossiers[d].recent
<1>1. PICK r : r = dossiers[d]
  OBVIOUS
<1>2. r \in DossierPADME
  BY <1>1 DEF Typage, TypeOK
<1>3. /\ ([r EXCEPT !.pdf = TRUE].recent => r.recent)
      /\ ([r EXCEPT !.commissions = @ + 1].recent => r.recent)
      /\ \A s : [r EXCEPT !.statut = s].recent => r.recent
  BY <1>2 DEF DossierPADME
<1>4. ~[r EXCEPT !.recent = FALSE].recent
  BY <1>2 DEF DossierPADME
<1>5. CASE DossierPareil(d)
  BY <1>5 DEF DossierPareil
<1>6. CASE DossierImprime(d)
  BY <1>1, <1>3, <1>6 DEF DossierImprime
<1>7. CASE DossierVieilli(d)
  BY <1>1, <1>4, <1>7 DEF DossierVieilli
<1>8. CASE \E q \in Requetes : DossierSigne(d, q) \/ DossierPaye(d, q)
  BY <1>1, <1>3, <1>8 DEF DossierSigne, DossierPaye
<1>. QED
  BY <1>5, <1>6, <1>7, <1>8, DossierSuit

(* Only one decision is under way while no two administrators meet.        *)
UneDecision == \A p, q \in Requetes : Decide(p) /\ Decide(q) => p = q

LEMMA UneDecisionInduit ==
  ASSUME Typage, UneDecision, [Next]_vars, ~courseDossier'
  PROVE  UneDecision'
<1>0. \A q \in Requetes : EtapeOK(q)
  BY DEF Typage
<1>1. CASE \E q \in Requetes : LireDossier(q)
  <2>1. PICK q \in Requetes : LireDossier(q)
    BY <1>1
  <2>2. \A p \in Requetes : ~Decide(p)
    BY <2>1 DEF LireDossier
  <2>3. \A p \in Requetes \ {q} : loc'[p] = loc[p]
    BY <2>1, UnSeul
  <2>. QED
    BY <2>2, <2>3 DEF UneDecision, Decide
<1>2. CASE \E q \in Requetes : LireStatistiques(q) \/ Poursuivre(q)
  <2>1. PICK q \in Requetes : LireStatistiques(q) \/ Poursuivre(q)
    BY <1>2
  <2>2. \A p \in Requetes \ {q} : loc'[p] = loc[p]
    BY <2>1, UnSeul
  <2>3. EtapeOK(q)' /\ (PasseCalcul(q) \/ PasseDecision(q))
    BY <2>1, Table
  <2>4. ~Va(q, "libre", "ecrireDossier")
    BY <2>1 DEF Va, LireStatistiques, Poursuivre, LireAncien, EcrireScore, Notifier, Historiser,
       ChercherDossier, CreerDossier, SauverPdf, LireBadge, CreerBadge, EcrireDossier,
       CreerCommission, Vers, Typage
  <2>5. Decide(q)' => Decide(q)
    BY <1>0, <2>3, <2>4, ReposType DEF EtapeOK, EtapesCalcul, EtapesDecision, Va, Repond, Garde,
       PasseCalcul, PasseDecision, Decide
  <2>. QED
    BY <2>2, <2>5 DEF UneDecision, Decide
<1>3. CASE Exterieur
  BY <1>3, ExterieurProcs, ReposType DEF UneDecision, Decide
<1>. QED
  BY <1>1, <1>2, <1>3 DEF Next, Exterieur

(* Where a slot that will write a decision or pay comes from.              *)
LEMMA DOuVient ==
  ASSUME Typage, [Next]_vars, NEW q \in Requetes
  PROVE  /\ pc'[q] = "ecrireDossier" =>
              \/ pc[q] = "ecrireDossier" /\ loc'[q] = loc[q]
              \/ /\ pc[q] = "libre" /\ dossiers' = dossiers
                 /\ loc'[q].n \in DOMAIN dossiers
                 /\ loc'[q].statut \in SuitesDe(dossiers[loc'[q].n].statut)
                 /\ courseDossier' = (courseDossier \/ \E p \in Requetes : Decide(p))
         /\ pc'[q] = "commission" =>
              \/ pc[q] = "commission" /\ loc'[q] = loc[q]
              \/ /\ pc[q] = "ecrireDossier" /\ loc'[q] = loc[q]
                 /\ loc[q].statut = "ACCEPTE" /\ DossierSigne(loc[q].n, q)
<1>1. CASE LireStatistiques(q) \/ LireDossier(q) \/ Poursuivre(q)
  <2>1. PasseCalcul(q) \/ PasseDecision(q)
    BY <1>1, Table
  <2>2. ASSUME pc'[q] = "ecrireDossier"
        PROVE  /\ pc[q] = "libre" /\ dossiers' = dossiers /\ loc'[q].n \in DOMAIN dossiers
               /\ loc'[q].statut \in SuitesDe(dossiers[loc'[q].n].statut)
               /\ courseDossier' = (courseDossier \/ \E p \in Requetes : Decide(p))
    <3>1. /\ pc[q] = "libre" /\ loc'[q].n \in DOMAIN dossiers
          /\ loc'[q].statut \in SuitesDe(dossiers[loc'[q].n].statut)
          /\ courseDossier' = (courseDossier \/ \E p \in Requetes : Decide(p))
      BY <2>1, <2>2 DEF PasseCalcul, PasseDecision, Va, Repond
    <3>2. ~SauverPdf(q) /\ ~EcrireDossier(q) /\ ~CreerCommission(q) /\ ~CreerDossier(q)
      BY <3>1 DEF SauverPdf, EcrireDossier, CreerCommission, CreerDossier
    <3>. QED
      BY <1>1, <3>1, <3>2, DossiersLaisses DEF Poursuivre
  <2>3. ASSUME pc'[q] = "commission"
        PROVE  /\ pc[q] = "ecrireDossier" /\ loc'[q] = loc[q]
               /\ loc[q].statut = "ACCEPTE" /\ DossierSigne(loc[q].n, q)
    <3>1. /\ pc[q] = "ecrireDossier" /\ loc'[q] = loc[q] /\ loc[q].statut = "ACCEPTE"
      BY <2>1, <2>3 DEF PasseCalcul, PasseDecision, Va, Repond, Garde
    <3>2. EcrireDossier(q)
      BY <1>1, <3>1 DEF LireStatistiques, LireDossier, Poursuivre, LireAncien, EcrireScore, Notifier,
         Historiser, ChercherDossier, CreerDossier, SauverPdf, LireBadge, CreerBadge,
         CreerCommission
    <3>. QED
      BY <3>1, <3>2, EcrireDossierDit
  <2>. QED
    BY <2>2, <2>3
<1>2. CASE \E p \in Requetes \ {q} : LireStatistiques(p) \/ LireDossier(p) \/ Poursuivre(p)
  <2>1. pc'[q] = pc[q] /\ loc'[q] = loc[q]
    BY <1>2, UnSeul
  <2>. QED
    BY <2>1
<1>3. CASE Exterieur
  BY <1>3, ExterieurProcs
<1>. QED
  BY <1>1, <1>2, <1>3 DEF Next, Exterieur


(* What one administrator read still holds, and a file is paid once.       *)
LEMMA DossiersInduit ==
  ASSUME Typage, DossiersTenus, [Next]_vars
  PROVE  DossiersTenus'
<1>1. SUFFICES ASSUME ~courseDossier' PROVE Decisions'
  BY DEF DossiersTenus
<1>2. Decisions /\ UneDecision /\ UneDecision'
  BY <1>1, CoursesDurent, UneDecisionInduit DEF DossiersTenus, Decisions, UneDecision
<1>0. /\ \A q \in Requetes : EtapeOK(q)
      /\ \A d \in DOMAIN dossiers : dossiers[d] \in DossierPADME
  BY DEF Typage, TypeOK
<1>3. \A p, q \in Requetes :
        pc[p] \in EtapesDecision /\ pc[q] \in EtapesDecision => p = q
  BY <1>0, <1>2 DEF UneDecision, EtapeOK
<1>4. ASSUME NEW d \in DOMAIN dossiers, NEW q \in Requetes, DossierSigne(d, q)
      PROVE  loc[q].statut \in SuitesDe(dossiers[d].statut)
  BY <1>2, <1>4 DEF Decisions, DossierSigne
<1>5. ASSUME NEW q \in Requetes, pc'[q] = "ecrireDossier"
      PROVE  loc'[q].statut \in SuitesDe(dossiers'[loc'[q].n].statut)
  <2>1. CASE pc[q] = "ecrireDossier" /\ loc'[q] = loc[q]
    <3>1. loc[q].n \in DOMAIN dossiers /\ loc[q].statut \in SuitesDe(dossiers[loc[q].n].statut)
      BY <1>0, <1>2, <2>1 DEF Decisions, EtapeOK, EtapesDecision
    <3>2. \A p \in Requetes : ~DossierSigne(loc[q].n, p)
      BY <1>3, <1>5, <2>1 DEF DossierSigne, EtapesDecision
    <3>3. dossiers'[loc[q].n].statut = dossiers[loc[q].n].statut
      BY <3>1, <3>2, ColonnesSuivent
    <3>. QED
      BY <2>1, <3>1, <3>3
  <2>. QED
    BY <1>5, <2>1, DOuVient
<1>6. ASSUME NEW q \in Requetes, pc'[q] = "commission"
      PROVE  dossiers'[loc'[q].n].statut = "ACCEPTE" /\ dossiers'[loc'[q].n].commissions = 0
  <2>. DEFINE d == loc[q].n
  <2>1. loc'[q] = loc[q] /\ pc[q] \in EtapesDecision
    BY <1>6, DOuVient DEF EtapesDecision
  <2>2. d \in DOMAIN dossiers
    BY <1>0, <2>1 DEF EtapeOK
  <2>3. \A p \in Requetes : ~DossierPaye(d, p)
    BY <1>3, <1>6, <2>1 DEF DossierPaye, Va, EtapesDecision
  <2>4. dossiers'[d].commissions = dossiers[d].commissions
    BY <2>2, <2>3, ColonnesSuivent
  <2>5. CASE pc[q] = "commission"
    <3>1. dossiers[d].statut = "ACCEPTE" /\ dossiers[d].commissions = 0
      BY <1>2, <2>5 DEF Decisions
    <3>2. \A p \in Requetes : ~DossierSigne(d, p)
      BY <1>3, <2>1, <2>5 DEF DossierSigne, EtapesDecision
    <3>3. dossiers'[d].statut = dossiers[d].statut
      BY <2>2, <3>2, ColonnesSuivent
    <3>. QED
      BY <2>1, <2>4, <3>1, <3>3
  <2>6. CASE pc[q] = "ecrireDossier" /\ loc[q].statut = "ACCEPTE" /\ DossierSigne(d, q)
    <3>1. "ACCEPTE" \in SuitesDe(dossiers[d].statut)
      BY <1>4, <2>2, <2>6
    <3>2. dossiers[d].statut = "SOUMIS_PADME"
      BY <1>0, <2>2, <3>1, SuitesDit DEF DossierPADME, StatutDossierPADME
    <3>3. dossiers[d].commissions = 0
      BY <1>2, <2>2, <3>2, RangDit DEF Decisions
    <3>4. dossiers[d] \in DossierPADME
      BY <1>0, <2>2
    <3>5. dossiers'[d].statut = "ACCEPTE"
      BY <2>6, <3>4, ColonnesDe DEF DossierSigne
    <3>. QED
      BY <2>1, <2>4, <3>3, <3>5
  <2>. QED
    BY <1>6, <2>5, <2>6, DOuVient
<1>7. ASSUME NEW d \in DOMAIN dossiers'
      PROVE  /\ dossiers'[d].commissions <= 1
             /\ Rang[dossiers'[d].statut] < 3 => dossiers'[d].commissions = 0
  <2>1. CASE d \notin DOMAIN dossiers
    BY <2>1, DossierNouveau
  <2>2. CASE d \in DOMAIN dossiers
    <3>1. /\ dossiers[d].commissions <= 1 /\ dossiers[d].commissions \in Nat
          /\ dossiers[d].statut \in StatutDossierPADME
          /\ Rang[dossiers[d].statut] < 3 => dossiers[d].commissions = 0
      BY <1>0, <1>2, <2>2 DEF Decisions, DossierPADME
    <3>2. CASE \E q \in Requetes : DossierPaye(d, q)
      <4>1. PICK q \in Requetes : DossierPaye(d, q)
        BY <3>2
      <4>2. dossiers[d].statut = "ACCEPTE" /\ dossiers[d].commissions = 0
        BY <1>2, <4>1 DEF Decisions, DossierPaye, Va
      <4>3. dossiers'[d].statut = "ACCEPTE" /\ dossiers'[d].commissions \in {0, 1}
        BY <2>2, <3>2, <4>2, ColonnesSuivent
      <4>. QED
        BY <4>3, RangDit
    <3>3. CASE ~\E q \in Requetes : DossierPaye(d, q)
      <4>1. dossiers'[d].commissions = dossiers[d].commissions
        BY <2>2, <3>3, ColonnesSuivent
      <4>2. CASE dossiers'[d].statut = dossiers[d].statut
        BY <3>1, <4>1, <4>2
      <4>3. CASE \E q \in Requetes : DossierSigne(d, q)
        <5>1. SuitesDe(dossiers[d].statut) # {}
          BY <1>4, <2>2, <4>3
        <5>2. Rang[dossiers[d].statut] < 3
          BY <3>1, <5>1, SuitesDit, RangDit DEF StatutDossierPADME
        <5>. QED
          BY <3>1, <4>1, <5>2
      <4>. QED
        BY <2>2, <4>2, <4>3, ColonnesSuivent
    <3>. QED
      BY <3>2, <3>3
  <2>. QED
    BY <2>1, <2>2
<1>. QED
  BY <1>2, <1>5, <1>6, <1>7 DEF Decisions, UneDecision

LEMMA DossiersInit == Init => DossiersTenus
  BY ReposType DEF Init, DossiersTenus, Decisions, Decide

(* Step by step to one result, and one commission.                         *)
THEOREM DossiersAvancent == Spec => DossierAvance
<1>1. Typage /\ DossiersTenus /\ [Next]_vars => DossiersTenus'
  BY DossiersInduit
<1>2. Spec => []DossiersTenus
  BY <1>1, DossiersInit, ScoreTypes, PTL DEF Spec
<1>3. ASSUME Typage, DossiersTenus, DossiersTenus', [Next]_vars
      PROVE  \A d \in DOMAIN dossiers :
               \/ courseDossier'
               \/ /\ Rang[dossiers'[d].statut] - Rang[dossiers[d].statut] \in 0 .. 1
                  /\ Rang[dossiers[d].statut] = 3 => dossiers'[d].statut = dossiers[d].statut
                  /\ dossiers'[d].commissions <= 1
  <2>. SUFFICES ASSUME NEW d \in DOMAIN dossiers, ~courseDossier'
       PROVE  /\ Rang[dossiers'[d].statut] - Rang[dossiers[d].statut] \in 0 .. 1
              /\ Rang[dossiers[d].statut] = 3 => dossiers'[d].statut = dossiers[d].statut
              /\ dossiers'[d].commissions <= 1
    OBVIOUS
  <2>1. Decisions /\ Decisions' /\ d \in DOMAIN dossiers'
    BY <1>3, CoursesDurent, DomaineCroit DEF DossiersTenus
  <2>2. dossiers'[d].commissions <= 1
    BY <2>1 DEF Decisions
  <2>3. dossiers[d].statut \in StatutDossierPADME
    <3>1. dossiers[d] \in DossierPADME
      BY <1>3 DEF Typage, TypeOK
    <3>. QED
      BY <3>1 DEF DossierPADME
  <2>4. CASE dossiers'[d].statut = dossiers[d].statut
    BY <2>2, <2>3, <2>4, RangDit DEF StatutDossierPADME
  <2>5. CASE \E q \in Requetes : DossierSigne(d, q) /\ dossiers'[d].statut = loc[q].statut
    <3>1. dossiers'[d].statut \in SuitesDe(dossiers[d].statut)
      BY <2>1, <2>5 DEF Decisions, DossierSigne
    <3>. QED
      BY <2>2, <2>3, <3>1, RangDit, SuitesDit DEF StatutDossierPADME
  <2>. QED
    BY <1>3, <2>4, <2>5, ColonnesSuivent
<1>4. Typage /\ DossiersTenus /\ DossiersTenus' /\ [Next]_vars =>
        [\A d \in DOMAIN dossiers :
            \/ courseDossier'
            \/ /\ Rang[dossiers'[d].statut] - Rang[dossiers[d].statut] \in 0 .. 1
               /\ Rang[dossiers[d].statut] = 3 => dossiers'[d].statut = dossiers[d].statut
               /\ dossiers'[d].commissions <= 1]_vars
  BY <1>3
<1>. QED
  BY <1>2, <1>4, ScoreTypes, PTL DEF Spec, DossierAvance

(* A recent file in the administration was one before, or was just made.   *)
LEMMA EnRouteVient ==
  ASSUME Typage, DossiersTenus, ~courseDossier, [Next]_vars, NEW d \in DOMAIN dossiers, EnRoute(d)'
  PROVE  EnRoute(d)
<1>0. dossiers[d].statut \in StatutDossierPADME
  <2>1. dossiers[d] \in DossierPADME
    BY DEF Typage, TypeOK
  <2>. QED
    BY <2>1 DEF DossierPADME
<1>1. dossiers[d].recent
  BY ResteAncien DEF EnRoute
<1>2. CASE dossiers'[d].statut = dossiers[d].statut
  BY <1>1, <1>2 DEF EnRoute
<1>3. CASE \E q \in Requetes : DossierSigne(d, q)
  <2>1. SuitesDe(dossiers[d].statut) # {}
    BY <1>3 DEF DossiersTenus, Decisions, DossierSigne
  <2>. QED
    BY <1>0, <1>1, <2>1, SuitesDit DEF EnRoute, EnTraitement, StatutDossierPADME
<1>. QED
  BY <1>2, <1>3, ColonnesSuivent

(* Where a slot that is about to make a file comes from.                   *)
LEMMA CreeDoncVide ==
  ASSUME Typage, [Next]_vars, NEW q \in Requetes, pc'[q] = "creerDossier"
  PROVE  \/ pc[q] = "creerDossier"
         \/ dossiers' = dossiers /\ \A d \in DOMAIN dossiers : ~EnRoute(d)
<1>1. CASE LireStatistiques(q) \/ LireDossier(q) \/ Poursuivre(q)
  <2>1. PasseCalcul(q) \/ PasseDecision(q)
    BY <1>1, Table
  <2>2. pc[q] = "chercherDossier" /\ \A d \in DOMAIN dossiers : ~EnRoute(d)
    BY <2>1 DEF PasseCalcul, PasseDecision, Va, Repond
  <2>3. ~SauverPdf(q) /\ ~EcrireDossier(q) /\ ~CreerCommission(q) /\ ~CreerDossier(q)
    BY <2>2 DEF SauverPdf, EcrireDossier, CreerCommission, CreerDossier
  <2>. QED
    BY <1>1, <2>2, <2>3, DossiersLaisses DEF Poursuivre
<1>2. CASE \E p \in Requetes \ {q} : LireStatistiques(p) \/ LireDossier(p) \/ Poursuivre(p)
  BY <1>2, UnSeul
<1>3. CASE Exterieur
  BY <1>3, ExterieurProcs
<1>. QED
  BY <1>1, <1>2, <1>3 DEF Next, Exterieur

LEMMA UnDossierInduit ==
  ASSUME Typage, DossiersTenus, UnDossierTenu, [Next]_vars
  PROVE  UnDossierTenu'
<1>1. SUFFICES ASSUME ~courseScore', ~courseDossier' PROVE UnDossier'
  BY DEF UnDossierTenu
<1>2. UnDossier /\ UnCalcul /\ UnCalcul' /\ ~courseDossier
  BY <1>1, CoursesDurent, UnCalculInduit DEF UnDossierTenu, UnDossier
<1>0. \A q \in Requetes : EtapeOK(q)
  BY DEF Typage
<1>3. \A d \in DOMAIN dossiers : EnRoute(d)' => EnRoute(d)
  BY <1>2, EnRouteVient
<1>4. ASSUME NEW p \in Requetes, CreerDossier(p)
      PROVE  /\ pc[p] = "creerDossier" /\ \A d \in DOMAIN dossiers : ~EnRoute(d)
             /\ \A q \in Requetes : pc'[q] # "creerDossier"
  <2>1. pc[p] = "creerDossier" /\ pc' = [pc EXCEPT ![p] = "sauverPdf"]
    BY <1>4 DEF CreerDossier, Vers
  <2>2. \A q \in Requetes \ {p} : pc[q] # "creerDossier"
    BY <1>0, <1>2, <2>1 DEF UnCalcul, EtapeOK, EtapesCalcul
  <2>. QED
    BY <1>2, <2>1, <2>2 DEF UnDossier, Typage
<1>5. ASSUME NEW d \in DOMAIN dossiers', NEW e \in DOMAIN dossiers', EnRoute(d)', EnRoute(e)'
      PROVE  d = e
  <2>1. CASE d \in DOMAIN dossiers /\ e \in DOMAIN dossiers
    BY <1>2, <1>3, <1>5, <2>1 DEF UnDossier
  <2>2. CASE d \notin DOMAIN dossiers \/ e \notin DOMAIN dossiers
    <3>1. \E p \in Requetes : CreerDossier(p)
      BY <2>2, DossierNouveau
    <3>2. d \notin DOMAIN dossiers /\ e \notin DOMAIN dossiers
      BY <1>3, <1>4, <1>5, <3>1
    <3>. QED
      BY <3>2, DossierNouveau
  <2>. QED
    BY <2>1, <2>2
<1>6. ASSUME NEW q \in Requetes, pc'[q] = "creerDossier", NEW d \in DOMAIN dossiers'
      PROVE  ~EnRoute(d)'
  <2>1. d \in DOMAIN dossiers
    BY <1>4, <1>6, DossierNouveau
  <2>2. ~EnRoute(d)
    <3>1. CASE pc[q] = "creerDossier"
      BY <1>2, <2>1, <3>1 DEF UnDossier
    <3>2. CASE \A e \in DOMAIN dossiers : ~EnRoute(e)
      BY <2>1, <3>2
    <3>. QED
      BY <1>6, <3>1, <3>2, CreeDoncVide
  <2>. QED
    BY <1>3, <2>1, <2>2
<1>. QED
  BY <1>2, <1>5, <1>6 DEF UnDossier

(* One recent file in the administration and badges that rise, for every   *)
(* number of scorings and of administrators, unless two of them met.       *)
THEOREM RienDeuxFois == Spec => []RienEnDouble
<1>1. Init => BadgesTenus /\ UnDossierTenu
  BY ReposType DEF Init, BadgesTenus, Badges, UnCalcul, Calcule, UnDossierTenu, UnDossier
<1>2. Typage /\ DossiersTenus /\ [Next]_vars => DossiersTenus'
  BY DossiersInduit
<1>3. Typage /\ BadgesTenus /\ [Next]_vars => BadgesTenus'
  BY BadgesInduit
<1>4. Typage /\ DossiersTenus /\ UnDossierTenu /\ [Next]_vars => UnDossierTenu'
  BY UnDossierInduit
<1>5. ASSUME Typage, BadgesTenus, UnDossierTenu PROVE RienEnDouble
  <2>. SUFFICES ASSUME ~courseScore
       PROVE  /\ courseDossier \/ Cardinality({d \in DOMAIN dossiers : EnRoute(d)}) <= 1
              /\ \A i, j \in DOMAIN badges : i < j => badges[i] < badges[j]
    BY DEF RienEnDouble, EnRoute
  <2>. DEFINE T == {d \in DOMAIN dossiers : EnRoute(d)}
  <2>1. CASE ~courseDossier
    <3>1. \A d, e \in T : d = e
      BY <1>5, <2>1 DEF UnDossierTenu, UnDossier
    <3>. HIDE DEF T
    <3>2. T = {} \/ \E d \in T : T = {d}
      BY <3>1
    <3>3. Cardinality(T) <= 1
      <4>1. CASE T = {}
        BY <4>1, FS_EmptySet
      <4>2. CASE \E d \in T : T = {d}
        <5>1. PICK d \in T : T = {d}
          BY <4>2
        <5>2. Cardinality({d}) = 1
          BY FS_Singleton
        <5>. QED
          BY <5>1, <5>2
      <4>. QED
        BY <3>2, <4>1, <4>2
    <3>. QED
      BY <1>5, <3>3 DEF BadgesTenus, Badges, T
  <2>. QED
    BY <1>5, <2>1 DEF BadgesTenus, Badges
<1>6. Typage /\ BadgesTenus /\ UnDossierTenu => RienEnDouble
  BY <1>5
<1>. QED
  BY <1>1, <1>2, <1>3, <1>4, <1>6, DossiersInit, ScoreTypes, PTL DEF Spec
=============================================================================
