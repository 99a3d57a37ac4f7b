------------------------------ MODULE Calendrier ------------------------------
(***************************************************************************)
(* The date arithmetic of the services.  A day is a number, day 0 being    *)
(* 1 January 2023; a month is a number too, month 0 being January 2023.    *)
(* setMonth and setDate of JavaScript keep the other fields and carry what *)
(* does not fit into the following month: 31 January plus one month is     *)
(* 3 March.  They keep the hour as well, which setHours sets: an instant   *)
(* is a day with an hour, 0 being midnight.  A date built from year, month *)
(* and day is at midnight.  The process runs in UTC.                       *)
(***************************************************************************)
EXTENDS Integers, FiniteSetsExt

CONSTANT MaxHeure      \* last instant of a day; only their order matters

ASSUME CalendrierAssumption == MaxHeure \in Nat

Heures == 0 .. MaxHeure

Bissextile(m) ==
    LET annee == 2023 + m \div 12 IN annee % 4 = 0 /\ (annee % 100 # 0 \/ annee % 400 = 0)

\* leap years among the first y from 2023 on
Intercalaires(y) == (y + 2) \div 4 - (y + 22) \div 100 + (y + 22) \div 400

Longueur(m) ==
    CASE m % 12 = 1                -> IF Bissextile(m) THEN 29 ELSE 28
      [] m % 12 \in {3, 5, 8, 10} -> 30
      [] OTHER                     -> 31

\* first day of month m
Debut(m) ==
    LET avant == <<0, 31, 59, 90, 120, 151, 181, 212, 243, 273, 304, 334>> IN
    365 * (m \div 12) + Intercalaires(m \div 12) + avant[(m % 12) + 1]
      + (IF Bissextile(m) /\ m % 12 > 1 THEN 1 ELSE 0)

Mois(n)       == CHOOSE m \in (n \div 31) .. (n \div 28) : Debut(m) <= n /\ n < Debut(m + 1)
JourDuMois(n) == n - Debut(Mois(n)) + 1

\* setMonth(getMonth() + k) and setDate(j)
DecalerMois(n, k) == Debut(Mois(n) + k) + JourDuMois(n) - 1
FixerJour(n, j)   == Debut(Mois(n)) + j - 1
-----------------------------------------------------------------------------
(* The screens that show the last six months                               *)

SixMois == 0 .. 5

\* keys of the six-month series of the score, of the client, of the collector
\* and of the revenue
MoisAffiches(n) == {Mois(DecalerMois(n, -i)) : i \in SixMois}

\* sixMoisDate of those screens, looked at on day n at hour h: setDate(1) leaves
\* the hour of now
DebutAffiche(n, h) == [jour |-> FixerJour(DecalerMois(n, -5), 1), heure |-> h]

\* creeLe: { gte: sixMoisDate }
PasAvant(ligne, debut) ==
    ligne.jour > debut.jour \/ (ligne.jour = debut.jour /\ ligne.heure >= debut.heure)

\* the rows that are read and whose month has a key
Compte6(n, h, lignes) ==
    LET debut == DebutAffiche(n, h)  affiches == MoisAffiches(n) IN
    {ligne \in lignes : PasAvant(ligne, debut) /\ Mois(ligne.jour) \in affiches}

\* calendrierRegularite is the one that sets its bound to midnight; it shows the
\* days of the same months, of the current one up to today.
DebutRegularite(n) == DebutAffiche(n, 0)
CompteRegularite(n, lignes) ==
    LET debut == DebutRegularite(n)  affiches == MoisAffiches(n) IN
    {ligne \in lignes :
        PasAvant(ligne, debut) /\ Mois(ligne.jour) \in affiches /\ ligne.jour <= n}

\* It pushes a block for each of the six, the current month up to today, and totals
\* the days of the blocks.
JoursOuvres(n, m) == IF m = Mois(n) THEN JourDuMois(n) ELSE Longueur(m)
TotalJours(n)     == SumFunctionOnSet([i \in SixMois |-> JoursOuvres(n, Mois(DecalerMois(n, -i)))], SixMois)

\* the administrator's twelve months count from the first of each
MoisAdmin(n) == {Mois(Debut(Mois(n) - i)) : i \in 0 .. 11}
-----------------------------------------------------------------------------
(* The dates the services promise                                          *)

Frequence == {"JOURNALIER", "HEBDOMADAIRE", "MENSUEL", "DATE_FIXE"}

\* mutant: the fixed day of this month is kept although it is today
ProchaineDateAujourdhui(n, frequence, jourFixe) ==
    CASE frequence = "JOURNALIER"   -> n + 1
      [] frequence = "HEBDOMADAIRE" -> n + 7
      [] frequence = "MENSUEL"      -> DecalerMois(n, 1)
      [] frequence = "DATE_FIXE"    ->
            LET ceMois == Debut(Mois(n)) + jourFixe - 1 IN
            IF ceMois >= n THEN ceMois ELSE Debut(Mois(n) + 1) + jourFixe - 1

ProchaineDate(n, frequence, jourFixe) ==
    CASE frequence = "JOURNALIER"   -> n + 1
      [] frequence = "HEBDOMADAIRE" -> n + 7
      [] frequence = "MENSUEL"      -> DecalerMois(n, 1)
      [] frequence = "DATE_FIXE"    ->
            LET ceMois == Debut(Mois(n)) + jourFixe - 1 IN
            IF ceMois > n THEN ceMois ELSE Debut(Mois(n) + 1) + jourFixe - 1

JoursParCotisation(frequence) ==
    CASE frequence = "JOURNALIER"   -> 1
      [] frequence = "HEBDOMADAIRE" -> 7
      [] OTHER                      -> 30

DateFinEstimee(n, cotisations, frequence) == n + cotisations * JoursParCotisation(frequence)

\* what the page of commissions announces: the fifth of next month
ProchainePaie(n) == FixerJour(DecalerMois(n, 1), 5)

\* reports of a month: from its first day to day 0 of the next one
PeriodeDuMois(m) == Debut(m) .. Debut(m + 1) - 1
=============================================================================
