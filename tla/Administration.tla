--------------------------- MODULE Administration ---------------------------
(***************************************************************************)
(* The desks of the administration together.  A behaviour is about one of  *)
(* them, chosen at the start: they share no table, so that their           *)
(* interleavings would add nothing.                                        *)
(***************************************************************************)
EXTENDS Kyc, Litiges, Comptes, Surveillance, Portefeuilles, Abonnements, Echeances

\* Bounds.  Every day of the calendar is looked at once (sujet "calendrier"), from
\* January 2024 to March 2025 and in the first months of 2100, which is no leap
\* year; subscriptions and tontines live a few days around the ends of two months.
PremierMois == 12
MoisVus == PremierMois .. 26 \cup 924 .. 926
Departs == {Debut(13) - 2, Debut(14) - 1}

Init ==
    /\ sujet \in Sujets
    /\ documents = <<>> /\ kycVerifie = FALSE /\ litiges = <<>> /\ alertes = <<>>
    /\ compte \in CompteInitial /\ (sujet # "compte" => Inscrit)
    /\ livre = [solde |-> 0, cotise |-> 0, retire |-> 0, distribue |-> 0]
    /\ equipe = EquipeInitiale /\ visites = {}
    /\ qr = [c \in Collecteurs |-> "aucun"]
    /\ commissions = [c \in Collecteurs |-> [solde |-> 0, gagne |-> 0, verse |-> 0]]
    /\ facturations = [c \in Collecteurs |-> SansFacturation]
    /\ jour \in (IF sujet \in {"abonnement", "echeance"} THEN Departs ELSE {Debut(PremierMois), Debut(924)})
    /\ IF sujet = "echeance" THEN echeance \in EcheanceInitiale(jour)
       ELSE echeance = CHOOSE t \in EcheanceInitiale(jour) : TRUE
    /\ pc = [q \in Requetes |-> "libre"] /\ loc = [q \in Requetes |-> Repos]
    /\ courses = {} /\ ecritures = 0 /\ calme = FALSE

NextKyc(q) == Soumettre(q) \/ CreerDocument(q) \/ LireDocument(q) \/ Decider(q)

NextLitiges(q) == OuvrirLitige(q) \/ CreerLitige(q) \/ LireLitige(q) \/ EcrireLitige(q)

NextComptes(q) ==
    \/ LireTontine(q) \/ EffacerTontine(q) \/ LireSoldes(q) \/ LireCredit(q)
    \/ FermerCompte(q) \/ LireUtilisateur(q) \/ Bannir(q) \/ Effacer(q)

NextSurveillance(q) ==
    \/ LireSolde(q) \/ SommerCotisations(q) \/ SommerRetraits(q) \/ SommerDistributions(q)
    \/ Comparer(q) \/ CreerAlerte(q) \/ LireAlerte(q) \/ EcrireAlerte(q)

NextPortefeuilles(q) ==
    \/ Reassigner(q) \/ LireCollecteur(q) \/ LireAgent(q) \/ LireSuperviseur(q) \/ LireQr(q)
    \/ Lier(q) \/ LireClient(q) \/ Pointer(q)
    \/ ListerClients(q) \/ ListerVisites(q) \/ Afficher(q)
    \/ LireCommission(q) \/ DebiterCommission(q)

NextAbonnements(q) ==
    \/ LireFacturation(q) \/ CreerFacturation(q) \/ LirePlan(q) \/ PasserPro(q)
    \/ FacturerLePremier(q) \/ FacturerAlaMain(q) \/ Prelever(q)

NextEcheances(q) ==
    \/ LireActivation(q) \/ EcrireActivation(q) \/ LireModification(q) \/ Modifier(q)
    \/ ListerEchus(q) \/ Dissoudre(q)

JourSuivant ==
    /\ \/ sujet = "calendrier" /\ Mois(jour + 1) \in MoisVus
       \/ sujet \in {"abonnement", "echeance"} /\ \E d \in Departs : jour \in d .. d + MaxJours
    /\ jour' = jour + 1
    /\ UNCHANGED <<documents, kycVerifie, litiges, compte, livre, alertes, facturations, echeance,
                   terrain, procVars, histVars>>

Next ==
    \/ \E q \in Requetes :
          NextKyc(q) \/ NextLitiges(q) \/ NextComptes(q) \/ NextSurveillance(q)
            \/ NextPortefeuilles(q)
            \/ NextAbonnements(q) \/ NextEcheances(q)
    \/ TerminerInscription \/ CreerTontine \/ Cotiser \/ CotiserAssiste \/ Retirer \/ DemanderCredit \/ ValiderCredit
    \/ FinirCredit \/ ConfirmerPaiement
    \/ Crediter \/ Recrediter \/ Debiter \/ Distribuer
    \/ ChangerStatutMembre \/ ChangerRole \/ EcrireCode \/ ExpirerCode \/ Minuit \/ Gagner
    \/ PayerAbonnement \/ JourSuivant
    \/ Panne

Spec == Init /\ [][Next]_vars

\* Every row has its type.
TypeOK ==
    /\ documents \in Seq(DocumentKYC) /\ kycVerifie \in BOOLEAN
    /\ litiges \in Seq(Litige)
    /\ compte \in Compte /\ livre \in Livre /\ alertes \in Seq({"OUVERTE", "RESOLUE"})
    /\ equipe \in [Personnes -> Membre] /\ qr \in [Collecteurs -> QRCode]
    /\ visites \subseteq Collecteurs \X Clients /\ commissions \in [Collecteurs -> Gains]
    /\ facturations \in [Collecteurs -> Facturation] /\ echeance \in Echeance /\ jour \in Nat

\* the deposits that the hour of now leaves out
Omises(n, h, lignes) ==
    LET affiches == MoisAffiches(n) IN
    {ligne \in lignes :
        /\ JourDuMois(ligne.jour) = 1 /\ ligne.heure < h
        /\ \A k \in affiches : Mois(ligne.jour) <= k}

\* On every day of the calendar: a month of the last six is on the six-month
\* screens exactly when it has a day with today's number (on the 29th, 30th and
\* 31st the shorter months are missing, and the deposits made in them, while the
\* administrator's twelve months are all there); up to the 28th the days of the
\* regularity calendar add up.  A deposit made in the last six months is in the
\* regularity calendar when its month is; the other screens count it too, unless
\* it was made on the first day of the oldest month they show, before the hour at
\* which they are looked at: they contradict the calendar then.  The next
\* contribution lies in the future, at most 31 days away, and on the fixed day when
\* the month has it; the announced pay is next month when that month has today's
\* number.  The reports of the months overlap nowhere and leave no day out.
DatesDuJour(n) ==
    LET m == Mois(n)  j == JourDuMois(n)  six == m - 5 .. m
        Lignes == [jour : Debut(m - 5) .. n, heure : Heures]
    IN
    /\ MoisAdmin(n) = m - 11 .. m /\ MoisAffiches(n) \subseteq six
    /\ \A k \in six : k \in MoisAffiches(n) <=> j <= Longueur(k)
    /\ CompteRegularite(n, Lignes) = {ligne \in Lignes : j <= Longueur(Mois(ligne.jour))}
    /\ \A h \in Heures :
          Compte6(n, h, Lignes) = CompteRegularite(n, Lignes) \ Omises(n, h, Lignes)
    /\ j <= 28 => TotalJours(n) = n - Debut(m - 5) + 1
    /\ \A f \in Frequence, fixe \in 1 .. 31 :
          LET d == ProchaineDate(n, f, fixe)  vise == IF fixe > j THEN m ELSE m + 1 IN
          /\ d \in n + 1 .. n + 31
          /\ f = "DATE_FIXE" /\ fixe <= Longueur(vise) => JourDuMois(d) = fixe /\ Mois(d) = vise
    /\ j <= Longueur(m + 1) <=> Mois(ProchainePaie(n)) = m + 1
    /\ {k \in six : n \in PeriodeDuMois(k)} = {m}

\* They are right on every day the calendar comes to.
DatesJustes == sujet = "calendrier" => DatesDuJour(jour)
=============================================================================
