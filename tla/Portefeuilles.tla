---------------------------- MODULE Portefeuilles ----------------------------
(***************************************************************************)
(* The collectors of one supervisor: who works for whom, the QR code by    *)
(* which a client links himself, the visits of the day and the withdrawal  *)
(* of commissions (utilisateurs.service.ts 193-284 and 471-543,            *)
(* qrcode.service.ts, collecteur-terrain.service.ts, commissions.service.ts*)
(* 92-161).                                                                *)
(***************************************************************************)
EXTENDS Guichets, FiniteSetsExt

Personnes == Clients \cup Collecteurs \cup {Superviseur}
Terrain   == {"AGENT", "INDEPENDANT"}
Role      == Terrain \cup {"CLIENT", "SUPERVISEUR"}
Membre    == [role : Role, actif : BOOLEAN, de : Collecteurs \cup {Superviseur, Personne}]
QRCode    == {"aucun", "valide"}      \* an expired code opens nothing either
Gains     == [solde : Int, gagne : Nat, verse : Nat]

EquipeInitiale ==
    [x \in Personnes |->
        [role |-> IF x \in Clients THEN "CLIENT"
                  ELSE IF x = Superviseur THEN "SUPERVISEUR" ELSE "INDEPENDANT",
         actif |-> TRUE, de |-> Personne]]

horsEquipe   == <<bureau, sujet, calme>>
Collecteur(x) == equipe[x].role \in Terrain
Portefeuille(c) == {k \in Clients : equipe[k].de = c /\ equipe[k].actif}
Visites(c) == {k \in Clients : <<c, k>> \in visites}
Tourne(q)  == loc[q].op = "tournee"
-----------------------------------------------------------------------------
(* Administrators: changerStatut and changerRole write what they are told. *)
(* No link depends on the statut of a client, only the round of the day.   *)

\* The links of the person are not looked at.
Changer(x, membre) ==
    /\ ecritures < MaxChangements /\ membre # equipe[x]
    /\ equipe' = [equipe EXCEPT ![x] = membre]
    /\ ecritures' = ecritures + 1
    /\ courses' = courses
         \cup (IF \E q \in Requetes : loc[q].a = x THEN {"membre"} ELSE {})
         \cup (IF \E q \in Requetes : Tourne(q) THEN {"tournee"} ELSE {})
    /\ UNCHANGED <<horsEquipe, qr, visites, commissions, procVars>>

ChangerStatutMembre ==
    /\ sujet \in {"liens", "tournee"}
    /\ \E x \in Collecteurs \cup (IF sujet = "tournee" THEN Clients ELSE {}) :
          Changer(x, [equipe[x] EXCEPT !.actif = ~@])

ChangerRole ==
    /\ sujet = "liens"
    /\ \E x \in Collecteurs \cup {Superviseur}, r \in Role \ {"AGENT"} :
          Changer(x, [equipe[x] EXCEPT !.role = r])

\* reassignerClient: the client, then his new collector, then the update
Reassigner(q) ==
    /\ sujet \in {"liens", "tournee"}
    /\ \E k \in Clients, c \in Collecteurs :
          /\ equipe[k].role = "CLIENT"
          /\ Commencer(q, "lireCollecteur",
                       [Repos EXCEPT !.op = "reassignation", !.qui = k, !.a = c])
    /\ UNCHANGED <<horsEquipe, terrain, courses, ecritures>>

\* mutant: the new collector may be suspended
AccepteTout(q) == Collecteur(loc[q].a)

Accepte(q) == Collecteur(loc[q].a) /\ equipe[loc[q].a].actif

LireCollecteur(q) ==
    /\ pc[q] = "lireCollecteur"
    /\ IF Accepte(q) THEN Vers(q, "lier") /\ UNCHANGED loc ELSE Repondre(q)
    /\ UNCHANGED <<horsEquipe, terrain, courses, ecritures>>

\* assignerSuperviseur: the agent, then the supervisor, then the update
LireAgent(q) ==
    /\ sujet = "liens"
    /\ \E x \in Collecteurs :
          /\ Collecteur(x)
          /\ \/ Commencer(q, "lireSuperviseur",
                          [Repos EXCEPT !.op = "affectation", !.qui = x, !.a = Superviseur])
             \/ Commencer(q, "lier", [Repos EXCEPT !.op = "affectation", !.qui = x])
    /\ UNCHANGED <<horsEquipe, terrain, courses, ecritures>>

LireSuperviseur(q) ==
    /\ pc[q] = "lireSuperviseur"
    /\ IF equipe[loc[q].a].role = "SUPERVISEUR" THEN Vers(q, "lier") /\ UNCHANGED loc
       ELSE Repondre(q)
    /\ UNCHANGED <<horsEquipe, terrain, courses, ecritures>>

\* lierCollecteur: the client presents the code he scanned; neither the role
\* nor the statut of its owner is looked at.
LireQr(q) ==
    /\ sujet = "liens"
    /\ \E k \in Clients, c \in Collecteurs :
          /\ qr[c] = "valide"
          /\ Commencer(q, "lier", [Repos EXCEPT !.op = "lien", !.qui = k, !.a = c])
    /\ UNCHANGED <<horsEquipe, terrain, courses, ecritures>>

Lier(q) ==
    /\ pc[q] = "lier"
    /\ equipe' = [equipe EXCEPT ![loc[q].qui].de = loc[q].a]
    /\ Ajouter("tournee", \E p \in Requetes : Tourne(p))
    /\ Repondre(q)
    /\ UNCHANGED <<horsEquipe, qr, visites, commissions, ecritures>>
-----------------------------------------------------------------------------
(* QR codes: that of a collector is there and valid, or opens nothing.     *)

\* monCode, regenerer and the job of six o'clock.  monCode trusts the role of
\* the token and the job looks at no role.  Each reads before it writes; what
\* happens in between changes nothing: the row it writes is a valid code.
EcrireCode ==
    /\ sujet = "liens"
    /\ \E c \in Collecteurs :
          /\ qr[c] = "aucun" \/ Collecteur(c)
          /\ qr' = [qr EXCEPT ![c] = "valide"]
    /\ UNCHANGED <<horsEquipe, equipe, visites, commissions, courses, ecritures, procVars>>

ExpirerCode ==
    /\ \E c \in Collecteurs : qr[c] = "valide" /\ qr' = [qr EXCEPT ![c] = "aucun"]
    /\ UNCHANGED <<horsEquipe, equipe, visites, commissions, courses, ecritures, procVars>>
-----------------------------------------------------------------------------
(* checkIn and clientsDuJour                                               *)

LireClient(q) ==
    /\ sujet = "tournee"
    /\ \E c \in Collecteurs, k \in Clients :
          /\ Collecteur(c) /\ equipe[c].actif /\ equipe[k].de = c
          /\ Commencer(q, "pointer", [Repos EXCEPT !.op = "visite", !.qui = k, !.a = c])
    /\ UNCHANGED <<horsEquipe, terrain, courses, ecritures>>

Pointer(q) ==
    /\ pc[q] = "pointer"
    /\ visites' = visites \cup {<<loc[q].a, loc[q].qui>>}
    /\ Ajouter("tournee", \E p \in Requetes : Tourne(p))
    /\ Repondre(q)
    /\ UNCHANGED <<horsEquipe, equipe, qr, commissions, ecritures>>

ListerClients(q) ==
    /\ sujet = "tournee"
    /\ \E c \in Collecteurs :
          Commencer(q, "listerVisites",
                    [Repos EXCEPT !.op = "tournee", !.a = c, !.n = Cardinality(Portefeuille(c))])
    /\ UNCHANGED <<horsEquipe, terrain, courses, ecritures>>

\* mutant: the visits of all collectors are subtracted
RestantesDeTous(c, n) == n - Cardinality(visites)

\* nbRestantes is clients.length - clientsDejaVisites.size
Restantes(c, n) == n - Cardinality(Visites(c))

ListerVisites(q) ==
    /\ pc[q] = "listerVisites"
    /\ loc' = [loc EXCEPT ![q].somme = Restantes(loc[q].a, loc[q].n)]
    /\ Vers(q, "afficher")
    /\ UNCHANGED <<horsEquipe, terrain, courses, ecritures>>

Afficher(q) ==
    /\ pc[q] = "afficher"
    /\ Repondre(q)
    /\ UNCHANGED <<horsEquipe, terrain, courses, ecritures>>

Minuit ==
    /\ visites # {} /\ visites' = {}
    /\ Ajouter("tournee", \E p \in Requetes : Tourne(p))
    /\ UNCHANGED <<horsEquipe, equipe, qr, commissions, ecritures, procVars>>
-----------------------------------------------------------------------------
(* Commissions: executer pays the collector his part of the fees, retirer  *)
(* sends the money in the same tick as it read the balance and books it    *)
(* afterwards.                                                             *)

Gagner ==
    /\ sujet = "commissions" /\ ecritures < MaxEcritures
    /\ \E c \in Collecteurs :
          /\ equipe[c].role = "INDEPENDANT"
          /\ commissions' = [commissions EXCEPT ![c].solde = @ + 1, ![c].gagne = @ + 1]
    /\ ecritures' = ecritures + 1
    /\ UNCHANGED <<horsEquipe, equipe, qr, visites, courses, procVars>>

Couvre(c, montant) == commissions[c].solde >= montant

LireCommission(q) ==
    /\ sujet = "commissions"
    /\ \E c \in Collecteurs, m \in 1 .. 2 :
          /\ equipe[c].role = "INDEPENDANT" /\ Couvre(c, m)
          /\ commissions[c].verse + m <= MaxEcritures
          /\ Commencer(q, "debiter", [Repos EXCEPT !.op = "retrait", !.qui = c, !.somme = m])
          /\ commissions' = [commissions EXCEPT ![c].verse = @ + m]
          /\ Ajouter("retrait", \E p \in Requetes : loc[p].op = "retrait" /\ loc[p].qui = c)
    /\ UNCHANGED <<horsEquipe, equipe, qr, visites, ecritures>>

DebiterCommission(q) ==
    /\ pc[q] = "debiter"
    /\ commissions' = [commissions EXCEPT ![loc[q].qui].solde = @ - loc[q].somme]
    /\ Repondre(q)
    /\ UNCHANGED <<horsEquipe, equipe, qr, visites, courses, ecritures>>
-----------------------------------------------------------------------------
\* A client or a collector comes under someone who, when the link is written,
\* has the role for it and whose account is active, unless that person was
\* changed since the request looked at him, or the client used a QR code: it
\* lives on when its owner is suspended or is no longer a collector.
LiensFondes ==
    [][\A x \in Personnes :
         LET a == equipe'[x].de IN
         a # equipe[x].de /\ a # Personne /\ "membre" \notin courses =>
            \/ \E q \in Requetes : loc[q].op = "lien" /\ loc[q].qui = x
            \/ a = Superviseur /\ equipe[a].role = "SUPERVISEUR"
            \/ Collecteur(a) /\ equipe[a].actif]_vars

\* The visits left that a collector is shown are the clients of his that he has
\* not seen today, unless something changed between the two reads, or one he
\* saw left him or was suspended since: he is then subtracted all the same.
TourneeJuste ==
    \A q \in Requetes : pc[q] = "afficher" /\ "tournee" \notin courses =>
       LET c == loc[q].a IN
       Visites(c) \subseteq Portefeuille(c) =>
          loc[q].somme = Cardinality(Portefeuille(c) \ Visites(c))

\* Balance, sums paid and sums earned of a collector agree at every step, and he
\* is not paid more than he earned, unless two withdrawals of his crossed or the
\* server died between the transfer and its booking.
CommissionsJustes ==
    \A c \in Collecteurs :
       LET enDebit == {q \in Requetes : pc[q] = "debiter" /\ loc[q].qui = c}
           g == commissions[c] IN
       "panne" \notin courses =>
          /\ g.solde = g.gagne - g.verse + SumFunctionOnSet([q \in Requetes |-> loc[q].somme], enDebit)
          /\ "retrait" \notin courses => g.verse <= g.gagne

\* The two numbers a collector lives by are right: the visits left, the balance.
CollecteurServi == TourneeJuste /\ CommissionsJustes
=============================================================================
