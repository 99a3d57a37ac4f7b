--------------------------------- MODULE Kyc ---------------------------------
(***************************************************************************)
(* KYC documents of one client: submitted by him, decided by               *)
(* administrators (kyc.service.ts).                                        *)
(***************************************************************************)
EXTENDS Guichets

StatutKYC   == {"EN_ATTENTE", "VALIDE", "REJETE"}
DocumentKYC == [type : Types, statut : StatutKYC]

EnCours(d) == documents[d].statut \in {"EN_ATTENTE", "VALIDE"}

horsKyc == <<terrain, dates, litiges, compte, livre, alertes, sujet, ecritures, calme>>

DocumentExistant(t) == \E d \in DOMAIN documents : documents[d].type = t /\ EnCours(d)

\* upload and soumettre: one document of a type at a time; the file is sent
\* to its store between this read and the insert.
Soumettre(q) ==
    /\ sujet = "kyc"
    /\ \E t \in Types :
          /\ ~DocumentExistant(t)
          /\ Commencer(q, "creerDocument", [Repos EXCEPT !.op = "depot", !.cible = t])
          /\ Ajouter("depot", \E p \in Requetes : loc[p].op = "depot" /\ loc[p].cible = t)
    /\ UNCHANGED <<documents, kycVerifie, horsKyc>>

CreerDocument(q) ==
    /\ pc[q] = "creerDocument" /\ Len(documents) < MaxDocuments
    /\ documents' = Append(documents, [type |-> loc[q].cible, statut |-> "EN_ATTENTE"])
    /\ Repondre(q)
    /\ UNCHANGED <<kycVerifie, courses, horsKyc>>

\* valider and rejeter: the document must be pending when it is read
LireDocument(q) ==
    /\ sujet = "kyc"
    /\ \E d \in DOMAIN documents, decision \in {"VALIDE", "REJETE"} :
          /\ documents[d].statut = "EN_ATTENTE"
          /\ Commencer(q, "deciderDocument",
                       [Repos EXCEPT !.op = "document", !.n = d, !.cible = decision])
          /\ Ajouter("document", Croise(q, "document", d))
    /\ UNCHANGED <<documents, kycVerifie, horsKyc>>

\* mutant: the account is marked by every decision
DeciderEtMarquer(q) ==
    /\ pc[q] = "deciderDocument"
    /\ documents' = [documents EXCEPT ![loc[q].n].statut = loc[q].cible]
    /\ kycVerifie' = TRUE
    /\ Repondre(q)
    /\ UNCHANGED <<courses, horsKyc>>

\* valider writes the document and the account in one transaction; rejeter
\* never takes kycVerifie back.
Decider(q) ==
    /\ pc[q] = "deciderDocument"
    /\ documents' = [documents EXCEPT ![loc[q].n].statut = loc[q].cible]
    /\ kycVerifie' = (kycVerifie \/ loc[q].cible = "VALIDE")
    /\ Repondre(q)
    /\ UNCHANGED <<courses, horsKyc>>

\* A verified account has a validated document, and of each type one document
\* is pending or valid.  Unless two administrators decided on the same document
\* (validated by one and rejected by the other it leaves a verified account
\* without a document), or two submissions of a type met.
KycFonde ==
    /\ (\E d \in DOMAIN documents : documents[d].statut = "VALIDE") => kycVerifie
    /\ "document" \notin courses =>
          /\ kycVerifie => \E d \in DOMAIN documents : documents[d].statut = "VALIDE"
          /\ "depot" \notin courses =>
               \A d, e \in DOMAIN documents :
                  d # e /\ EnCours(d) /\ EnCours(e) => documents[d].type # documents[e].type
=============================================================================
