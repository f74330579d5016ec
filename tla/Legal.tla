------------------------------- MODULE Legal --------------------------------
(***************************************************************************)
(* The agreement a user accepts before he pays (internal/handler/legal.go, *)
(* internal/repository/legal_agreements.go).  It is a pair of files on the *)
(* disk, one for each language, that an operator replaces one by one while *)
(* requests read them: a version is the hash of both.                      *)
(***************************************************************************)
EXTENDS Naturals

CONSTANTS
    Readers,        \* users who read and pay
    MaxRevisions    \* bound: how often each file is replaced

VARIABLES
    files,      \* the revision of each file
    page,       \* what each user's Mini App shows of the agreement
    reading,    \* what each user's request has read so far
    agreements, \* the user_legal_agreements table
    seen,       \* what users were shown
    payments    \* payments made, with the files there were when they were asked for

legal == <<files, page, reading, agreements, seen, payments>>

Languages == {"kk", "ru"}
Files == [Languages -> Nat]
NoPage == [shown |-> FALSE]
Page == [shown : {TRUE}, version : Files, language : Languages, content : Nat]
Idle == [stage |-> "idle"]
Purposes == {"show", "accept", "pay"}
Reading ==
    [stage : {"kk"}, for : Purposes, asked : Files, kk : Nat]
    \union [stage : {"version"}, for : Purposes, asked : Files, version : Files]
    \union [stage : {"agreed"}, asked : Files]

ASSUME LegalAssumption == MaxRevisions \in Nat

-----------------------------------------------------------------------------
(* Plausible mistakes, for checking that the properties notice them. *)

HasAcceptedSome(p, version) == \E a \in agreements : a.user = p

-----------------------------------------------------------------------------

\* An operator puts a new file in place.
ReplaceFile(language) ==
    /\ files[language] < MaxRevisions
    /\ files' = [files EXCEPT ![language] = @ + 1]
    /\ UNCHANGED <<page, reading, agreements, seen, payments>>

\* Every request computes the version anew: the Kazakh file is read first.
BeginRequest(p, purpose) ==
    /\ reading[p] = Idle
    /\ purpose = "accept" => page[p].shown
    /\ reading' = [reading EXCEPT ![p] = [stage |-> "kk", for |-> purpose, asked |-> files, kk |-> files["kk"]]]
    /\ UNCHANGED <<files, page, agreements, seen, payments>>

LoadLegalDocumentMeta(p) ==
    /\ reading[p].stage = "kk"
    /\ reading' = [reading EXCEPT ![p] =
            [stage |-> "version", for |-> reading[p].for, asked |-> reading[p].asked,
             version |-> [language \in Languages |-> IF language = "kk" THEN reading[p].kk ELSE files["ru"]]]]
    /\ UNCHANGED <<files, page, agreements, seen, payments>>

\* The text is read after the version and may be newer.
LegalDocument(p, language) ==
    /\ reading[p].stage = "version" /\ reading[p].for = "show"
    /\ LET shown == [shown |-> TRUE, version |-> reading[p].version, language |-> language, content |-> files[language]]
       IN  /\ page' = [page EXCEPT ![p] = shown]
           /\ seen' = seen \union {[user |-> p, page |-> shown]}
    /\ reading' = [reading EXCEPT ![p] = Idle]
    /\ UNCHANGED <<files, agreements, payments>>

\* The Mini App names the version of the text it shows.
SameVersion(p, version) == page[p].version = version

\* A second acceptance of a version changes its language only.
AcceptLegalAgreement(p) ==
    /\ reading[p].stage = "version" /\ reading[p].for = "accept"
    /\ agreements' =
        IF SameVersion(p, reading[p].version)
        THEN {a \in agreements : a.user # p \/ a.version # reading[p].version}
             \union {[user |-> p, version |-> reading[p].version, language |-> page[p].language]}
        ELSE agreements
    /\ reading' = [reading EXCEPT ![p] = Idle]
    /\ UNCHANGED <<files, page, seen, payments>>

HasAccepted(p, version) == \E a \in agreements : a.user = p /\ a.version = version

HasAcceptedLatestLegalAgreement(p) ==
    /\ reading[p].stage = "version" /\ reading[p].for = "pay"
    /\ reading' = [reading EXCEPT ![p] =
            IF HasAccepted(p, reading[p].version) THEN [stage |-> "agreed", asked |-> reading[p].asked] ELSE Idle]
    /\ UNCHANGED <<files, page, agreements, seen, payments>>

CreatePayment(p) ==
    /\ reading[p].stage = "agreed"
    /\ payments' = payments \union {[user |-> p, asked |-> reading[p].asked]}
    /\ reading' = [reading EXCEPT ![p] = Idle]
    /\ UNCHANGED <<files, page, agreements, seen>>

\* A call fails, the client goes away or the process crashes.
CutOff(p) ==
    /\ reading[p] # Idle
    /\ reading' = [reading EXCEPT ![p] = Idle]
    /\ UNCHANGED <<files, page, agreements, seen, payments>>

LegalInit ==
    /\ files = [language \in Languages |-> 0]
    /\ page = [p \in Readers |-> NoPage]
    /\ reading = [p \in Readers |-> Idle]
    /\ agreements = {} /\ seen = {} /\ payments = {}

RequestOf(p) ==
    \/ \E purpose \in Purposes : BeginRequest(p, purpose)
    \/ LoadLegalDocumentMeta(p)
    \/ \E language \in Languages : LegalDocument(p, language)
    \/ AcceptLegalAgreement(p)
    \/ HasAcceptedLatestLegalAgreement(p)
    \/ CreatePayment(p)
    \/ CutOff(p)

LegalTypeOK ==
    /\ files \in Files
    /\ page \in [Readers -> Page \union {NoPage}]
    /\ reading \in [Readers -> Reading \union {Idle}]
    /\ agreements \subseteq [user : Readers, version : Files, language : Languages]
    /\ seen \subseteq [user : Readers, page : Page]
    /\ payments \subseteq [user : Readers, asked : Files]

\* Whoever has a payment was shown the terms that were in force when he asked
\* for it, or later ones, with their own text, whatever files were replaced
\* meanwhile (the version is compared on acceptance and again on payment).
TermsSeenBeforePaying ==
    \A x \in payments : \E s \in seen :
        /\ s.user = x.user
        /\ s.page.content = s.page.version[s.page.language]
        /\ \A language \in Languages : s.page.version[language] >= x.asked[language]

=============================================================================
