--------------------------- MODULE AccountsProofs ---------------------------
(***************************************************************************)
(* Proofs about Accounts: whoever pays has seen the terms, who invited a   *)
(* user is settled, and questionnaires hold their users' answers, for any  *)
(* number of users, files' revisions, messages, crashes and failed calls.  *)
(***************************************************************************)
EXTENDS Accounts, FiniteSetTheorems, TLAPS

-----------------------------------------------------------------------------
(***************************************************************************)
(* The agreement.  Files only get newer.  A request to accept starts when  *)
(* the page is there, so the version it computes is no older than the text *)
(* on the page, which is no older than the version on the page: where the  *)
(* two versions are equal, the text is that version's.                     *)
(***************************************************************************)

AtLeast(v, w) == \A language \in Languages : v[language] >= w[language]
Fits(s) == s.page.content = s.page.version[s.page.language]
Informed(p, asked) == \E s \in seen : s.user = p /\ Fits(s) /\ AtLeast(s.page.version, asked)

PageFollowsFiles(p) ==
    page[p].shown =>
        /\ page[p].content <= files[page[p].language]
        /\ page[p].content >= page[p].version[page[p].language]
        /\ [user |-> p, page |-> page[p]] \in seen

RequestFollowsFiles(p) ==
    LET r == reading[p]
    IN  /\ r.stage = "kk" =>
            /\ AtLeast(files, r.asked)
            /\ r.kk <= files["kk"] /\ r.kk >= r.asked["kk"]
            /\ r.for = "accept" => page[p].shown /\ (page[p].language = "kk" => r.kk >= page[p].content)
        /\ r.stage = "version" =>
            /\ AtLeast(files, r.version) /\ AtLeast(r.version, r.asked)
            /\ r.for = "accept" => page[p].shown /\ r.version[page[p].language] >= page[p].content
        /\ r.stage = "agreed" => Informed(p, r.asked)

AgreedWasSeen ==
    \A a \in agreements : \E s \in seen : s.user = a.user /\ Fits(s) /\ s.page.version = a.version

LegalInv ==
    /\ LegalTypeOK
    /\ \A p \in Readers : PageFollowsFiles(p) /\ RequestFollowsFiles(p)
    /\ AgreedWasSeen
    /\ TermsSeenBeforePaying

\* What a request's stage tells about its fields.
LEMMA RequestShape ==
    ASSUME LegalTypeOK, NEW p \in Readers
    PROVE  /\ reading[p].stage = "kk" =>
                reading[p].for \in Purposes /\ reading[p].asked \in Files /\ reading[p].kk \in Nat
           /\ reading[p].stage = "version" =>
                reading[p].for \in Purposes /\ reading[p].asked \in Files /\ reading[p].version \in Files
           /\ reading[p].stage = "agreed" => reading[p].asked \in Files
           /\ page[p].shown =>
                page[p].version \in Files /\ page[p].language \in Languages /\ page[p].content \in Nat
<1>1. reading[p] \in Reading \union {Idle} /\ page[p] \in Page \union {NoPage}
  BY DEF LegalTypeOK
<1>2. page[p].shown => page[p].version \in Files /\ page[p].language \in Languages /\ page[p].content \in Nat
  <2>1. CASE page[p] \in Page
    BY <2>1 DEF Page
  <2>2. CASE page[p] = NoPage
    BY <2>2 DEF NoPage
  <2> QED
    BY <1>1, <2>1, <2>2
<1>3. CASE reading[p] \in [stage : {"kk"}, for : Purposes, asked : Files, kk : Nat]
  BY <1>2, <1>3
<1>4. CASE reading[p] \in [stage : {"version"}, for : Purposes, asked : Files, version : Files]
  BY <1>2, <1>4
<1>5. CASE reading[p] \in [stage : {"agreed"}, asked : Files]
  BY <1>2, <1>5
<1>6. CASE reading[p] = Idle
  BY <1>2, <1>6 DEF Idle
<1> QED
  BY <1>1, <1>3, <1>4, <1>5, <1>6 DEF Reading

\* Nothing of a user changes but by his own requests: what was seen stays.
LEMMA OthersKeep ==
    ASSUME NEW p \in Readers, PageFollowsFiles(p), RequestFollowsFiles(p),
           seen \subseteq seen', page'[p] = page[p], reading'[p] = reading[p], UNCHANGED files
    PROVE  PageFollowsFiles(p)' /\ RequestFollowsFiles(p)'
BY DEF PageFollowsFiles, RequestFollowsFiles, Informed, Fits, AtLeast

\* A replaced file is newer than all that was read of it.
LEMMA ReplaceKeeps ==
    ASSUME LegalInv, NEW language \in Languages, ReplaceFile(language)
    PROVE  LegalInv'
<1>1. files \in Files /\ files' \in Files
  BY DEF ReplaceFile, LegalInv, LegalTypeOK, Files
<1>2. \A l \in Languages : files[l] \in Nat /\ files'[l] \in Nat /\ files'[l] >= files[l]
  BY <1>1 DEF ReplaceFile, Files
<1>3. LegalTypeOK'
  BY <1>1 DEF ReplaceFile, LegalInv, LegalTypeOK
<1>4. ASSUME NEW p \in Readers PROVE PageFollowsFiles(p)' /\ RequestFollowsFiles(p)'
  <2>1. PageFollowsFiles(p) /\ RequestFollowsFiles(p) /\ LegalTypeOK
    BY DEF LegalInv
  <2>2. UNCHANGED <<page, reading, seen>>
    BY DEF ReplaceFile
  <2>3. PageFollowsFiles(p)'
    BY <1>2, <2>1, <2>2, RequestShape DEF PageFollowsFiles
  <2>4. \A v \in Files : AtLeast(files, v) => AtLeast(files', v)
    BY <1>2 DEF AtLeast, Files
  <2>5. "kk" \in Languages
    BY DEF Languages
  <2>6. RequestFollowsFiles(p)'
    BY <1>2, <2>1, <2>2, <2>4, <2>5, RequestShape DEF RequestFollowsFiles, Informed, Fits, AtLeast
  <2> QED
    BY <2>3, <2>6
<1>5. AgreedWasSeen' /\ TermsSeenBeforePaying'
  BY DEF ReplaceFile, LegalInv, AgreedWasSeen, TermsSeenBeforePaying, Fits
<1> QED
  BY <1>3, <1>4, <1>5 DEF LegalInv


\* The forms a request takes.
LEMMA RequestForms ==
    /\ \A for \in Purposes, asked \in Files, kk \in Nat :
            [stage |-> "kk", for |-> for, asked |-> asked, kk |-> kk] \in Reading
    /\ \A for \in Purposes, asked \in Files, version \in Files :
            [stage |-> "version", for |-> for, asked |-> asked, version |-> version] \in Reading
    /\ \A asked \in Files : [stage |-> "agreed", asked |-> asked] \in Reading
BY DEF Reading

\* What a step of one user's request has to show.
LEMMA RequestKeeps ==
    ASSUME LegalInv, NEW p \in Readers, LegalTypeOK', UNCHANGED files,
           seen \subseteq seen',
           \A q \in Readers \ {p} : page'[q] = page[q] /\ reading'[q] = reading[q],
           PageFollowsFiles(p)', RequestFollowsFiles(p)', AgreedWasSeen', TermsSeenBeforePaying'
    PROVE  LegalInv'
<1>1. ASSUME NEW q \in Readers \ {p} PROVE PageFollowsFiles(q)' /\ RequestFollowsFiles(q)'
  BY <1>1, OthersKeep DEF LegalInv
<1> QED
  BY <1>1 DEF LegalInv

LEMMA BeginKeeps ==
    ASSUME LegalInv, NEW p \in Readers, NEW purpose \in Purposes, BeginRequest(p, purpose)
    PROVE  LegalInv'
<1>1. files \in Files /\ files["kk"] \in Nat /\ LegalTypeOK
  BY DEF LegalInv, LegalTypeOK, Files, Languages
<1>2. LegalTypeOK'
  BY <1>1, RequestForms DEF BeginRequest, LegalTypeOK
<1>3. reading'[p] = [stage |-> "kk", for |-> purpose, asked |-> files, kk |-> files["kk"]]
  BY <1>1 DEF BeginRequest, LegalTypeOK
<1>4. AtLeast(files, files)
  BY <1>1 DEF AtLeast, Files
<1>5. PageFollowsFiles(p)'
  BY DEF BeginRequest, LegalInv, PageFollowsFiles
<1>6. RequestFollowsFiles(p)'
  <2>1. UNCHANGED <<files, page>> /\ PageFollowsFiles(p)
    BY DEF BeginRequest, LegalInv
  <2>2. purpose = "accept" => page[p].shown
    BY DEF BeginRequest
  <2>3. page[p].shown /\ page[p].language = "kk" => files["kk"] >= page[p].content
    BY <1>1, <2>1, RequestShape DEF PageFollowsFiles
  <2> QED
    BY <1>1, <1>3, <1>4, <2>1, <2>2, <2>3 DEF RequestFollowsFiles
<1>7. AgreedWasSeen' /\ TermsSeenBeforePaying'
  BY DEF BeginRequest, LegalInv, AgreedWasSeen, TermsSeenBeforePaying, Fits
<1> QED
  BY <1>1, <1>2, <1>5, <1>6, <1>7, RequestKeeps DEF BeginRequest, LegalTypeOK

LEMMA LoadKeeps ==
    ASSUME LegalInv, NEW p \in Readers, LoadLegalDocumentMeta(p)
    PROVE  LegalInv'
<1> DEFINE version == [language \in Languages |-> IF language = "kk" THEN reading[p].kk ELSE files["ru"]]
<1>1. LegalTypeOK /\ files \in Files /\ PageFollowsFiles(p) /\ RequestFollowsFiles(p) /\ reading[p].stage = "kk"
  BY DEF LegalInv, LegalTypeOK, LoadLegalDocumentMeta
<1>2. reading[p].for \in Purposes /\ reading[p].asked \in Files /\ reading[p].kk \in Nat
  BY <1>1, RequestShape
<1>3. version \in Files
  BY <1>1, <1>2 DEF Files, Languages
<1>4. reading' = [reading EXCEPT ![p] =
            [stage |-> "version", for |-> reading[p].for, asked |-> reading[p].asked, version |-> version]]
  BY DEF LoadLegalDocumentMeta
<1>5. LegalTypeOK'
  BY <1>1, <1>2, <1>3, <1>4, RequestForms DEF LoadLegalDocumentMeta, LegalTypeOK
<1>6. AtLeast(files, version) /\ AtLeast(version, reading[p].asked)
  BY <1>1, <1>2 DEF RequestFollowsFiles, AtLeast, Files, Languages
<1>7. reading[p].for = "accept" => page[p].shown /\ version[page[p].language] >= page[p].content
  BY <1>1, <1>2, RequestShape DEF RequestFollowsFiles, PageFollowsFiles, Languages
<1>8. PageFollowsFiles(p)'
  BY <1>1 DEF LoadLegalDocumentMeta, PageFollowsFiles
<1>9. RequestFollowsFiles(p)'
  <2>1. reading'[p] =
            [stage |-> "version", for |-> reading[p].for, asked |-> reading[p].asked, version |-> version]
    BY <1>1, <1>4 DEF LegalTypeOK
  <2> QED
    BY <1>6, <1>7, <2>1 DEF LoadLegalDocumentMeta, RequestFollowsFiles
<1>10. AgreedWasSeen' /\ TermsSeenBeforePaying'
  BY DEF LoadLegalDocumentMeta, LegalInv, AgreedWasSeen, TermsSeenBeforePaying, Fits
<1> QED
  BY <1>1, <1>5, <1>8, <1>9, <1>10, RequestKeeps DEF LoadLegalDocumentMeta, LegalTypeOK

\* A page shows a text that is no older than the version it names.
LEMMA ShowKeeps ==
    ASSUME LegalInv, NEW p \in Readers, NEW language \in Languages, LegalDocument(p, language)
    PROVE  LegalInv'
<1> DEFINE shown == [shown |-> TRUE, version |-> reading[p].version, language |-> language,
                     content |-> files[language]]
<1>1. LegalTypeOK /\ files \in Files /\ RequestFollowsFiles(p) /\ reading[p].stage = "version"
  BY DEF LegalInv, LegalTypeOK, LegalDocument
<1>2. reading[p].version \in Files
  BY <1>1, RequestShape
<1>3. shown \in Page
  BY <1>1, <1>2 DEF Page, Files
<1>4. page' = [page EXCEPT ![p] = shown] /\ seen' = seen \union {[user |-> p, page |-> shown]}
  BY DEF LegalDocument
<1>5. LegalTypeOK'
  <2>1. page' \in [Readers -> Page \union {NoPage}]
    BY <1>1, <1>3, <1>4 DEF LegalTypeOK
  <2> HIDE DEF shown
  <2>2. seen' \subseteq [user : Readers, page : Page]
    BY <1>1, <1>3, <1>4 DEF LegalTypeOK
  <2> QED
    BY <1>1, <2>1, <2>2 DEF LegalDocument, LegalTypeOK
<1>6. page'[p] = shown /\ reading'[p] = Idle
  BY <1>1, <1>4 DEF LegalDocument, LegalTypeOK
<1>7. PageFollowsFiles(p)'
  <2>1. files[language] \in Nat /\ files[language] >= reading[p].version[language]
    BY <1>1 DEF RequestFollowsFiles, AtLeast, Files
  <2>2. files' = files
    BY DEF LegalDocument
  <2>3. /\ page'[p].content = files[language] /\ page'[p].language = language
        /\ page'[p].version = reading[p].version
    BY <1>6
  <2>4. [user |-> p, page |-> page'[p]] \in seen'
    <3> HIDE DEF shown
    <3> QED
      BY <1>4, <1>6
  <2> QED
    BY <2>1, <2>2, <2>3, <2>4 DEF PageFollowsFiles
<1>8. RequestFollowsFiles(p)'
  BY <1>6 DEF RequestFollowsFiles, Idle
<1>9. AgreedWasSeen'
  BY <1>4 DEF LegalDocument, LegalInv, AgreedWasSeen, Fits
<1>10. TermsSeenBeforePaying'
  BY <1>4 DEF LegalDocument, LegalInv, TermsSeenBeforePaying
<1> QED
  BY <1>1, <1>4, <1>5, <1>7, <1>8, <1>9, <1>10, RequestKeeps DEF LegalDocument, LegalTypeOK

\* Acceptance of the version on the page: its text is that version's.
LEMMA AcceptKeeps ==
    ASSUME LegalInv, NEW p \in Readers, AcceptLegalAgreement(p)
    PROVE  LegalInv'
<1> DEFINE accepted == [user |-> p, version |-> reading[p].version, language |-> page[p].language]
<1>1. /\ LegalTypeOK /\ PageFollowsFiles(p) /\ RequestFollowsFiles(p) /\ AgreedWasSeen
      /\ reading[p].stage = "version" /\ reading[p].for = "accept"
  BY DEF LegalInv, AcceptLegalAgreement
<1>2. /\ page[p].shown /\ reading[p].version \in Files
      /\ page[p].version \in Files /\ page[p].language \in Languages /\ page[p].content \in Nat
  BY <1>1, RequestShape DEF RequestFollowsFiles
<1>3. agreements' \subseteq agreements \union {accepted}
  BY DEF AcceptLegalAgreement
<1>4. accepted \in agreements' /\ accepted \notin agreements => page[p].version = reading[p].version
  BY DEF AcceptLegalAgreement, SameVersion
<1>5. LegalTypeOK'
  BY <1>1, <1>2, <1>3 DEF AcceptLegalAgreement, LegalTypeOK
<1>6. reading'[p] = Idle
  BY <1>1 DEF AcceptLegalAgreement, LegalTypeOK
<1>7. PageFollowsFiles(p)' /\ RequestFollowsFiles(p)'
  BY <1>1, <1>6 DEF AcceptLegalAgreement, PageFollowsFiles, RequestFollowsFiles, Idle
<1>8. AgreedWasSeen'
  <2> SUFFICES ASSUME NEW a \in agreements'
               PROVE  \E s \in seen : s.user = a.user /\ Fits(s) /\ s.page.version = a.version
    BY DEF AcceptLegalAgreement, AgreedWasSeen, Fits
  <2>1. CASE a \in agreements
    BY <1>1, <2>1 DEF AgreedWasSeen
  <2>2. CASE a = accepted /\ a \notin agreements
    <3> DEFINE s == [user |-> p, page |-> page[p]]
    <3>1. s \in seen
      BY <1>1, <1>2 DEF PageFollowsFiles
    <3>2. page[p].version = reading[p].version
      BY <1>4, <2>2
    <3>3. page[p].version[page[p].language] \in Nat
      BY <1>2 DEF Files
    <3>4. page[p].content = page[p].version[page[p].language]
      BY <1>1, <1>2, <3>2, <3>3 DEF PageFollowsFiles, RequestFollowsFiles
    <3>5. s.user = a.user /\ Fits(s) /\ s.page.version = a.version
      BY <2>2, <3>2, <3>4 DEF Fits
    <3> QED
      BY <3>1, <3>5
  <2> QED
    BY <1>3, <2>1, <2>2
<1>9. TermsSeenBeforePaying'
  BY DEF AcceptLegalAgreement, LegalInv, TermsSeenBeforePaying
<1> QED
  BY <1>1, <1>5, <1>7, <1>8, <1>9, RequestKeeps DEF AcceptLegalAgreement, LegalTypeOK

\* A payment may go on for a version that was agreed to and is no older than
\* the files there were when it was asked for.
LEMMA CheckKeeps ==
    ASSUME LegalInv, NEW p \in Readers, HasAcceptedLatestLegalAgreement(p)
    PROVE  LegalInv'
<1>1. /\ LegalTypeOK /\ PageFollowsFiles(p) /\ RequestFollowsFiles(p) /\ AgreedWasSeen
      /\ reading[p].stage = "version"
  BY DEF LegalInv, HasAcceptedLatestLegalAgreement
<1>2. reading[p].asked \in Files
  BY <1>1, RequestShape
<1>3. reading'[p] = IF HasAccepted(p, reading[p].version) THEN [stage |-> "agreed", asked |-> reading[p].asked] ELSE Idle
  BY <1>1 DEF HasAcceptedLatestLegalAgreement, LegalTypeOK
<1>4. LegalTypeOK'
  BY <1>1, <1>2, RequestForms DEF HasAcceptedLatestLegalAgreement, LegalTypeOK
<1>5. HasAccepted(p, reading[p].version) => Informed(p, reading[p].asked)
  BY <1>1 DEF HasAccepted, AgreedWasSeen, Informed, RequestFollowsFiles
<1>6. PageFollowsFiles(p)'
  BY <1>1 DEF HasAcceptedLatestLegalAgreement, PageFollowsFiles
<1>7. RequestFollowsFiles(p)'
  <2>1. seen' = seen
    BY DEF HasAcceptedLatestLegalAgreement
  <2> QED
    BY <1>3, <1>5, <2>1 DEF RequestFollowsFiles, Idle, Informed, Fits, AtLeast
<1>8. AgreedWasSeen' /\ TermsSeenBeforePaying'
  BY DEF HasAcceptedLatestLegalAgreement, LegalInv, AgreedWasSeen, TermsSeenBeforePaying, Fits
<1> QED
  BY <1>1, <1>4, <1>6, <1>7, <1>8, RequestKeeps DEF HasAcceptedLatestLegalAgreement, LegalTypeOK

LEMMA PayKeeps ==
    ASSUME LegalInv, NEW p \in Readers, CreatePayment(p)
    PROVE  LegalInv'
<1>1. /\ LegalTypeOK /\ PageFollowsFiles(p) /\ RequestFollowsFiles(p) /\ TermsSeenBeforePaying
      /\ reading[p].stage = "agreed"
  BY DEF LegalInv, CreatePayment
<1>2. reading[p].asked \in Files /\ Informed(p, reading[p].asked)
  BY <1>1, RequestShape DEF RequestFollowsFiles
<1>3. reading'[p] = Idle
  BY <1>1 DEF CreatePayment, LegalTypeOK
<1>4. LegalTypeOK'
  BY <1>1, <1>2 DEF CreatePayment, LegalTypeOK
<1>5. PageFollowsFiles(p)' /\ RequestFollowsFiles(p)'
  BY <1>1, <1>3 DEF CreatePayment, PageFollowsFiles, RequestFollowsFiles, Idle
<1>6. TermsSeenBeforePaying'
  BY <1>1, <1>2 DEF CreatePayment, TermsSeenBeforePaying, Informed, Fits, AtLeast
<1>7. AgreedWasSeen'
  BY DEF CreatePayment, LegalInv, AgreedWasSeen, Fits
<1> QED
  BY <1>1, <1>4, <1>5, <1>6, <1>7, RequestKeeps DEF CreatePayment, LegalTypeOK

LEMMA CutOffKeeps ==
    ASSUME LegalInv, NEW p \in Readers, CutOff(p)
    PROVE  LegalInv'
<1>1. LegalTypeOK /\ PageFollowsFiles(p) /\ LegalTypeOK'
  BY DEF LegalInv, CutOff, LegalTypeOK
<1>2. reading'[p] = Idle
  BY <1>1 DEF CutOff, LegalTypeOK
<1>3. PageFollowsFiles(p)' /\ RequestFollowsFiles(p)'
  BY <1>1, <1>2 DEF CutOff, PageFollowsFiles, RequestFollowsFiles, Idle
<1>4. AgreedWasSeen' /\ TermsSeenBeforePaying'
  BY DEF CutOff, LegalInv, AgreedWasSeen, TermsSeenBeforePaying, Fits
<1> QED
  BY <1>1, <1>3, <1>4, RequestKeeps DEF CutOff, LegalTypeOK

LEMMA LegalKept == LegalInv /\ [Next]_vars => LegalInv'
<1> SUFFICES ASSUME LegalInv, [Next]_vars PROVE LegalInv'
  OBVIOUS
<1>1. CASE UNCHANGED legal
  BY <1>1 DEF legal, LegalInv, LegalTypeOK, PageFollowsFiles, RequestFollowsFiles, Informed, AgreedWasSeen,
              TermsSeenBeforePaying, Fits, AtLeast
<1>2. CASE \E language \in Languages : ReplaceFile(language)
  BY <1>2, ReplaceKeeps
<1>3. CASE \E p \in Readers : RequestOf(p)
  BY <1>3, BeginKeeps, LoadKeeps, ShowKeeps, AcceptKeeps, CheckKeeps, PayKeeps, CutOffKeeps DEF RequestOf
<1> QED
  BY <1>1, <1>2, <1>3 DEF Next, OpenMiniApp, vars

LEMMA LegalAtStart == Init => LegalInv
<1> SUFFICES ASSUME Init PROVE LegalInv
  OBVIOUS
<1>1. LegalTypeOK
  BY DEF Init, LegalInit, LegalTypeOK, Files
<1>2. \A p \in Readers : PageFollowsFiles(p) /\ RequestFollowsFiles(p)
  BY DEF Init, LegalInit, PageFollowsFiles, RequestFollowsFiles, NoPage, Idle
<1>3. AgreedWasSeen /\ TermsSeenBeforePaying
  BY DEF Init, LegalInit, AgreedWasSeen, TermsSeenBeforePaying
<1> QED
  BY <1>1, <1>2, <1>3 DEF LegalInv

\* Whoever has a payment was shown the terms in force when he asked for it, or
\* later ones, with their own text, whatever files an operator replaces between
\* any two steps of the requests (loadLegalDocumentMeta reads them one by one).
THEOREM NobodyPaysBlindly == Spec => []TermsSeenBeforePaying
<1>1. LegalInv => TermsSeenBeforePaying
  BY DEF LegalInv
<1> QED
  BY <1>1, LegalAtStart, LegalKept, PTL DEF Spec

-----------------------------------------------------------------------------
(***************************************************************************)
(* Registration.  Users are numbered as they come, so that whoever is      *)
(* registered already has a smaller number than the next.                  *)
(***************************************************************************)

Numbered == \A p \in DOMAIN users : users[p].number <= Cardinality(DOMAIN users)

RegistersInv ==
    /\ IsTable(users, People, UserRow)
    /\ referrals \subseteq People \X People
    /\ Numbered
    /\ InviterIsSettled

LEMMA RegisterKeeps ==
    ASSUME RegistersInv, NEW p \in People, NEW code \in People \union {Nobody},
           RegisterOrUpdateTelegramUser(p, code)
    PROVE  RegistersInv'
<1> DEFINE row == [inviter |-> Inviter(p, code), number |-> Cardinality(DOMAIN users) + 1]
<1>1. IsFiniteSet(DOMAIN users) /\ Cardinality(DOMAIN users) \in Nat
  BY FS_Subset, FS_CardinalityType, BotAssumption DEF RegistersInv, IsTable
<1>2. CASE p \in DOMAIN users
  <2>1. UNCHANGED <<users, referrals>>
    BY <1>2 DEF RegisterOrUpdateTelegramUser, Registered
  <2> QED
    BY <2>1 DEF RegistersInv, IsTable, Numbered, InviterIsSettled
<1>3. CASE p \notin DOMAIN users
  <2>1. users' = Insert(users, p, row)
    BY <1>3 DEF RegisterOrUpdateTelegramUser, Registered
  <2>2. /\ DOMAIN users' = DOMAIN users \union {p} /\ users'[p] = row
        /\ \A q \in DOMAIN users : users'[q] = users[q]
    BY <1>3, <2>1 DEF Insert
  <2>3. Inviter(p, code) \in People \union {Nobody}
        /\ (Inviter(p, code) # Nobody => Inviter(p, code) \in DOMAIN users)
    BY DEF Inviter, RegistersInv, IsTable
  <2>4. row \in UserRow
    BY <1>1, <2>3 DEF UserRow
  <2>5. IsTable(users, People, UserRow)'
    BY <2>1, <2>4 DEF RegistersInv, IsTable, Insert
  <2>6. referrals' = IF Inviter(p, code) # Nobody THEN referrals \union {<<Inviter(p, code), p>>} ELSE referrals
    BY <1>3 DEF RegisterOrUpdateTelegramUser
  <2>7. referrals' \subseteq People \X People
    BY <2>3, <2>6 DEF RegistersInv
  <2>8. Cardinality(DOMAIN users') = Cardinality(DOMAIN users) + 1
    BY <1>1, <1>3, <2>2, FS_AddElement
  <2>9. \A q \in DOMAIN users : users[q].number \in Nat /\ users[q].inviter \in People \union {Nobody}
    BY DEF RegistersInv, IsTable, UserRow
  <2>10. Numbered'
    BY <1>1, <2>2, <2>8, <2>9 DEF RegistersInv, Numbered
  <2>11. \A r \in referrals' : r[1] \in DOMAIN users' /\ users'[r[1]].number < users'[r[2]].number
    <3> SUFFICES ASSUME NEW r \in referrals'
                 PROVE  r[1] \in DOMAIN users' /\ users'[r[1]].number < users'[r[2]].number
      OBVIOUS
    <3>1. CASE r \in referrals
      <4>1. r[1] \in DOMAIN users /\ r[2] \in DOMAIN users /\ users[r[1]].number < users[r[2]].number
        BY <3>1 DEF RegistersInv, InviterIsSettled
      <4> QED
        BY <2>2, <4>1
    <3>2. CASE r = <<Inviter(p, code), p>> /\ Inviter(p, code) # Nobody
      <4>1. r[1] \in DOMAIN users /\ r[2] = p
        BY <2>3, <3>2
      <4>2. users[r[1]].number <= Cardinality(DOMAIN users) /\ users[r[1]].number \in Nat
        BY <2>9, <4>1 DEF RegistersInv, Numbered
      <4> QED
        BY <1>1, <2>2, <4>1, <4>2
    <3> QED
      BY <2>6, <3>1, <3>2
  <2>12. referrals' = {<<users'[q].inviter, q>> : q \in {x \in DOMAIN users' : users'[x].inviter # Nobody}}
    <3>1. referrals = {<<users[q].inviter, q>> : q \in {x \in DOMAIN users : users[x].inviter # Nobody}}
      BY DEF RegistersInv, InviterIsSettled
    <3>2. users'[p].inviter = Inviter(p, code)
      BY <2>2
    <3> HIDE DEF row
    <3> QED
      BY <1>3, <2>2, <2>6, <3>1, <3>2
  <2> QED
    BY <2>5, <2>7, <2>10, <2>11, <2>12 DEF RegistersInv, InviterIsSettled
<1> QED
  BY <1>2, <1>3

LEMMA RegistryStays == RegistersInv /\ UNCHANGED registry => RegistersInv'
BY DEF registry, RegistersInv, IsTable, Numbered, InviterIsSettled

-----------------------------------------------------------------------------
(***************************************************************************)
(* The bot.  What it has in hand are messages Telegram has, and it asks    *)
(* for none beyond the next.                                               *)
(***************************************************************************)

PollerFits ==
    /\ Len(sent) <= MaxMessages
    /\ poller.stage \in {"down", "ready", "registered", "saving"}
    /\ poller.stage = "down" => poller = Down
    /\ poller.stage # "down" =>
        /\ poller.offset \in 0..(Len(sent) + 1)
        /\ poller.batch \in Seq(Nat)
        /\ \A i \in 1..Len(poller.batch) : poller.batch[i] \in 1..Len(sent)
    /\ poller.stage \in {"registered", "saving"} => poller.batch # <<>>
    /\ poller.stage = "saving" => poller.answers \in Answers

\* The parts of BotTypeOK that are not about the registry.
BotOK ==
    /\ saved \subseteq [user : People, answers : Answers]
    /\ IsTable(dialogue, People, Answers)
    /\ sent \in Seq(Message) /\ confirmed \in 0..Len(sent)
    /\ times \in [1..MaxMessages -> Nat]
    /\ crashes \in 0..MaxCrashes /\ faults \in 0..MaxFaults
    /\ PollerFits

LEMMA Bounds == Questions \in Nat /\ MaxMessages \in Nat /\ MaxCrashes \in Nat /\ MaxFaults \in Nat
BY BotAssumption

\* The message in hand.
LEMMA CurrentFits ==
    ASSUME BotOK, poller.stage # "down", poller.batch # <<>>
    PROVE  /\ Current \in 1..Len(sent) /\ Current \in 1..MaxMessages
           /\ sent[Current] \in Message /\ From \in People
           /\ Tail(poller.batch) \in Seq(Nat)
           /\ \A i \in 1..Len(Tail(poller.batch)) : Tail(poller.batch)[i] \in 1..Len(sent)
<1>1. poller.batch \in Seq(Nat) /\ \A i \in 1..Len(poller.batch) : poller.batch[i] \in 1..Len(sent)
  BY DEF BotOK, PollerFits
<1>2. Len(poller.batch) \in Nat \ {0} /\ Current = poller.batch[1]
  BY <1>1 DEF Current
<1>3. Current \in 1..Len(sent) /\ Len(sent) <= MaxMessages /\ Len(sent) \in Nat
  BY <1>1, <1>2 DEF BotOK, PollerFits
<1>4. Current \in 1..MaxMessages
  BY <1>3, Bounds
<1>5. sent[Current] \in Message
  BY <1>3 DEF BotOK
<1>6. From \in People
  BY <1>5 DEF From, Message
<1>7. /\ Tail(poller.batch) \in Seq(Nat) /\ Len(Tail(poller.batch)) = Len(poller.batch) - 1
      /\ \A i \in 1..Len(Tail(poller.batch)) : Tail(poller.batch)[i] = poller.batch[i + 1]
  BY <1>1, <1>2
<1>8. \A i \in 1..Len(Tail(poller.batch)) : Tail(poller.batch)[i] \in 1..Len(sent)
  <2> TAKE i \in 1..Len(Tail(poller.batch))
  <2>1. i + 1 \in 1..Len(poller.batch)
    BY <1>2, <1>7
  <2> QED
    BY <1>1, <1>7, <2>1
<1>9. Tail(poller.batch) \in Seq(Nat)
  BY <1>7
<1> QED
  BY <1>3, <1>4, <1>5, <1>6, <1>8, <1>9

LEMMA WriteKeeps ==
    ASSUME BotOK, NEW message \in Messages, Write(message)
    PROVE  BotOK'
<1>1. sent' \in Seq(Message) /\ Len(sent') = Len(sent) + 1 /\ Len(sent) \in Nat
  BY BotAssumption DEF Write, BotOK
<1>2. PollerFits'
  <2>1. PollerFits /\ UNCHANGED poller
    BY DEF Write, BotOK
  <2>2. Len(sent') <= MaxMessages
    BY <1>1, Bounds DEF Write
  <2>3. 0..(Len(sent) + 1) \subseteq 0..(Len(sent') + 1) /\ 1..Len(sent) \subseteq 1..Len(sent')
    BY <1>1
  <2> QED
    BY <2>1, <2>2, <2>3 DEF PollerFits
<1> QED
  BY <1>1, <1>2 DEF Write, BotOK, IsTable

\* What a poll brings follows what Telegram let go of.
LEMMA PollKeeps ==
    ASSUME BotOK, Poll
    PROVE  BotOK'
<1> DEFINE gone == IF poller.offset > confirmed + 1 THEN poller.offset - 1 ELSE confirmed
           new == [i \in 1..(Len(sent) - gone) |-> gone + i]
<1>1. /\ poller.stage = "ready" /\ poller.offset \in 0..(Len(sent) + 1)
      /\ poller.batch \in Seq(Nat) /\ \A i \in 1..Len(poller.batch) : poller.batch[i] \in 1..Len(sent)
      /\ Len(sent) \in Nat /\ confirmed \in 0..Len(sent) /\ Len(sent) <= MaxMessages
  BY DEF Poll, BotOK, PollerFits
<1>2. gone \in 0..Len(sent)
  BY <1>1
<1>3. confirmed' = gone /\ UNCHANGED <<saved, dialogue, sent, times, crashes>>
  BY DEF Poll
<1>4. new \in Seq(Nat) /\ Len(new) = Len(sent) - gone
      /\ \A i \in 1..Len(new) : new[i] \in 1..Len(sent)
  <2> HIDE DEF gone
  <2>1. Len(sent) - gone \in Nat
    BY <1>1, <1>2
  <2>2. \A i \in 1..(Len(sent) - gone) : gone + i \in 1..Len(sent)
    BY <1>1, <1>2
  <2>3. new \in Seq(Nat) /\ Len(new) = Len(sent) - gone
    BY <1>1, <1>2, <2>1
  <2> QED
    BY <2>2, <2>3
<1>5. faults' \in 0..MaxFaults
  BY Bounds DEF Poll, Fault, BotOK
<1>6. poller' = Ready(poller.offset, new) \/ UNCHANGED poller
  BY DEF Poll
<1>7. PollerFits'
  <2>1. CASE poller' = Ready(poller.offset, new)
    <3> HIDE DEF gone, new
    <3> QED
      BY <1>1, <1>3, <1>4, <2>1 DEF Ready, PollerFits
  <2>2. CASE UNCHANGED poller
    BY <1>3, <2>2 DEF BotOK, PollerFits
  <2> QED
    BY <1>6, <2>1, <2>2
<1> HIDE DEF gone, new
<1> QED
  BY <1>2, <1>3, <1>5, <1>7 DEF BotOK, IsTable

LEMMA TakeKeeps ==
    ASSUME BotOK, TakeMessage
    PROVE  BotOK'
<1>1. poller.stage = "ready" /\ poller.batch # <<>> /\ PollerFits
  BY DEF TakeMessage, BotOK
<1>2. /\ Current \in 1..Len(sent) /\ Current \in 1..MaxMessages /\ Len(sent) \in Nat
      /\ Tail(poller.batch) \in Seq(Nat)
      /\ \A i \in 1..Len(Tail(poller.batch)) : Tail(poller.batch)[i] \in 1..Len(sent)
  BY <1>1, CurrentFits DEF BotOK
<1>3. PICK offset :
          /\ offset \in {NextOffset(Current), poller.offset}
          /\ \/ /\ poller' = [stage |-> "registered", offset |-> offset, batch |-> poller.batch]
                /\ UNCHANGED <<times, faults>>
             \/ /\ Fault
                /\ poller' = Ready(offset, Tail(poller.batch))
                /\ times' = [times EXCEPT ![Current] = @ + 1]
  BY DEF TakeMessage
<1>4. offset \in 0..(Len(sent) + 1)
  BY <1>1, <1>2, <1>3 DEF NextOffset, PollerFits
<1>5. UNCHANGED <<saved, dialogue, sent, confirmed, crashes>>
  BY DEF TakeMessage
<1>6. times' \in [1..MaxMessages -> Nat] /\ faults' \in 0..MaxFaults
  <2>1. times \in [1..MaxMessages -> Nat] /\ faults \in 0..MaxFaults
    BY DEF BotOK
  <2>2. times' \in [1..MaxMessages -> Nat]
    BY <1>2, <1>3, <2>1
  <2>3. faults' \in 0..MaxFaults
    BY <1>3, <2>1, Bounds DEF Fault
  <2> QED
    BY <2>2, <2>3
<1>7. PollerFits'
  <2>1. CASE poller' = [stage |-> "registered", offset |-> offset, batch |-> poller.batch]
    BY <1>1, <1>4, <1>5, <2>1 DEF PollerFits
  <2>2. CASE poller' = Ready(offset, Tail(poller.batch))
    BY <1>1, <1>2, <1>4, <1>5, <2>2 DEF PollerFits, Ready
  <2> QED
    BY <1>3, <2>1, <2>2
<1> QED
  BY <1>5, <1>6, <1>7 DEF BotOK, IsTable

\* A message that is done with.
LEMMA HandledKeeps ==
    ASSUME BotOK, poller.stage \in {"registered", "saving"}, Handled, UNCHANGED sent
    PROVE  PollerFits' /\ times' \in [1..MaxMessages -> Nat]
<1>1. PollerFits /\ poller.batch # <<>>
  BY DEF BotOK, PollerFits
<1>2. /\ Current \in 1..MaxMessages
      /\ Tail(poller.batch) \in Seq(Nat)
      /\ \A i \in 1..Len(Tail(poller.batch)) : Tail(poller.batch)[i] \in 1..Len(sent)
  BY <1>1, CurrentFits
<1>3. times' \in [1..MaxMessages -> Nat]
  <2>1. times' = [times EXCEPT ![Current] = @ + 1]
    BY DEF Handled
  <2>2. times \in [1..MaxMessages -> Nat]
    BY DEF BotOK
  <2> QED
    BY <1>2, <2>1, <2>2
<1>4. PollerFits'
  BY <1>1, <1>2 DEF Handled, PollerFits, Ready
<1> QED
  BY <1>3, <1>4

LEMMA ReplyKeeps ==
    ASSUME BotOK, Reply
    PROVE  BotOK'
<1> DEFINE asking == From \in DOMAIN dialogue
           answers == IF asking THEN Append(dialogue[From], Current) ELSE <<>>
<1>1. poller.stage = "registered" /\ PollerFits /\ poller.batch # <<>>
  BY DEF Reply, BotOK, PollerFits
<1>2. Current \in 1..MaxMessages /\ From \in People
  BY <1>1, CurrentFits
<1>3. IsTable(dialogue, People, Answers)
  BY DEF BotOK
<1>4. answers \in Answers
  <2>1. CASE asking
    BY <1>2, <1>3, <2>1 DEF IsTable, Answers
  <2>2. CASE ~asking
    BY <2>2 DEF Answers
  <2> QED
    BY <2>1, <2>2
<1> HIDE DEF answers
<1>5. UNCHANGED <<saved, sent, confirmed, crashes>>
  BY DEF Reply
<1>6. faults' \in 0..MaxFaults
  BY Bounds DEF Reply, Fault, BotOK
<1>7. /\ \/ dialogue' = NoLongerAsking(From)
         \/ dialogue' = Insert(dialogue, From, <<>>)
         \/ asking /\ dialogue' = [dialogue EXCEPT ![From] = answers]
         \/ UNCHANGED dialogue
      /\ \/ Handled
         \/ /\ poller' = [stage |-> "saving", offset |-> poller.offset, batch |-> poller.batch,
                          answers |-> answers]
            /\ UNCHANGED times
  BY DEF Reply, answers
<1>8. IsTable(dialogue, People, Answers)'
  <2>1. <<>> \in Answers
    BY DEF Answers
  <2> QED
    BY <1>2, <1>3, <1>4, <1>7, <2>1 DEF IsTable, NoLongerAsking, Insert
<1>9. PollerFits' /\ times' \in [1..MaxMessages -> Nat]
  <2>1. CASE Handled
    BY <1>1, <1>5, <2>1, HandledKeeps
  <2>2. CASE poller' = [stage |-> "saving", offset |-> poller.offset, batch |-> poller.batch,
                        answers |-> answers] /\ UNCHANGED times
    BY <1>1, <1>4, <1>5, <2>2 DEF BotOK, PollerFits
  <2> QED
    BY <1>7, <2>1, <2>2
<1> QED
  BY <1>5, <1>6, <1>8, <1>9 DEF BotOK

LEMMA SaveKeeps ==
    ASSUME BotOK, SaveDiagnostics
    PROVE  BotOK'
<1>1. poller.stage = "saving" /\ PollerFits /\ poller.batch # <<>> /\ poller.answers \in Answers
  BY DEF SaveDiagnostics, BotOK, PollerFits
<1>2. From \in People
  BY <1>1, CurrentFits
<1>3. saved' \subseteq [user : People, answers : Answers]
  BY <1>1, <1>2 DEF SaveDiagnostics, BotOK
<1>4. PollerFits' /\ times' \in [1..MaxMessages -> Nat]
  BY <1>1, HandledKeeps DEF SaveDiagnostics
<1>5. faults' \in 0..MaxFaults
  BY Bounds DEF SaveDiagnostics, Fault, BotOK
<1> QED
  BY <1>3, <1>4, <1>5 DEF SaveDiagnostics, BotOK, IsTable

\* The key-value store forgets, the process crashes and starts.
LEMMA LifeKeeps ==
    ASSUME BotOK, (\E u \in People : Forget(u)) \/ Crash \/ Start
    PROVE  BotOK'
<1>1. CASE \E u \in People : Forget(u)
  <2>1. IsTable(dialogue, People, Answers)'
    BY <1>1 DEF Forget, BotOK, IsTable
  <2> QED
    BY <1>1, <2>1 DEF Forget, BotOK, PollerFits
<1>2. CASE Crash
  <2>1. IsTable(dialogue, People, Answers)'
    BY <1>2 DEF Crash, BotOK, IsTable, EmptyTable
  <2>2. crashes' \in 0..MaxCrashes
    BY <1>2, Bounds DEF Crash, BotOK
  <2>3. PollerFits'
    BY <1>2 DEF Crash, BotOK, PollerFits, Down
  <2> QED
    BY <1>2, <2>1, <2>2, <2>3 DEF Crash, BotOK
<1>3. CASE Start
  <2>1. PollerFits'
    BY <1>3 DEF Start, BotOK, PollerFits, Ready
  <2> QED
    BY <1>3, <2>1 DEF Start, BotOK, IsTable
<1> QED
  BY <1>1, <1>2, <1>3

-----------------------------------------------------------------------------
(* Both ways in together. *)

AccountsInv ==
    /\ RegistersInv
    /\ BotOK
    /\ LegalInv
    /\ followed \in Followed

LEMMA AccountsAtStart == Init => AccountsInv
<1> SUFFICES ASSUME Init PROVE AccountsInv
  OBVIOUS
<1>1. RegistersInv
  BY DEF Init, BotInit, EmptyTable, RegistersInv, IsTable, Numbered, InviterIsSettled
<1>2. PollerFits
  BY Bounds DEF Init, BotInit, PollerFits, Down
<1>3. BotOK
  BY <1>2, Bounds DEF Init, BotInit, EmptyTable, BotOK, IsTable
<1> QED
  BY <1>1, <1>3, LegalAtStart DEF Init, AccountsInv

LEMMA RegistryKept == AccountsInv /\ [Next]_vars => RegistersInv'
<1> SUFFICES ASSUME AccountsInv, [Next]_vars PROVE RegistersInv'
  OBVIOUS
<1>1. CASE UNCHANGED registry
  BY <1>1, RegistryStays DEF AccountsInv
<1>2. CASE \E opening \in Openings : OpenMiniApp(opening[1], opening[2])
  <2>1. PICK opening \in Openings : OpenMiniApp(opening[1], opening[2])
    BY <1>2
  <2>2. opening[1] \in People /\ opening[2] \in People \union {Nobody}
    BY AccountsAssumption
  <2> QED
    BY <2>1, <2>2, RegisterKeeps DEF OpenMiniApp, AccountsInv
<1>3. CASE TakeMessage /\ ~UNCHANGED registry
  <2>1. poller.stage = "ready" /\ poller.batch # <<>> /\ RegisterOrUpdateTelegramUser(From, sent[Current].code)
    BY <1>3 DEF TakeMessage
  <2>2. sent[Current] \in Message /\ From \in People
    BY <2>1, CurrentFits DEF AccountsInv
  <2>3. sent[Current].code \in People \union {Nobody}
    BY <2>2 DEF Message
  <2> QED
    BY <2>1, <2>2, <2>3, RegisterKeeps DEF AccountsInv
<1>4. BotNext => UNCHANGED registry \/ TakeMessage
  BY DEF BotNext, PollerStep, Write, Poll, Reply, SaveDiagnostics, Forget, Crash, Start
<1> QED
  BY <1>1, <1>2, <1>3, <1>4 DEF Next, vars

LEMMA BotKept == AccountsInv /\ [Next]_vars => BotOK'
<1> SUFFICES ASSUME AccountsInv, [Next]_vars PROVE BotOK'
  OBVIOUS
<1>1. CASE UNCHANGED bot
  BY <1>1 DEF bot, AccountsInv, BotOK, PollerFits, IsTable
<1>2. CASE BotNext
  BY <1>2, WriteKeeps, PollKeeps, TakeKeeps, ReplyKeeps, SaveKeeps, LifeKeeps
     DEF AccountsInv, BotNext, PollerStep
<1> QED
  BY <1>1, <1>2 DEF Next, OpenMiniApp, vars

LEMMA AccountsAlways == Spec => []AccountsInv
<1>1. AccountsInv /\ [Next]_vars => followed' \in Followed
  BY DEF AccountsInv, Next, OpenMiniApp, vars
<1>2. AccountsInv /\ [Next]_vars => AccountsInv'
  BY <1>1, RegistryKept, BotKept, LegalKept DEF AccountsInv
<1> QED
  BY <1>2, AccountsAtStart, PTL DEF Spec

\* The tables and the bot's state keep their shape, and who invited a user is
\* settled at his first contact, by the bot or the Mini App, however often
\* messages are repeated (RegisterOrUpdateTelegramUser).
THEOREM InviterSettledForGood == Spec => []RegistryInv
<1>1. AccountsInv => RegistryInv
  BY DEF AccountsInv, RegistersInv, BotOK, LegalInv, RegistryInv, AccountsTypeOK, BotTypeOK
<1> QED
  BY <1>1, AccountsAlways, PTL

-----------------------------------------------------------------------------
(***************************************************************************)
(* The messages a life of the process has behind it: what it has taken, as *)
(* far as it knows.  They only grow until it crashes, and no message among *)
(* them is taken again.                                                    *)
(***************************************************************************)

Rising(q) == \A j, k \in DOMAIN q : j < k => q[j] < q[k]

Taken ==
    IF poller.stage = "down" THEN {}
    ELSE IF poller.batch = <<>> THEN {i \in 1..Len(sent) : i < poller.offset \/ i <= confirmed}
    ELSE {i \in 1..Len(sent) : i < Current}

BatchRises ==
    poller.stage # "down" =>
        /\ Rising(poller.batch)
        /\ poller.stage # "ready" => poller.offset > Current

HandledOnce ==
    \A i \in 1..MaxMessages : times[i] <= crashes + 1 /\ (i \notin Taken => times[i] <= crashes)

\* A step that leaves the messages of this life where they are, or crashes.
Forward ==
    /\ Len(sent) <= Len(sent') /\ \A i \in 1..Len(sent) : sent'[i] = sent[i]
    /\ \/ crashes' = crashes /\ Taken \subseteq Taken'
       \/ crashes' = crashes + 1 /\ times' = times

LEMMA TailRises ==
    ASSUME NEW b \in Seq(Nat), b # <<>>, Rising(b)
    PROVE  /\ Rising(Tail(b))
           /\ Tail(b) # <<>> => Head(Tail(b)) > Head(b)
<1>1. /\ Len(b) \in Nat \ {0} /\ Tail(b) \in Seq(Nat) /\ Len(Tail(b)) = Len(b) - 1
      /\ \A i \in 1..Len(Tail(b)) : Tail(b)[i] = b[i + 1]
  OBVIOUS
<1>2. DOMAIN b = 1..Len(b) /\ DOMAIN Tail(b) = 1..(Len(b) - 1)
  BY <1>1
<1>3. ASSUME NEW j \in DOMAIN Tail(b), NEW k \in DOMAIN Tail(b), j < k
      PROVE  Tail(b)[j] < Tail(b)[k]
  <2>1. j + 1 \in DOMAIN b /\ k + 1 \in DOMAIN b /\ j + 1 < k + 1
    BY <1>1, <1>2, <1>3
  <2> QED
    BY <1>1, <1>2, <2>1 DEF Rising
<1>4. Tail(b) # <<>> => Head(Tail(b)) > Head(b)
  <2>1. SUFFICES ASSUME Tail(b) # <<>>
                 PROVE  Head(Tail(b)) > Head(b)
    OBVIOUS
  <2>2. Len(Tail(b)) \in Nat \ {0} /\ Head(Tail(b)) = Tail(b)[1] /\ Head(b) = b[1]
    BY <1>1, <2>1
  <2>3. Head(Tail(b)) = b[2] /\ 1 \in DOMAIN b /\ 2 \in DOMAIN b
    BY <1>1, <1>2, <2>2
  <2>4. b[1] < b[2] /\ b[1] \in Nat /\ b[2] \in Nat
    BY <2>3 DEF Rising
  <2> QED
    BY <2>2, <2>3, <2>4
<1> QED
  BY <1>3, <1>4 DEF Rising

LEMMA HeadIsNat ==
    ASSUME NEW q \in Seq(Nat), q # <<>>
    PROVE  Head(q) \in Nat
OBVIOUS

\* Done with the message in hand, the process has it behind it.
LEMMA TailTaken ==
    ASSUME BotOK, BatchRises, poller.stage # "down", poller.batch # <<>>, NEW offset,
           offset \in Nat, offset > Current,
           poller' = Ready(offset, Tail(poller.batch)), UNCHANGED <<sent, confirmed>>
    PROVE  BatchRises' /\ Taken \subseteq Taken' /\ Current \in Taken'
<1>1. /\ poller.batch \in Seq(Nat) /\ Rising(poller.batch)
      /\ Current \in 1..Len(sent) /\ Len(sent) \in Nat
  BY CurrentFits DEF BotOK, PollerFits, BatchRises
<1>2. /\ Rising(Tail(poller.batch))
      /\ Tail(poller.batch) # <<>> => Head(Tail(poller.batch)) > Current
  BY <1>1, TailRises DEF Current
<1>3. poller'.stage = "ready" /\ poller'.batch = Tail(poller.batch) /\ poller'.offset = offset
  BY DEF Ready
<1>4. BatchRises'
  BY <1>2, <1>3 DEF BatchRises
<1>5. PICK c \in 1..Len(sent) : c = Current
  BY <1>1
<1>6. ASSUME NEW i \in 1..Len(sent), i <= c
      PROVE  i \in Taken'
  <2>1. CASE Tail(poller.batch) = <<>>
    <3>1. Taken' = {j \in 1..Len(sent) : j < offset \/ j <= confirmed}
      BY <1>3, <2>1 DEF Taken
    <3>2. i < offset
      BY <1>5, <1>6
    <3> QED
      BY <3>1, <3>2
  <2>2. CASE Tail(poller.batch) # <<>>
    <3>1. PICK n : n = Head(Tail(poller.batch))
      OBVIOUS
    <3>2. n \in Nat /\ n > c
      <4>1. PICK t \in Seq(Nat) : t = Tail(poller.batch)
        BY <1>1, CurrentFits
      <4>2. Head(t) \in Nat
        BY <2>2, <4>1, HeadIsNat
      <4>3. n = Head(t)
        BY <3>1, <4>1
      <4>4. n > c
        BY <1>2, <1>5, <2>2, <3>1
      <4> QED
        BY <4>2, <4>3, <4>4
    <3>3. Taken' = {j \in 1..Len(sent) : j < n}
      BY <1>3, <2>2, <3>1 DEF Taken, Current
    <3> QED
      BY <1>6, <3>2, <3>3
  <2> QED
    BY <2>1, <2>2
<1>7. Taken = {i \in 1..Len(sent) : i < c}
  BY <1>5 DEF Taken
<1>8. Taken \subseteq Taken'
  BY <1>5, <1>6, <1>7
<1>9. c \in Taken'
  BY <1>5, <1>6
<1>10. Current \in Taken'
  BY <1>5, <1>9
<1> QED
  BY <1>4, <1>8, <1>10

LEMMA WriteForward ==
    ASSUME BotOK, BatchRises, NEW message \in Messages, Write(message)
    PROVE  BatchRises' /\ Forward
<1>1. /\ sent \in Seq(Message) /\ Len(sent) \in Nat /\ sent' = Append(sent, message)
      /\ message \in Message
  BY BotAssumption DEF Write, BotOK
<1>2. Len(sent') = Len(sent) + 1 /\ \A i \in 1..Len(sent) : sent'[i] = sent[i]
  BY <1>1
<1>3. UNCHANGED <<poller, confirmed, crashes>>
  BY DEF Write
<1>4. BatchRises'
  BY <1>3 DEF BatchRises, Current
<1>5. 1..Len(sent) \subseteq 1..Len(sent')
  BY <1>1, <1>2
<1>6. Taken \subseteq Taken'
  BY <1>3, <1>5 DEF Taken, Current
<1> QED
  BY <1>1, <1>2, <1>3, <1>4, <1>6 DEF Forward

\* The batch of a poll: the n messages after message g.
LEMMA BatchShape ==
    ASSUME NEW n \in Nat, NEW g \in Nat
    PROVE  LET b == [i \in 1..n |-> g + i]
           IN  /\ b \in Seq(Nat) /\ Len(b) = n
               /\ n # 0 => Head(b) = g + 1
<1> DEFINE b == [i \in 1..n |-> g + i]
<1>1. b \in [1..n -> Nat]
  OBVIOUS
<1>2. n # 0 => b[1] = g + 1
  OBVIOUS
<1> HIDE DEF b
<1>3. b \in Seq(Nat) /\ Len(b) = n
  BY <1>1
<1>4. Head(b) = b[1]
  OBVIOUS
<1>5. (b \in Seq(Nat) /\ Len(b) = n) /\ (n # 0 => Head(b) = g + 1)
  BY <1>2, <1>3, <1>4
<1> QED
  BY <1>5 DEF b

\* What Telegram lets go of has been taken, so a poll brings none of it.
LEMMA PollForward ==
    ASSUME BotOK, BatchRises, Poll
    PROVE  BatchRises' /\ Forward
<1>1. /\ poller.stage = "ready" /\ poller.batch = <<>> /\ poller.offset \in 0..(Len(sent) + 1)
      /\ Len(sent) \in Nat /\ confirmed \in Nat /\ confirmed <= Len(sent)
  BY DEF Poll, BotOK, PollerFits
<1>2. UNCHANGED <<sent, crashes>>
  BY DEF Poll
<1>3. PICK gone \in 0..Len(sent) :
          /\ gone = IF poller.offset > confirmed + 1 THEN poller.offset - 1 ELSE confirmed
          /\ confirmed' = gone
          /\ \/ poller' = Ready(poller.offset, [i \in 1..(Len(sent) - gone) |-> gone + i])
             \/ UNCHANGED poller
  <2> DEFINE g == IF poller.offset > confirmed + 1 THEN poller.offset - 1 ELSE confirmed
  <2>1. g \in 0..Len(sent)
    BY <1>1
  <2>2. /\ confirmed' = g
        /\ \/ poller' = Ready(poller.offset, [i \in 1..(Len(sent) - g) |-> g + i])
           \/ UNCHANGED poller
    BY DEF Poll
  <2> QED
    BY <2>1, <2>2
<1>4. \A i \in Nat : i < poller.offset \/ i <= confirmed => i <= gone
  BY <1>1, <1>3
<1>5. CASE UNCHANGED poller
  <2>1. BatchRises'
    BY <1>5 DEF BatchRises, Current
  <2>2. Taken \subseteq Taken'
    BY <1>1, <1>2, <1>3, <1>4, <1>5 DEF Taken
  <2> QED
    BY <1>1, <1>2, <2>1, <2>2 DEF Forward
<1>6. CASE poller' = Ready(poller.offset, [i \in 1..(Len(sent) - gone) |-> gone + i])
  <2> DEFINE b == [i \in 1..(Len(sent) - gone) |-> gone + i]
  <2>1. poller'.stage = "ready" /\ poller'.batch = b /\ poller'.offset = poller.offset
    BY <1>6 DEF Ready
  <2>2. Rising(b)
    BY <1>1, <1>3 DEF Rising
  <2>3. BatchRises'
    BY <2>1, <2>2 DEF BatchRises
  <2>4. Taken \subseteq Taken'
    <3>1. Taken \subseteq {i \in 1..Len(sent) : i <= gone}
      BY <1>1, <1>4 DEF Taken
    <3>2. CASE b = <<>>
      BY <1>2, <1>3, <2>1, <3>1, <3>2 DEF Taken
    <3>3. CASE b # <<>>
      <4>1. PICK n \in Nat : n = Len(sent) - gone
        BY <1>1, <1>3
      <4>2. Head(b) = gone + 1
        <5>0. gone \in Nat /\ b = [i \in 1..n |-> gone + i]
          BY <1>1, <4>1
        <5>1. b \in Seq(Nat) /\ Len(b) = n /\ (n # 0 => Head(b) = gone + 1)
          <6> HIDE DEF b
          <6> QED
            BY <5>0, BatchShape
        <5> HIDE DEF b
        <5>2. n # 0
          BY <3>3, <5>1
        <5> QED
          BY <5>1, <5>2
      <4>3. Current' = gone + 1
        BY <2>1, <4>2 DEF Current
      <4>4. Taken' = {i \in 1..Len(sent) : i < gone + 1}
        <5> HIDE DEF b
        <5> QED
          BY <1>2, <2>1, <3>3, <4>3 DEF Taken
      <4> QED
        BY <1>1, <1>3, <3>1, <4>4
    <3> QED
      BY <3>2, <3>3
  <2> QED
    BY <1>1, <1>2, <2>3, <2>4 DEF Forward
<1> QED
  BY <1>3, <1>5, <1>6

LEMMA TakeForward ==
    ASSUME BotOK, BatchRises, TakeMessage
    PROVE  /\ BatchRises' /\ Forward
           /\ times' = times \/ (Current \in Taken' /\ times' = [times EXCEPT ![Current] = @ + 1])
<1>1. poller.stage = "ready" /\ poller.batch # <<>> /\ poller.offset \in Nat
  BY DEF TakeMessage, BotOK, PollerFits
<1>2. Current \in Nat /\ Len(sent) \in Nat
  BY <1>1, CurrentFits DEF BotOK
<1>3. PICK offset \in Nat :
          /\ offset > Current
          /\ \/ /\ poller' = [stage |-> "registered", offset |-> offset, batch |-> poller.batch]
                /\ UNCHANGED <<times, faults>>
             \/ /\ Fault
                /\ poller' = Ready(offset, Tail(poller.batch))
                /\ times' = [times EXCEPT ![Current] = @ + 1]
  <2> DEFINE offset == IF Current >= poller.offset THEN NextOffset(Current) ELSE poller.offset
  <2>1. offset \in Nat /\ offset > Current
    BY <1>1, <1>2 DEF NextOffset
  <2> QED
    BY <2>1 DEF TakeMessage
<1>4. UNCHANGED <<sent, confirmed, crashes>>
  BY DEF TakeMessage
<1>5. CASE poller' = [stage |-> "registered", offset |-> offset, batch |-> poller.batch] /\ times' = times
  <2>1. poller'.stage = "registered" /\ poller'.batch = poller.batch /\ poller'.offset = offset
    BY <1>5
  <2>2. Current' = Current
    BY <2>1 DEF Current
  <2>3. BatchRises'
    BY <1>1, <1>3, <2>1, <2>2 DEF BatchRises
  <2>4. Taken' = Taken
    BY <1>1, <1>4, <2>1, <2>2 DEF Taken
  <2> QED
    BY <1>2, <1>4, <1>5, <2>3, <2>4 DEF Forward
<1>6. CASE poller' = Ready(offset, Tail(poller.batch)) /\ times' = [times EXCEPT ![Current] = @ + 1]
  <2>1. BatchRises' /\ Taken \subseteq Taken' /\ Current \in Taken'
    BY <1>1, <1>3, <1>4, <1>6, TailTaken
  <2> QED
    BY <1>2, <1>4, <1>6, <2>1 DEF Forward
<1> QED
  BY <1>3, <1>5, <1>6

LEMMA HandledForward ==
    ASSUME BotOK, BatchRises, poller.stage \in {"registered", "saving"}, Handled,
           UNCHANGED <<sent, confirmed, crashes>>
    PROVE  BatchRises' /\ Forward /\ Current \in Taken'
<1>1. poller.batch # <<>> /\ poller.offset \in Nat /\ poller.offset > Current /\ Len(sent) \in Nat
  BY DEF BotOK, PollerFits, BatchRises
<1>2. BatchRises' /\ Taken \subseteq Taken' /\ Current \in Taken'
  BY <1>1, TailTaken DEF Handled
<1> QED
  BY <1>1, <1>2 DEF Forward

LEMMA SavingForward ==
    ASSUME BotOK, BatchRises, poller.stage = "registered", NEW answers,
           poller' = [stage |-> "saving", offset |-> poller.offset, batch |-> poller.batch, answers |-> answers],
           UNCHANGED <<sent, confirmed, crashes>>
    PROVE  BatchRises' /\ Forward /\ Taken' = Taken /\ Current' = Current
<1>1. poller.batch # <<>> /\ Len(sent) \in Nat
  BY DEF BotOK, PollerFits
<1>2. /\ poller'.stage = "saving" /\ poller'.batch = poller.batch /\ poller'.offset = poller.offset
      /\ Current' = Current
  BY DEF Current
<1>3. BatchRises'
  BY <1>2 DEF BatchRises
<1>4. Taken' = Taken
  BY <1>1, <1>2 DEF Taken
<1> QED
  BY <1>1, <1>2, <1>3, <1>4 DEF Forward

LEMMA ReplyForward ==
    ASSUME BotOK, BatchRises, Reply
    PROVE  BatchRises' /\ Forward /\ (times' = times \/ (Handled /\ Current \in Taken'))
<1>1. poller.stage = "registered" /\ UNCHANGED <<sent, confirmed, crashes>>
  BY DEF Reply
<1>2. CASE Handled
  BY <1>1, <1>2, HandledForward
<1>3. CASE ~Handled
  <2>1. UNCHANGED times
    BY <1>3 DEF Reply
  <2>2. \E answers : poller' = [stage |-> "saving", offset |-> poller.offset,
                                batch |-> poller.batch, answers |-> answers]
    BY <1>3 DEF Reply
  <2> QED
    BY <1>1, <2>1, <2>2, SavingForward
<1> QED
  BY <1>2, <1>3

LEMMA LifeForward ==
    ASSUME BotOK, BatchRises, (\E u \in People : Forget(u)) \/ Crash \/ Start
    PROVE  BatchRises' /\ Forward
<1>1. Len(sent) \in Nat /\ crashes \in Nat
  BY DEF BotOK
<1>2. CASE \E u \in People : Forget(u)
  <2>1. UNCHANGED <<poller, sent, confirmed, crashes>>
    BY <1>2 DEF Forget
  <2> QED
    BY <1>1, <2>1 DEF BatchRises, Forward, Taken, Current
<1>3. CASE Crash
  <2>1. poller'.stage = "down" /\ UNCHANGED <<sent, times>> /\ crashes' = crashes + 1
    BY <1>3 DEF Crash, Down
  <2> QED
    BY <1>1, <2>1 DEF BatchRises, Forward
<1>4. CASE Start
  <2>1. /\ poller.stage = "down" /\ poller'.stage = "ready" /\ poller'.batch = <<>>
        /\ UNCHANGED <<sent, crashes>>
    BY <1>4 DEF Start, Down, Ready
  <2>2. BatchRises'
    BY <2>1 DEF BatchRises, Rising
  <2>3. Taken = {}
    BY <2>1 DEF Taken
  <2> QED
    BY <1>1, <2>1, <2>2, <2>3 DEF Forward
<1> QED
  BY <1>2, <1>3, <1>4

LEMMA OnceKept ==
    ASSUME BotOK, HandledOnce, Forward,
           \/ times' = times
           \/ /\ poller.stage # "down" /\ poller.batch # <<>>
              /\ crashes' = crashes /\ Current \in Taken'
              /\ times' = [times EXCEPT ![Current] = @ + 1]
    PROVE  HandledOnce'
<1>1. crashes \in Nat /\ times \in [1..MaxMessages -> Nat]
  BY DEF BotOK
<1>2. CASE times' = times
  BY <1>1, <1>2 DEF HandledOnce, Forward
<1>3. CASE /\ poller.stage # "down" /\ poller.batch # <<>>
           /\ crashes' = crashes /\ Current \in Taken'
           /\ times' = [times EXCEPT ![Current] = @ + 1]
  <2>1. PICK c \in 1..MaxMessages : c = Current
    BY <1>3, CurrentFits
  <2>2. c \notin Taken /\ c \in Taken' /\ Taken \subseteq Taken'
    <3>1. c \notin Taken
      BY <1>3, <2>1 DEF Taken
    <3>2. c \in Taken'
      BY <1>3, <2>1
    <3>3. Taken \subseteq Taken'
      BY <1>1, <1>3 DEF Forward
    <3> QED
      BY <3>1, <3>2, <3>3
  <2>3. ASSUME NEW i \in 1..MaxMessages
        PROVE  times'[i] <= crashes' + 1 /\ (i \notin Taken' => times'[i] <= crashes')
    <3>1. times[i] <= crashes + 1 /\ (i \notin Taken => times[i] <= crashes) /\ times[i] \in Nat
      BY <1>1 DEF HandledOnce
    <3>2. times'[i] = IF i = c THEN times[i] + 1 ELSE times[i]
      BY <1>1, <1>3, <2>1
    <3> QED
      BY <1>1, <1>3, <2>2, <3>1, <3>2
  <2> QED
    BY <2>3 DEF HandledOnce
<1> QED
  BY <1>2, <1>3

-----------------------------------------------------------------------------
(***************************************************************************)
(* Answers.  Those a user has given and those of a questionnaire are his   *)
(* own messages; in a life without a crash they come in order, after the   *)
(* request for the questions, and are among the messages taken, so that    *)
(* the one in hand is in no list yet.                                      *)
(***************************************************************************)

Extends(msgs, more) == Len(msgs) <= Len(more) /\ \A i \in 1..Len(msgs) : more[i] = msgs[i]

Own(msgs, q, u) ==
    \A k \in DOMAIN q : /\ q[k] \in 1..Len(msgs)
                        /\ msgs[q[k]].from = u /\ msgs[q[k]].kind # "menu"

Among(taken, q) == \A k \in DOMAIN q : q[k] \in taken

Ordered(msgs, taken, q, u) ==
    /\ Rising(q)
    /\ \E i \in taken : /\ msgs[i].from = u /\ msgs[i].kind = "diagnose"
                        /\ \A k \in DOMAIN q : i < q[k]

Apart(q, r) == \A j \in DOMAIN q, k \in DOMAIN r : q[j] # r[k]

DialogueFits ==
    \A u \in DOMAIN dialogue :
        /\ Len(dialogue[u]) < Questions /\ Own(sent, dialogue[u], u)
        /\ crashes = 0 => Among(Taken, dialogue[u]) /\ Ordered(sent, Taken, dialogue[u], u)

SavedFits ==
    \A s \in saved :
        /\ Len(s.answers) = Questions /\ Own(sent, s.answers, s.user)
        /\ crashes = 0 => Among(Taken, s.answers) /\ Ordered(sent, Taken, s.answers, s.user)

SavingFits ==
    poller.stage = "saving" =>
        /\ Len(poller.answers) = Questions /\ Own(sent, poller.answers, From)
        /\ crashes = 0 => /\ Among(Taken \union {Current}, poller.answers)
                          /\ Ordered(sent, Taken, poller.answers, From)

NoneTwice ==
    crashes = 0 /\ faults = 0 =>
        /\ \A s \in saved :
            /\ \A other \in saved \ {s} : Apart(s.answers, other.answers)
            /\ \A u \in DOMAIN dialogue : Apart(s.answers, dialogue[u])
            /\ poller.stage = "saving" => Apart(s.answers, poller.answers)
        /\ poller.stage = "saving" => From \notin DOMAIN dialogue

QuestionsInv ==
    /\ BatchRises /\ HandledOnce
    /\ DialogueFits /\ SavedFits /\ SavingFits /\ NoneTwice

LEMMA OwnStays ==
    ASSUME NEW msgs \in Seq(Message), NEW more \in Seq(Message), Extends(msgs, more), NEW q, NEW u
    PROVE  /\ Own(msgs, q, u) => Own(more, q, u)
           /\ \A taken, beyond :
                Ordered(msgs, taken, q, u) /\ taken \subseteq beyond /\ taken \subseteq 1..Len(msgs) =>
                    Ordered(more, beyond, q, u)
<1>1. 1..Len(msgs) \subseteq 1..Len(more)
  BY DEF Extends
<1>2. Own(msgs, q, u) => Own(more, q, u)
  BY <1>1 DEF Own, Extends
<1>3. ASSUME NEW taken, NEW beyond, Ordered(msgs, taken, q, u),
             taken \subseteq beyond, taken \subseteq 1..Len(msgs)
      PROVE  Ordered(more, beyond, q, u)
  BY <1>3 DEF Ordered, Extends
<1> QED
  BY <1>2, <1>3

\* One answer more.
LEMMA AppendFits ==
    ASSUME NEW msgs \in Seq(Message), NEW q \in Seq(Nat), NEW u, NEW i \in 1..Len(msgs)
    PROVE  /\ Append(q, i) \in Seq(Nat) /\ Len(Append(q, i)) = Len(q) + 1
           /\ Own(msgs, q, u) /\ msgs[i].from = u /\ msgs[i].kind # "menu" => Own(msgs, Append(q, i), u)
           /\ \A taken \in SUBSET Nat :
                /\ Among(taken, q) => Among(taken \union {i}, Append(q, i))
                /\ /\ Among(taken, q) /\ Ordered(msgs, taken, q, u)
                   /\ \A j \in taken : j < i
                   => Ordered(msgs, taken, Append(q, i), u)
           /\ \A r : Apart(r, q) /\ (\A k \in DOMAIN r : r[k] # i) => Apart(r, Append(q, i))
<1> DEFINE t == Append(q, i)
<1>1. t \in Seq(Nat) /\ Len(t) = Len(q) + 1 /\ t[Len(q) + 1] = i /\ Len(q) \in Nat
  OBVIOUS
<1>2. \A k \in 1..Len(q) : t[k] = q[k] /\ q[k] \in Nat
  OBVIOUS
<1>3. DOMAIN q = 1..Len(q) /\ DOMAIN t = 1..(Len(q) + 1)
  BY <1>1
<1>4. \A k \in DOMAIN t : (k \in DOMAIN q /\ t[k] = q[k]) \/ (k = Len(q) + 1 /\ t[k] = i)
  <2> HIDE DEF t
  <2> QED
    BY <1>1, <1>2, <1>3
<1> HIDE DEF t
<1>5. Own(msgs, q, u) /\ msgs[i].from = u /\ msgs[i].kind # "menu" => Own(msgs, t, u)
  BY <1>4 DEF Own
<1>6. ASSUME NEW taken \in SUBSET Nat, Among(taken, q)
      PROVE  Among(taken \union {i}, t)
  BY <1>4, <1>6 DEF Among
<1>7. ASSUME NEW taken \in SUBSET Nat, Among(taken, q), Ordered(msgs, taken, q, u),
             \A j \in taken : j < i
      PROVE  Ordered(msgs, taken, t, u)
  <2>1. ASSUME NEW j \in DOMAIN t, NEW k \in DOMAIN t, j < k
        PROVE  t[j] < t[k]
    <3>1. j \in DOMAIN q /\ t[j] = q[j]
      BY <1>1, <1>3, <1>4, <2>1
    <3>2. CASE k \in DOMAIN q /\ t[k] = q[k]
      BY <1>7, <2>1, <3>1, <3>2 DEF Ordered, Rising
    <3>3. CASE t[k] = i
      BY <1>7, <3>1, <3>3 DEF Among
    <3> QED
      BY <1>4, <3>2, <3>3
  <2>2. \E h \in taken : /\ msgs[h].from = u /\ msgs[h].kind = "diagnose"
                         /\ \A k \in DOMAIN t : h < t[k]
    BY <1>4, <1>7 DEF Ordered
  <2> QED
    BY <2>1, <2>2 DEF Ordered, Rising
<1>8. ASSUME NEW r, Apart(r, q), \A k \in DOMAIN r : r[k] # i
      PROVE  Apart(r, t)
  BY <1>4, <1>8 DEF Apart
<1> QED
  BY <1>1, <1>5, <1>6, <1>7, <1>8 DEF t

LEMMA TakenFits ==
    ASSUME BotOK
    PROVE  /\ Taken \subseteq 1..Len(sent) /\ Taken \in SUBSET Nat
           /\ poller.stage # "down" /\ poller.batch # <<>> =>
                \A i \in Taken : i < Current
BY DEF Taken

\* What a step does to the messages, for those who look at lists of them.
LEMMA ForwardFits ==
    ASSUME BotOK, BotOK', Forward
    PROVE  /\ Extends(sent, sent')
           /\ crashes' = 0 => crashes = 0 /\ Taken \subseteq Taken'
           /\ \A q, u : /\ Own(sent, q, u) => Own(sent', q, u)
                        /\ Ordered(sent, Taken, q, u) /\ Taken \subseteq Taken' =>
                                Ordered(sent', Taken', q, u)
                        /\ Among(Taken, q) /\ Taken \subseteq Taken' => Among(Taken', q)
<1>1. Extends(sent, sent') /\ sent \in Seq(Message) /\ sent' \in Seq(Message)
  BY DEF Extends, Forward, BotOK
<1>2. crashes' = 0 => crashes = 0 /\ Taken \subseteq Taken'
  BY DEF Forward, BotOK
<1>3. PICK old, new : old = Taken /\ new = Taken'
  OBVIOUS
<1>4. old \subseteq 1..Len(sent)
  BY <1>3, TakenFits
<1>5. ASSUME NEW q, NEW u
      PROVE  /\ Own(sent, q, u) => Own(sent', q, u)
             /\ Ordered(sent, old, q, u) /\ old \subseteq new => Ordered(sent', new, q, u)
             /\ Among(old, q) /\ old \subseteq new => Among(new, q)
  BY <1>1, <1>4, OwnStays DEF Among
<1> QED
  BY <1>1, <1>2, <1>3, <1>5

\* Steps that add no answer and no questionnaire.
LEMMA NothingAdded ==
    ASSUME BotOK, BotOK', QuestionsInv, Forward, faults' = 0 => faults = 0,
           DOMAIN dialogue' \subseteq DOMAIN dialogue, saved' = saved,
           \A u \in DOMAIN dialogue' : dialogue'[u] = dialogue[u],
           poller'.stage = "saving" => /\ poller.stage = "saving" /\ poller'.answers = poller.answers
                                       /\ Current' = Current /\ From' = From
    PROVE  (DialogueFits /\ SavedFits /\ SavingFits /\ NoneTwice)'
<1>1. DialogueFits'
  <2>1. ASSUME NEW u \in DOMAIN dialogue'
        PROVE  /\ Len(dialogue'[u]) < Questions /\ Own(sent', dialogue'[u], u)
               /\ crashes' = 0 => Among(Taken', dialogue'[u]) /\ Ordered(sent', Taken', dialogue'[u], u)
    <3>1. PICK q : q = dialogue[u] /\ q = dialogue'[u] /\ u \in DOMAIN dialogue
      OBVIOUS
    <3>2. /\ Len(q) < Questions /\ Own(sent, q, u)
          /\ crashes = 0 => Among(Taken, q) /\ Ordered(sent, Taken, q, u)
      BY <3>1 DEF QuestionsInv, DialogueFits
    <3>3. /\ Len(q) < Questions /\ Own(sent', q, u)
          /\ crashes' = 0 => Among(Taken', q) /\ Ordered(sent', Taken', q, u)
      BY <3>2, ForwardFits
    <3> QED
      BY <3>1, <3>3
  <2> QED
    BY <2>1 DEF DialogueFits
<1>2. SavedFits'
  BY ForwardFits DEF QuestionsInv, SavedFits
<1>3. SavingFits'
  <2>1. SUFFICES ASSUME poller'.stage = "saving"
                 PROVE  /\ Len(poller'.answers) = Questions /\ Own(sent', poller'.answers, From')
                        /\ crashes' = 0 => /\ Among(Taken' \union {Current'}, poller'.answers)
                                           /\ Ordered(sent', Taken', poller'.answers, From')
    BY DEF SavingFits
  <2>2. PICK q, u, c : q = poller.answers /\ u = From /\ c = Current
    OBVIOUS
  <2>3. q = poller'.answers /\ u = From' /\ c = Current' /\ poller.stage = "saving"
    BY <2>1, <2>2
  <2>4. /\ Len(q) = Questions /\ Own(sent, q, u)
        /\ crashes = 0 => Among(Taken \union {c}, q) /\ Ordered(sent, Taken, q, u)
    BY <2>2, <2>3 DEF QuestionsInv, SavingFits
  <2>5. /\ Len(q) = Questions /\ Own(sent', q, u)
        /\ crashes' = 0 => Among(Taken' \union {c}, q) /\ Ordered(sent', Taken', q, u)
    BY <2>4, ForwardFits DEF Among
  <2> QED
    BY <2>3, <2>5
<1>4. NoneTwice'
  <2>1. crashes' = 0 /\ faults' = 0 => crashes = 0 /\ faults = 0
    BY ForwardFits
  <2> QED
    BY <2>1 DEF QuestionsInv, NoneTwice
<1> QED
  BY <1>1, <1>2, <1>3, <1>4

\* The answers of one user change while the bot is done with a message.
LEMMA AnswersChange ==
    ASSUME BotOK, BotOK', QuestionsInv, Forward, UNCHANGED <<saved, crashes, faults, sent>>,
           NEW u \in People, NEW q, Len(q) < Questions, Own(sent, q, u),
           crashes = 0 => Among(Taken', q) /\ Ordered(sent, Taken', q, u),
           crashes = 0 /\ faults = 0 => \A s \in saved : Apart(s.answers, q),
           DOMAIN dialogue' = DOMAIN dialogue \union {u}, dialogue'[u] = q,
           \A v \in DOMAIN dialogue \ {u} : dialogue'[v] = dialogue[v],
           poller'.stage = "ready"
    PROVE  (DialogueFits /\ SavedFits /\ SavingFits /\ NoneTwice)'
<1>1. DialogueFits'
  <2>1. ASSUME NEW v \in DOMAIN dialogue'
        PROVE  /\ Len(dialogue'[v]) < Questions /\ Own(sent', dialogue'[v], v)
               /\ crashes' = 0 => Among(Taken', dialogue'[v]) /\ Ordered(sent', Taken', dialogue'[v], v)
    <3>1. CASE v = u
      BY <3>1
    <3>2. CASE v # u
      <4>1. PICK r : r = dialogue[v] /\ r = dialogue'[v] /\ v \in DOMAIN dialogue
        BY <3>2
      <4>2. /\ Len(r) < Questions /\ Own(sent, r, v)
            /\ crashes = 0 => Among(Taken, r) /\ Ordered(sent, Taken, r, v)
        BY <4>1 DEF QuestionsInv, DialogueFits
      <4>3. /\ Own(sent', r, v)
            /\ crashes' = 0 => Among(Taken', r) /\ Ordered(sent', Taken', r, v)
        BY <4>2, ForwardFits
      <4> QED
        BY <4>1, <4>2, <4>3
    <3> QED
      BY <3>1, <3>2
  <2> QED
    BY <2>1 DEF DialogueFits
<1>2. SavedFits'
  BY ForwardFits DEF QuestionsInv, SavedFits
<1>3. SavingFits'
  BY DEF SavingFits
<1>4. NoneTwice'
  BY DEF QuestionsInv, NoneTwice
<1> QED
  BY <1>1, <1>2, <1>3, <1>4

\* The message in hand: whose it is, and that it is in no list.
LEMMA InHand ==
    ASSUME BotOK, QuestionsInv, poller.stage = "registered"
    PROVE  /\ Current \in 1..Len(sent) /\ From \in People /\ From = sent[Current].from
           /\ \A i \in Taken : i < Current
           /\ From \in DOMAIN dialogue => dialogue[From] \in Seq(Nat)
           /\ crashes = 0 => \A s \in saved : \A k \in DOMAIN s.answers : s.answers[k] # Current
<1>1. poller.batch # <<>>
  BY DEF BotOK, PollerFits
<1>2. /\ Current \in 1..Len(sent) /\ From \in People /\ From = sent[Current].from
      /\ \A i \in Taken : i < Current /\ i \in Nat
  BY <1>1, CurrentFits, TakenFits DEF From
<1>3. From \in DOMAIN dialogue => dialogue[From] \in Seq(Nat)
  BY Bounds DEF BotOK, IsTable, Answers
<1>4. crashes = 0 => \A s \in saved : \A k \in DOMAIN s.answers : s.answers[k] # Current
  BY <1>2 DEF QuestionsInv, SavedFits, Among
<1> QED
  BY <1>2, <1>3, <1>4

\* The user asks for the questions.
LEMMA AskFits ==
    ASSUME BotOK, BotOK', QuestionsInv, Reply,
           From \notin DOMAIN dialogue, sent[Current].kind = "diagnose",
           dialogue' = Insert(dialogue, From, <<>>), Handled, UNCHANGED faults
    PROVE  (DialogueFits /\ SavedFits /\ SavingFits /\ NoneTwice)'
<1>1. poller.stage = "registered" /\ UNCHANGED <<saved, sent, confirmed, crashes>> /\ BatchRises
  BY DEF Reply, QuestionsInv
<1>2. Forward /\ Current \in Taken'
  BY <1>1, HandledForward
<1>3. PICK u \in People, c \in 1..Len(sent) : u = From /\ c = Current /\ sent[c].from = u
  BY <1>1, InHand
<1>4. Own(sent, <<>>, u) /\ Among(Taken', <<>>) /\ Len(<<>>) < Questions
  BY BotAssumption DEF Own, Among
<1>5. Ordered(sent, Taken', <<>>, u)
  BY <1>2, <1>3 DEF Ordered, Rising
<1>6. \A s \in saved : Apart(s.answers, <<>>)
  BY DEF Apart
<1>7. /\ DOMAIN dialogue' = DOMAIN dialogue \union {u} /\ dialogue'[u] = <<>>
      /\ \A v \in DOMAIN dialogue \ {u} : dialogue'[v] = dialogue[v]
  BY <1>3 DEF Insert
<1>8. poller'.stage = "ready"
  BY DEF Handled, Ready
<1> QED
  BY <1>1, <1>2, <1>4, <1>5, <1>6, <1>7, <1>8, AnswersChange

\* The list of the user with the message in hand, once that is appended.
LEMMA LongerFits ==
    ASSUME BotOK, QuestionsInv, poller.stage = "registered",
           From \in DOMAIN dialogue, sent[Current].kind # "menu"
    PROVE  LET q == Append(dialogue[From], Current)
           IN  /\ Len(q) = Len(dialogue[From]) + 1 /\ Len(q) <= Questions /\ Own(sent, q, From)
               /\ crashes = 0 => Among(Taken \union {Current}, q) /\ Ordered(sent, Taken, q, From)
               /\ crashes = 0 /\ faults = 0 => \A s \in saved : Apart(s.answers, q)
<1>1. PICK u \in People, c \in 1..Len(sent), d \in Seq(Nat) :
          u = From /\ c = Current /\ sent[c].from = u /\ d = dialogue[u]
  BY InHand
<1>2. PICK taken \in SUBSET Nat : taken = Taken
  BY TakenFits
<1>3. \A i \in taken : i < c
  BY <1>1, <1>2, InHand
<1>4. /\ Len(d) < Questions /\ Own(sent, d, u)
      /\ crashes = 0 => Among(taken, d) /\ Ordered(sent, taken, d, u)
  BY <1>1, <1>2 DEF QuestionsInv, DialogueFits
<1>5. crashes = 0 /\ faults = 0 => \A s \in saved : Apart(s.answers, d)
  BY <1>1 DEF QuestionsInv, NoneTwice
<1>6. sent \in Seq(Message) /\ sent[c].kind # "menu" /\ Len(d) \in Nat /\ Questions \in Nat
  BY <1>1, Bounds DEF BotOK
<1> DEFINE q == Append(d, c)
<1>7. Len(q) = Len(d) + 1 /\ Own(sent, q, u)
  BY <1>1, <1>4, <1>6, AppendFits
<1>8. crashes = 0 => Among(taken \union {c}, q) /\ Ordered(sent, taken, q, u)
  BY <1>3, <1>4, <1>6, AppendFits
<1>9. ASSUME crashes = 0, faults = 0, NEW s \in saved
      PROVE  Apart(s.answers, q)
  <2>1. \A k \in DOMAIN s.answers : s.answers[k] # c
    BY <1>1, <1>9, InHand
  <2>2. Apart(s.answers, d)
    BY <1>5, <1>9
  <2> QED
    BY <1>6, <2>1, <2>2, AppendFits
<1> HIDE DEF q
<1>10. q = Append(dialogue[From], Current)
  BY <1>1 DEF q
<1> QED
  BY <1>1, <1>2, <1>4, <1>6, <1>7, <1>8, <1>9, <1>10

\* An answer that is not the last.
LEMMA AnswerFits ==
    ASSUME BotOK, BotOK', QuestionsInv, Reply,
           From \in DOMAIN dialogue, sent[Current].kind # "menu",
           Len(Append(dialogue[From], Current)) < Questions,
           dialogue' = [dialogue EXCEPT ![From] = Append(dialogue[From], Current)],
           Handled, UNCHANGED faults
    PROVE  (DialogueFits /\ SavedFits /\ SavingFits /\ NoneTwice)'
<1>1. poller.stage = "registered" /\ UNCHANGED <<saved, sent, confirmed, crashes>> /\ BatchRises
  BY DEF Reply, QuestionsInv
<1>2. Forward /\ Current \in Taken' /\ Taken \subseteq Taken'
  BY <1>1, HandledForward DEF Forward, BotOK
<1>0. PICK u \in People : u = From
  BY <1>1, InHand
<1>3. PICK q : u = From /\ q = Append(dialogue[From], Current)
  BY <1>0
<1>4. /\ Len(q) < Questions /\ Own(sent, q, u)
      /\ crashes = 0 => Among(Taken \union {Current}, q) /\ Ordered(sent, Taken, q, u)
      /\ crashes = 0 /\ faults = 0 => \A s \in saved : Apart(s.answers, q)
  BY <1>1, <1>3, LongerFits
<1>5. crashes = 0 => Among(Taken', q) /\ Ordered(sent, Taken', q, u)
  BY <1>2, <1>4 DEF Among, Ordered
<1>6. /\ DOMAIN dialogue' = DOMAIN dialogue \union {u} /\ dialogue'[u] = q
      /\ \A v \in DOMAIN dialogue \ {u} : dialogue'[v] = dialogue[v]
  BY <1>3
<1>7. poller'.stage = "ready"
  BY DEF Handled, Ready
<1> QED
  BY <1>1, <1>2, <1>4, <1>5, <1>6, <1>7, AnswersChange

\* The last one: the list leaves the store, unless that fails, and is to be saved.
LEMMA LastFits ==
    ASSUME BotOK, BotOK', QuestionsInv, Reply,
           From \in DOMAIN dialogue, sent[Current].kind # "menu",
           Len(Append(dialogue[From], Current)) >= Questions,
           \/ dialogue' = NoLongerAsking(From) /\ UNCHANGED faults
           \/ Fault /\ UNCHANGED dialogue,
           poller' = [stage |-> "saving", offset |-> poller.offset, batch |-> poller.batch,
                      answers |-> Append(dialogue[From], Current)]
    PROVE  (DialogueFits /\ SavedFits /\ SavingFits /\ NoneTwice)'
<1>1. poller.stage = "registered" /\ UNCHANGED <<saved, sent, confirmed, crashes>> /\ BatchRises
  BY DEF Reply, QuestionsInv
<1>2. Forward /\ Taken' = Taken /\ Current' = Current
  BY <1>1, SavingForward
<1>3. From' = From
  BY <1>1, <1>2 DEF From
<1>4. PICK u, q, c, d : u \in People /\ u = From /\ q = Append(dialogue[u], c) /\ c = Current /\ d = dialogue[u]
  BY <1>1, InHand
<1>5. poller'.stage = "saving" /\ poller'.answers = q /\ u = From' /\ c = Current'
  BY <1>2, <1>3, <1>4
<1>6. /\ Len(q) = Questions /\ Own(sent, q, u)
      /\ crashes = 0 => Among(Taken \union {c}, q) /\ Ordered(sent, Taken, q, u)
      /\ crashes = 0 /\ faults = 0 => \A s \in saved : Apart(s.answers, q)
  <2>1. Len(q) <= Questions /\ Len(q) >= Questions /\ Len(q) = Len(d) + 1
    BY <1>1, <1>4, LongerFits
  <2>2. Questions \in Nat /\ Len(d) \in Nat
    BY <1>1, <1>4, InHand, Bounds
  <2> QED
    BY <1>1, <1>4, <2>1, <2>2, LongerFits
<1>7. SavingFits'
  BY <1>1, <1>2, <1>5, <1>6 DEF SavingFits
<1>8. SavedFits'
  BY <1>1, <1>2 DEF QuestionsInv, SavedFits
<1>9. /\ DOMAIN dialogue' \subseteq DOMAIN dialogue
      /\ \A v \in DOMAIN dialogue' : dialogue'[v] = dialogue[v]
  BY DEF NoLongerAsking
<1>10. DialogueFits'
  BY <1>1, <1>2, <1>9 DEF QuestionsInv, DialogueFits
<1>11. faults' = 0 => faults = 0 /\ u \notin DOMAIN dialogue'
  <2>1. faults \in Nat
    BY DEF BotOK
  <2> QED
    BY <1>4, <2>1 DEF Fault, NoLongerAsking
<1>12. NoneTwice'
  BY <1>1, <1>5, <1>6, <1>9, <1>11 DEF QuestionsInv, NoneTwice
<1> QED
  BY <1>7, <1>8, <1>10, <1>12

LEMMA SaveFits ==
    ASSUME BotOK, BotOK', QuestionsInv, SaveDiagnostics
    PROVE  (DialogueFits /\ SavedFits /\ SavingFits /\ NoneTwice)'
<1>1. /\ poller.stage = "saving" /\ Handled /\ BatchRises
      /\ UNCHANGED <<dialogue, sent, confirmed, crashes>>
  BY DEF SaveDiagnostics, QuestionsInv
<1>2. Forward /\ Current \in Taken' /\ Taken \subseteq Taken'
  BY <1>1, HandledForward DEF Forward, BotOK
<1>3. poller'.stage = "ready" /\ faults \in Nat
  BY <1>1 DEF Handled, Ready, BotOK
<1>4. CASE Fault /\ UNCHANGED saved
  BY <1>1, <1>2, <1>3, <1>4, NothingAdded DEF Fault
<1>5. CASE saved' = saved \union {[user |-> From, answers |-> poller.answers]} /\ UNCHANGED faults
  <2>1. PICK u, q : u = From /\ q = poller.answers
    OBVIOUS
  <2> DEFINE new == [user |-> u, answers |-> q]
  <2>2. saved' = saved \union {new} /\ new.user = u /\ new.answers = q
    BY <1>5, <2>1
  <2>3. /\ Len(q) = Questions /\ Own(sent, q, u)
        /\ crashes = 0 => Among(Taken \union {Current}, q) /\ Ordered(sent, Taken, q, u)
    BY <1>1, <2>1 DEF QuestionsInv, SavingFits
  <2>4. crashes = 0 => Among(Taken', q) /\ Ordered(sent, Taken', q, u)
    BY <1>2, <2>3 DEF Among, Ordered
  <2> HIDE DEF new
  <2>5. DialogueFits'
    BY <1>1, <1>2, ForwardFits DEF QuestionsInv, DialogueFits
  <2>6. SavedFits'
    <3>1. ASSUME NEW s \in saved'
          PROVE  /\ Len(s.answers) = Questions /\ Own(sent, s.answers, s.user)
                 /\ crashes = 0 => Among(Taken', s.answers) /\ Ordered(sent, Taken', s.answers, s.user)
      <4>1. CASE s \in saved
        BY <1>1, <1>2, <4>1, ForwardFits DEF QuestionsInv, SavedFits
      <4>2. CASE s = new
        BY <2>2, <2>3, <2>4, <4>2
      <4> QED
        BY <2>2, <4>1, <4>2
    <3> QED
      BY <1>1, <3>1 DEF SavedFits
  <2>7. SavingFits'
    BY <1>3 DEF SavingFits
  <2>8. NoneTwice'
    <3>1. SUFFICES ASSUME crashes = 0, faults = 0
                   PROVE  \A s \in saved' :
                              /\ \A other \in saved' \ {s} : Apart(s.answers, other.answers)
                              /\ \A v \in DOMAIN dialogue : Apart(s.answers, dialogue[v])
      BY <1>1, <1>3, <1>5 DEF NoneTwice
    <3>2. \A s \in saved : Apart(s.answers, q) /\ Apart(q, s.answers)
      BY <1>1, <2>1, <3>1 DEF QuestionsInv, NoneTwice, Apart
    <3>3. u \notin DOMAIN dialogue
      BY <1>1, <2>1, <3>1 DEF QuestionsInv, NoneTwice
    <3>4. \A v \in DOMAIN dialogue : Apart(q, dialogue[v])
      BY <2>3, <3>3 DEF QuestionsInv, DialogueFits, Own, Apart
    <3>5. \A s \in saved :
              /\ \A other \in saved \ {s} : Apart(s.answers, other.answers)
              /\ \A v \in DOMAIN dialogue : Apart(s.answers, dialogue[v])
      BY <3>1 DEF QuestionsInv, NoneTwice
    <3> QED
      BY <2>2, <3>2, <3>4, <3>5
  <2> QED
    BY <2>5, <2>6, <2>7, <2>8
<1> QED
  BY <1>4, <1>5 DEF SaveDiagnostics

LEMMA ReplyFits ==
    ASSUME BotOK, BotOK', QuestionsInv, Reply
    PROVE  (DialogueFits /\ SavedFits /\ SavingFits /\ NoneTwice)'
<1>1. poller.stage = "registered" /\ BatchRises /\ UNCHANGED <<saved, sent, confirmed, crashes>>
  BY DEF Reply, QuestionsInv
<1>2. Forward
  BY <1>1, ReplyForward
<1>3. CASE Handled /\ UNCHANGED dialogue /\ (UNCHANGED faults \/ Fault)
  <2>1. poller'.stage = "ready" /\ (faults' = 0 => faults = 0)
    BY <1>3 DEF Handled, Ready, Fault, BotOK
  <2> QED
    BY <1>1, <1>2, <1>3, <2>1, NothingAdded
<1>4. CASE From \in DOMAIN dialogue /\ sent[Current].kind # "menu"
  BY <1>3, <1>4, AnswerFits, LastFits DEF Reply
<1>5. CASE From \notin DOMAIN dialogue
  BY <1>3, <1>5, AskFits DEF Reply
<1>6. CASE sent[Current].kind = "menu"
  BY <1>3, <1>6 DEF Reply
<1> QED
  BY <1>4, <1>5, <1>6

LEMMA OthersFit ==
    ASSUME BotOK, BotOK', QuestionsInv,
           \/ \E message \in Messages : Write(message)
           \/ Poll \/ TakeMessage
           \/ \E u \in People : Forget(u)
           \/ Crash \/ Start
    PROVE  (DialogueFits /\ SavedFits /\ SavingFits /\ NoneTwice)'
<1>1. BatchRises /\ faults \in Nat
  BY DEF QuestionsInv, BotOK
<1>2. Forward
  BY <1>1, WriteForward, PollForward, TakeForward, LifeForward
<1>3. faults' = 0 => faults = 0
  <2>1. CASE Poll \/ TakeMessage
    BY <1>1, <2>1 DEF Poll, TakeMessage, Fault
  <2>2. CASE \E message \in Messages : Write(message)
    BY <2>2 DEF Write
  <2>3. CASE (\E u \in People : Forget(u)) \/ Crash \/ Start
    BY <2>3 DEF Forget, Crash, Start
  <2> QED
    BY <2>1, <2>2, <2>3
<1>4. /\ saved' = saved /\ DOMAIN dialogue' \subseteq DOMAIN dialogue
      /\ \A u \in DOMAIN dialogue' : dialogue'[u] = dialogue[u]
  BY DEF Write, Poll, TakeMessage, Forget, Crash, Start, EmptyTable
<1>5. poller'.stage = "saving" => UNCHANGED poller
  <2>1. CASE Poll
    BY <2>1 DEF Poll, Ready
  <2>2. CASE TakeMessage
    BY <2>2 DEF TakeMessage, Ready
  <2>3. CASE Crash \/ Start
    BY <2>3 DEF Crash, Start, Ready, Down
  <2>4. CASE (\E message \in Messages : Write(message)) \/ \E u \in People : Forget(u)
    BY <2>4 DEF Write, Forget
  <2> QED
    BY <2>1, <2>2, <2>3, <2>4
<1>6. UNCHANGED poller /\ poller.stage = "saving" => Current' = Current /\ From' = From
  <2>1. SUFFICES ASSUME UNCHANGED poller, poller.stage = "saving"
                 PROVE  From' = From /\ Current' = Current
    OBVIOUS
  <2>2. PICK c \in 1..Len(sent) : c = Current /\ c = Current'
    BY <2>1, CurrentFits DEF BotOK, PollerFits, Current
  <2>3. sent'[c] = sent[c]
    BY <1>2 DEF Forward
  <2> QED
    BY <2>2, <2>3 DEF From
<1> QED
  BY <1>2, <1>3, <1>4, <1>5, <1>6, NothingAdded

LEMMA TimesKept ==
    ASSUME BotOK, QuestionsInv, BotNext
    PROVE  BatchRises' /\ HandledOnce'
<1>1. BatchRises /\ HandledOnce
  BY DEF QuestionsInv
<1>2. CASE (\E message \in Messages : Write(message)) \/ Poll \/ (\E u \in People : Forget(u)) \/ Crash \/ Start
  <2>1. BatchRises' /\ Forward
    BY <1>1, <1>2, WriteForward, PollForward, LifeForward
  <2>2. times' = times
    BY <1>2 DEF Write, Poll, Forget, Crash, Start
  <2> QED
    BY <1>1, <2>1, <2>2, OnceKept
<1>3. CASE TakeMessage
  <2>1. /\ BatchRises' /\ Forward
        /\ times' = times \/ (Current \in Taken' /\ times' = [times EXCEPT ![Current] = @ + 1])
    BY <1>1, <1>3, TakeForward
  <2>2. poller.stage # "down" /\ poller.batch # <<>> /\ crashes' = crashes
    BY <1>3 DEF TakeMessage
  <2> QED
    BY <1>1, <2>1, <2>2, OnceKept
<1>4. CASE Reply \/ SaveDiagnostics
  <2>1. poller.stage \in {"registered", "saving"} /\ UNCHANGED <<sent, confirmed, crashes>>
    BY <1>4 DEF Reply, SaveDiagnostics
  <2>2. poller.stage # "down" /\ poller.batch # <<>>
    BY <2>1 DEF BotOK, PollerFits
  <2>3. BatchRises' /\ Forward /\ (times' = times \/ (Handled /\ Current \in Taken'))
    BY <1>1, <1>4, <2>1, ReplyForward, HandledForward DEF SaveDiagnostics
  <2> QED
    BY <1>1, <2>1, <2>2, <2>3, OnceKept DEF Handled
<1> QED
  BY <1>2, <1>3, <1>4 DEF BotNext, PollerStep

LEMMA QuestionsKept == AccountsInv /\ QuestionsInv /\ [Next]_vars => QuestionsInv'
<1> SUFFICES ASSUME AccountsInv, QuestionsInv, [Next]_vars
             PROVE  QuestionsInv'
  OBVIOUS
<1>1. BotOK /\ BotOK'
  BY BotKept DEF AccountsInv
<1>2. CASE UNCHANGED bot
  <2>1. UNCHANGED <<saved, dialogue, sent, confirmed, poller, times, crashes, faults>>
    BY <1>2 DEF bot
  <2>2. Taken' = Taken /\ Current' = Current /\ From' = From
    BY <2>1 DEF Taken, Current, From
  <2>3. BatchRises' /\ HandledOnce'
    BY <2>1, <2>2 DEF QuestionsInv, BatchRises, HandledOnce
  <2>4. DialogueFits' /\ SavedFits' /\ SavingFits' /\ NoneTwice'
    BY <2>1, <2>2 DEF QuestionsInv, DialogueFits, SavedFits, SavingFits, NoneTwice
  <2> QED
    BY <2>3, <2>4 DEF QuestionsInv
<1>3. CASE BotNext
  <2>1. (DialogueFits /\ SavedFits /\ SavingFits /\ NoneTwice)'
    BY <1>1, <1>3, OthersFit, ReplyFits, SaveFits DEF BotNext, PollerStep
  <2> QED
    BY <1>1, <1>3, <2>1, TimesKept DEF QuestionsInv
<1> QED
  BY <1>2, <1>3 DEF Next, OpenMiniApp, vars

LEMMA FirstAnswer ==
    ASSUME NEW S, NEW q \in Seq(S), Len(q) # 0
    PROVE  q[1] \in S
OBVIOUS

LEMMA QuestionsAtStart == Init => QuestionsInv
<1> SUFFICES ASSUME Init PROVE QuestionsInv
  OBVIOUS
<1>1. /\ saved = {} /\ DOMAIN dialogue = {} /\ poller = Down /\ crashes = 0
      /\ times = [i \in 1..MaxMessages |-> 0]
  BY DEF Init, BotInit, EmptyTable
<1>2. poller.stage = "down"
  BY <1>1 DEF Down
<1> QED
  BY <1>1, <1>2 DEF QuestionsInv, BatchRises, HandledOnce, DialogueFits, SavedFits, SavingFits, NoneTwice

LEMMA QuestionsAlways == Spec => [](AccountsInv /\ QuestionsInv)
<1>1. AccountsInv /\ QuestionsInv /\ [Next]_vars => QuestionsInv'
  BY QuestionsKept
<1> QED
  BY <1>1, QuestionsAtStart, AccountsAlways, PTL DEF Spec

\* A saved questionnaire has one answer to each question, the user's own, in the
\* order he gave them after he had asked for the questions, unless a crash made the
\* bot take messages again; and no answer stands in two, unless a finished list
\* stayed in the store (handleDiagnosticsText).
THEOREM QuestionnairesFit == Spec => []AnswersFitQuestions
<1>1. ASSUME AccountsInv, QuestionsInv, NEW s \in saved
      PROVE  /\ Len(s.answers) = Questions
             /\ \A k \in DOMAIN s.answers : sent[s.answers[k]].from = s.user /\ sent[s.answers[k]].kind # "menu"
             /\ crashes = 0 =>
                 /\ \A j, k \in DOMAIN s.answers : j < k => s.answers[j] < s.answers[k]
                 /\ \E i \in 1..(s.answers[1] - 1) : sent[i].from = s.user /\ sent[i].kind = "diagnose"
             /\ crashes = 0 /\ faults = 0 =>
                 \A other \in saved \ {s} : \A j, k \in 1..Questions : s.answers[j] # other.answers[k]
  <2>1. BotOK /\ Questions \in Nat \ {0}
    BY <1>1, BotAssumption DEF AccountsInv
  <2>2. \A o \in saved : /\ Len(o.answers) = Questions /\ o.answers \in Seq(1..MaxMessages)
                         /\ DOMAIN o.answers = 1..Questions
    BY <1>1, <2>1 DEF QuestionsInv, SavedFits, BotOK, Answers
  <2>3. Own(sent, s.answers, s.user) /\ (crashes = 0 => Ordered(sent, Taken, s.answers, s.user))
    BY <1>1 DEF QuestionsInv, SavedFits
  <2>4. ASSUME crashes = 0
        PROVE  \E i \in 1..(s.answers[1] - 1) : sent[i].from = s.user /\ sent[i].kind = "diagnose"
    <3>1. PICK i \in Taken : /\ sent[i].from = s.user /\ sent[i].kind = "diagnose"
                             /\ \A k \in DOMAIN s.answers : i < s.answers[k]
      BY <2>3, <2>4 DEF Ordered
    <3>2. i \in 1..Len(sent) /\ 1 \in DOMAIN s.answers
      BY <1>1, <2>1, <2>2, TakenFits
    <3>3. s.answers[1] \in 1..MaxMessages
      <4>1. PICK q \in Seq(1..MaxMessages) : q = s.answers /\ Len(q) = Questions
        BY <1>1, <2>2
      <4>2. q[1] \in 1..MaxMessages
        BY <2>1, <4>1, FirstAnswer
      <4> QED
        BY <4>1, <4>2
    <3>4. i \in 1..(s.answers[1] - 1)
      BY <3>1, <3>2, <3>3
    <3> QED
      BY <3>1, <3>4
  <2>5. ASSUME crashes = 0, faults = 0, NEW other \in saved \ {s}
        PROVE  \A j, k \in 1..Questions : s.answers[j] # other.answers[k]
    <3>1. Apart(s.answers, other.answers)
      BY <1>1, <2>5 DEF QuestionsInv, NoneTwice
    <3> QED
      BY <2>2, <3>1 DEF Apart
  <2> QED
    BY <2>2, <2>3, <2>4, <2>5 DEF Own, Ordered, Rising
<1>2. AccountsInv /\ QuestionsInv => AnswersFitQuestions
  BY <1>1 DEF AnswersFitQuestions
<1> QED
  BY <1>2, QuestionsAlways, PTL

\* A message is handled once in each life of the process and never twice in one,
\* for the offset moves past it first: at most once more than there were crashes
\* (offset in StartLongPolling).
THEOREM TakenOncePerLife == Spec => [](\A i \in DOMAIN times : times[i] <= crashes + 1)
<1>1. AccountsInv /\ QuestionsInv => \A i \in DOMAIN times : times[i] <= crashes + 1
  BY DEF AccountsInv, BotOK, QuestionsInv, HandledOnce
<1> QED
  BY <1>1, QuestionsAlways, PTL

=============================================================================
