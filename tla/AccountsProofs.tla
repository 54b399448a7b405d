--------------------------- MODULE AccountsProofs ---------------------------
(***************************************************************************)
(* Theorems about the accounts and the pool of users of Example, for every *)
(* value of their constants.                                               *)
(***************************************************************************)
EXTENDS ExampleInvariant, FiniteSetTheorems, SequenceTheorems, WellFoundedInduction, TLAPS

-----------------------------------------------------------------------------
(* Accounts.                                                               *)

LEMMA AccountLibrary ==
    ASSUME NEW c
    PROVE  \A S : /\ Account(c)!Cardinality(S) = Cardinality(S)
                  /\ Account(c)!IsFiniteSet(S) = IsFiniteSet(S)
  BY DEF Account!Cardinality, Cardinality, Account!IsFiniteSet, IsFiniteSet

LEMMA AccountConstants ==
    ASSUME NEW c, Account(c)!AccountsAssumption
    PROVE  /\ {c.interval, c.lifetime, c.window, c.validateLimit} \subseteq Nat \ {0}
           /\ c.maxTime \in Nat \ {0} /\ IsFiniteSet(c.request) /\ c.cleanupLimit \in Nat
  BY AccountLibrary DEF Account!AccountsAssumption

\* Two members of c.request that are not idle are told apart by their step.
LEMMA StepsOfHeld ==
    ASSUME NEW c, NEW n \in Nat, NEW q \in Held(c, n)
    PROVE  /\ q.step \in {"idle", "insert", "check", "match", "update"}
           /\ q.step = "idle" => q = IdleRequest
           /\ q.step = "insert" => q \in Inserting(c, n)
           /\ q.step \in {"check", "match"} => q \in Verifying(c, n)
           /\ q.step = "update" => q \in Updating(n)
  <1>1. CASE q = IdleRequest
    BY <1>1 DEF IdleRequest
  <1>2. CASE q \in Inserting(c, n)
    BY <1>2 DEF Inserting
  <1>3. CASE q \in Verifying(c, n)
    BY <1>3 DEF Verifying
  <1>4. CASE q \in Updating(n)
    BY <1>4 DEF Updating
  <1> QED
    BY <1>1, <1>2, <1>3, <1>4 DEF Held

LEMMA HeldGrows ==
    ASSUME NEW c, NEW m \in Nat, NEW n \in Nat, m <= n
    PROVE  Held(c, m) \subseteq Held(c, n)
  <1>1. 1..m \subseteq 1..n
    OBVIOUS
  <1>2. Inserting(c, m) \subseteq Inserting(c, n)
    BY <1>1 DEF Inserting
  <1>3. Verifying(c, m) \subseteq Verifying(c, n)
    BY <1>1 DEF Verifying
  <1>4. Updating(m) \subseteq Updating(n)
    BY <1>1 DEF Updating
  <1> QED
    BY <1>2, <1>3, <1>4 DEF Held

LEMMA OneRequestChanges ==
    ASSUME NEW c, AccountTypes(c), NEW p \in c.request, NEW new \in Held(c, issued'),
           requests' = [requests EXCEPT ![p] = new], issued' \in {issued, issued + 1}
    PROVE  /\ requests' \in [c.request -> Held(c, issued')]
           /\ requests'[p] = new
           /\ \A q \in c.request : q # p => requests'[q] = requests[q]
  <1>1. issued \in Nat /\ issued' \in Nat /\ issued <= issued'
    BY DEF AccountTypes
  <1>2. Held(c, issued) \subseteq Held(c, issued')
    BY <1>1, HeldGrows
  <1>3. requests \in [c.request -> Held(c, issued)]
    BY DEF AccountTypes
  <1> QED
    BY <1>2, <1>3

LEMMA IdleIsHeld == ASSUME NEW c, NEW n PROVE IdleRequest \in Held(c, n)
  BY DEF Held

LEMMA OwnersStay ==
    ASSUME NEW c, OwnersAreOne(c),
           UNCHANGED <<users, sessions, keys, poolKeys, unanswered, signedUp, lostInserts,
                       overfull, opened, queryFailures>>
    PROVE  OwnersAreOne(c)'
  BY DEF OwnersAreOne, Account!OneOwner, Account!ResetEndsSessions, Account!Authenticated

LEMMA PacedStay ==
    ASSUME NEW c, Account(c)!CodesArePaced, inserted' = inserted, consumed \subseteq consumed'
    PROVE  Account(c)!CodesArePaced'
  BY DEF Account!CodesArePaced

\* A part of a finite set.
LEMMA PartIsSmaller ==
    ASSUME NEW S, NEW T, IsFiniteSet(T), S \subseteq T
    PROVE  /\ IsFiniteSet(S) /\ Cardinality(S) \in Nat /\ Cardinality(T) \in Nat
           /\ Cardinality(S) <= Cardinality(T)
  BY FS_Subset, FS_CardinalityType

LEMMA LiveIsFinite ==
    ASSUME NEW c, TriesAreBounded(c), NEW r \in c.receiver
    PROVE  IsFiniteSet(Account(c)!Live(r)) /\ Cardinality(Account(c)!Live(r)) \in Nat
  <1>1. Account(c)!Live(r) \subseteq DOMAIN tries[r] /\ IsFiniteSet(DOMAIN tries[r])
    BY DEF TriesAreBounded, Account!Live
  <1> QED
    BY <1>1, PartIsSmaller

LEMMA MatchingIsFinite ==
    ASSUME NEW c, Account(c)!AccountsAssumption, NEW r
    PROVE  /\ IsFiniteSet(Matching(c, r)) /\ Cardinality(Matching(c, r)) \in Nat
           /\ Cardinality(Matching(c, r)) <= Cardinality(c.request)
           /\ Cardinality(c.request) \in Nat
  <1>1. Matching(c, r) \subseteq c.request /\ IsFiniteSet(c.request)
    BY AccountConstants DEF Matching
  <1> QED
    BY <1>1, PartIsSmaller

\* A step after which no more requests match, and no try is live that was not.
LEMMA FewerTries ==
    ASSUME NEW c, Account(c)!AccountsAssumption, TriesAreBounded(c), NEW r \in c.receiver,
           NEW L, NEW M, L \subseteq Account(c)!Live(r), M \subseteq Matching(c, r)
    PROVE  Cardinality(L) + Cardinality(M) <= c.validateLimit - 1 + Cardinality(c.request)
  <1>1. Cardinality(L) \in Nat /\ Cardinality(L) <= Cardinality(Account(c)!Live(r))
    BY LiveIsFinite, PartIsSmaller
  <1>2. Cardinality(M) \in Nat /\ Cardinality(M) <= Cardinality(Matching(c, r))
    BY MatchingIsFinite, PartIsSmaller
  <1>3. Cardinality(Account(c)!Live(r)) + Cardinality(Matching(c, r))
          <= c.validateLimit - 1 + Cardinality(c.request)
    BY DEF TriesAreBounded
  <1>4. /\ Cardinality(Account(c)!Live(r)) \in Nat /\ Cardinality(Matching(c, r)) \in Nat
        /\ Cardinality(c.request) \in Nat /\ c.validateLimit \in Nat
    BY LiveIsFinite, MatchingIsFinite, AccountConstants
  <1> QED
    BY ONLY <1>1, <1>2, <1>3, <1>4

LEMMA TriesStay ==
    ASSUME NEW c, Account(c)!AccountsAssumption, TriesAreBounded(c), tries' = tries,
           clock \in Nat, clock' \in Nat, clock <= clock',
           \A p \in c.request : requests'[p].step = "match" => requests'[p] = requests[p]
    PROVE  TriesAreBounded(c)'
  <1>1. ASSUME NEW r \in c.receiver
        PROVE  (Cardinality(Account(c)!Live(r)) + Cardinality(Matching(c, r))
                  <= c.validateLimit - 1 + Cardinality(c.request))'
    <2>1. PICK L : L = Account(c)!Live(r)'
      OBVIOUS
    <2>2. PICK M : M = Matching(c, r)'
      OBVIOUS
    <2>3. M \subseteq Matching(c, r)
      BY <2>2 DEF Matching
    <2>4. L \subseteq Account(c)!Live(r)
      <3>1. c.window \in Nat /\ \A m \in DOMAIN tries[r] : tries[r][m] \in Nat
        BY AccountConstants DEF TriesAreBounded
      <3> QED
        BY <2>1, <3>1 DEF Account!Live
    <2>5. Cardinality(L) + Cardinality(M) <= c.validateLimit - 1 + Cardinality(c.request)
      BY <2>3, <2>4, FewerTries
    <2> QED
      BY <2>1, <2>2, <2>5
  <1> QED
    BY <1>1 DEF TriesAreBounded

-----------------------------------------------------------------------------
(* The clock, and the insert of a verification.                            *)

LEMMA SentGrows ==
    ASSUME NEW c, NEW sent \in [1..issued -> Sent(c)], clock \in Nat, clock' \in Nat,
           clock <= clock', issued' = issued
    PROVE  sent \in [1..issued' -> Sent(c)']
  <1>1. 1..clock \subseteq 1..clock'
    OBVIOUS
  <1>2. Sent(c) \subseteq Sent(c)'
    BY <1>1 DEF Sent
  <1> QED
    BY <1>2

LEMMA AccountTickKeepsInv ==
    ASSUME NEW c, Account(c)!AccountsAssumption, AccountInv(c), Account(c)!Tick
    PROVE  AccountInv(c)'
  <1>1. /\ clock' = clock + 1 /\ clock < c.maxTime
        /\ UNCHANGED <<requests, verifications, users, sessions, keys, poolKeys, unanswered,
                       signedUp, lostInserts, overfull, resets, opened, queryFailures, tries,
                       issued, inserted, entered, consumed, reused, aborts>>
    BY DEF Account!Tick, Account!accounts, Account!pool, Account!history
  <1>2. clock \in 1..c.maxTime /\ c.maxTime \in Nat
    BY AccountConstants DEF AccountInv, AccountTypes
  <1>3. clock \in Nat /\ clock' \in 1..c.maxTime /\ clock' \in Nat /\ clock <= clock'
    BY <1>1, <1>2
  <1>4. AccountTypes(c)'
    BY <1>1, <1>3 DEF AccountInv, AccountTypes
  <1>5. AsSent(c)'
    <2>1. PICK sent \in [1..issued -> Sent(c)] :
            /\ RowsAreAsSent(sent)
            /\ \A p \in c.request : RequestAsSent(requests[p], sent)
            /\ InsertsAreKept(c, sent)
      BY DEF AccountInv, AsSent
    <2>2. sent \in [1..issued' -> Sent(c)']
      BY <1>1, <1>3, SentGrows
    <2>3. RowsAreAsSent(sent)'
      BY <1>1, <2>1 DEF RowsAreAsSent, Proved
    <2>4. ASSUME NEW p \in c.request PROVE RequestAsSent(requests[p], sent)'
      BY <1>1, <2>1 DEF RequestAsSent, Proved
    <2>5. InsertsAreKept(c, sent)'
      BY <1>1, <2>1 DEF InsertsAreKept
    <2> QED
      BY <2>2, <2>3, <2>4, <2>5 DEF AsSent
  <1>6. IdsAreFresh(c)'
    BY <1>1 DEF AccountInv, IdsAreFresh
  <1>7. TriesAreBounded(c)'
    BY <1>1, <1>3, TriesStay DEF AccountInv
  <1>8. OwnersAreOne(c)'
    BY <1>1, OwnersStay DEF AccountInv
  <1>9. Account(c)!CodesArePaced'
    BY <1>1, PacedStay DEF AccountInv
  <1> QED
    BY <1>4, <1>5, <1>6, <1>7, <1>8, <1>9 DEF AccountInv

LEMMA BeginKeepsInv ==
    ASSUME NEW c, Account(c)!AccountsAssumption, AccountInv(c), NEW p \in c.request,
           NEW r \in c.receiver, NEW code \in c.code, Account(c)!BeginVerification(p, r, code)
    PROVE  AccountInv(c)'
  <1>0. PICK row : row = [receiver |-> r, code |-> code, created |-> clock, verified |-> FALSE]
    OBVIOUS
  <1>1. PICK new : new = [step |-> "insert", id |-> issued + 1, row |-> row]
    OBVIOUS
  <1>2. /\ requests' = [requests EXCEPT ![p] = new] /\ issued' = issued + 1
        /\ UNCHANGED <<clock, verifications, users, sessions, keys, poolKeys, unanswered, signedUp,
                       lostInserts, overfull, resets, opened, queryFailures, tries, inserted,
                       entered, consumed, reused, aborts>>
    BY <1>0, <1>1 DEF Account!BeginVerification, Account!accounts, Account!pool, Account!history
  <1>3. /\ issued \in Nat /\ clock \in 1..c.maxTime /\ clock \in Nat /\ clock >= 1
        /\ issued + 1 \in 1..issued' /\ 1..issued \subseteq 1..issued'
        /\ issued + 1 \notin 1..issued /\ issued' \in Nat
    BY <1>2, AccountConstants DEF AccountInv, AccountTypes
  <1>4. row \in VerificationRow(c) /\ new \in Inserting(c, issued') /\ new \in Held(c, issued')
    <2>1. row \in VerificationRow(c)
      BY <1>0, <1>3 DEF VerificationRow
    <2>2. new \in Inserting(c, issued')
      BY <1>1, <1>3, <2>1 DEF Inserting
    <2> QED
      BY <2>1, <2>2 DEF Held
  <1>5. /\ requests' \in [c.request -> Held(c, issued')] /\ requests'[p] = new
        /\ \A q \in c.request : q # p => requests'[q] = requests[q]
    BY <1>2, <1>4, OneRequestChanges DEF AccountInv
  <1>6. new.step = "insert" /\ new.id = issued + 1 /\ new.row = row /\ row.verified = FALSE
    BY <1>0, <1>1
  <1>7. AccountTypes(c)'
    BY <1>2, <1>3, <1>5 DEF AccountInv, AccountTypes
  <1>8. AsSent(c)'
    <2>1. PICK sent \in [1..issued -> Sent(c)] :
            /\ RowsAreAsSent(sent)
            /\ \A q \in c.request : RequestAsSent(requests[q], sent)
            /\ InsertsAreKept(c, sent)
      BY DEF AccountInv, AsSent
    <2>2. PICK s : s = [receiver |-> r, code |-> code, created |-> clock]
      OBVIOUS
    <2>3. s \in Sent(c) /\ Sent(c)' = Sent(c) /\ row \in RowOf(s)
      BY <1>0, <1>2, <1>3, <2>2 DEF Sent, RowOf
    <2>4. PICK sent2 : sent2 = [i \in 1..issued' |-> IF i = issued + 1 THEN s ELSE sent[i]]
      OBVIOUS
    <2>5. /\ sent2 \in [1..issued' -> Sent(c)'] /\ sent2[issued + 1] = s
          /\ \A i \in 1..issued : sent2[i] = sent[i]
      <3>1. ASSUME NEW i \in 1..issued', i # issued + 1 PROVE sent[i] \in Sent(c)
        <4>1. i \in 1..issued
          BY <1>2, <1>3, <3>1
        <4> QED
          BY <4>1
      <3> QED
        BY <1>3, <2>3, <2>4, <3>1
    <2>6. RowsAreAsSent(sent2)'
      BY <1>2, <2>1, <2>5 DEF RowsAreAsSent, Proved, AccountInv, AccountTypes
    <2>7. ASSUME NEW q \in c.request PROVE RequestAsSent(requests[q], sent2)'
      <3>1. CASE q = p
        BY <1>5, <1>6, <2>3, <2>5, <3>1 DEF RequestAsSent
      <3>2. CASE q # p
        <4>1. requests[q].step # "idle" => requests[q].id \in 1..issued
          BY <1>3, StepsOfHeld DEF AccountInv, AccountTypes, Inserting, Verifying, Updating
        <4>2. requests'[q] = requests[q] /\ RequestAsSent(requests[q], sent)
          BY <1>5, <2>1, <3>2
        <4>3. requests[q].step # "idle" => sent2[requests[q].id] = sent[requests[q].id]
          BY <2>5, <4>1
        <4> QED
          BY <1>2, <4>2, <4>3 DEF RequestAsSent, Proved
      <3> QED
        BY <3>1, <3>2
    <2>8. InsertsAreKept(c, sent2)'
      <3>1. PICK R : R = [id : 1..issued, receiver : c.receiver, created : Nat, at : Nat]
        OBVIOUS
      <3>2. PICK R2 : R2 = [id : 1..issued', receiver : c.receiver, created : Nat, at : Nat]
        OBVIOUS
      <3>3. R \subseteq R2
        BY <1>3, <3>1, <3>2
      <3>4. inserted \in Seq(R)
        BY <2>1, <3>1 DEF InsertsAreKept
      <3>5. inserted \in Seq(R2)
        BY <3>3, <3>4
      <3>6. ASSUME NEW k \in DOMAIN inserted PROVE inserted[k].id \in 1..issued
        <4>1. inserted[k] \in R
          BY <3>4, ElementOfSeq
        <4> QED
          BY <3>1, <4>1
      <3> QED
        BY <1>2, <2>1, <2>5, <3>2, <3>5, <3>6 DEF InsertsAreKept
    <2> QED
      BY <2>5, <2>6, <2>7, <2>8 DEF AsSent
  <1>9. IdsAreFresh(c)'
    <2>1. issued + 1 \notin consumed \cup DOMAIN verifications
      BY <1>3 DEF AccountInv, AccountTypes
    <2>2. ASSUME NEW q \in c.request, requests[q].step = "insert"
          PROVE  requests[q].id # issued + 1
      <3>1. requests[q] \in Inserting(c, issued)
        BY <1>3, <2>2, StepsOfHeld DEF AccountInv, AccountTypes
      <3> QED
        BY <1>3, <3>1 DEF Inserting
    <2> QED
      BY <1>2, <1>5, <1>6, <2>1, <2>2 DEF AccountInv, IdsAreFresh
  <1>10. TriesAreBounded(c)'
    BY <1>2, <1>3, <1>5, <1>6, TriesStay DEF AccountInv
  <1>11. OwnersAreOne(c)'
    BY <1>2, OwnersStay DEF AccountInv
  <1>12. Account(c)!CodesArePaced'
    BY <1>2, PacedStay DEF AccountInv
  <1> QED
    BY <1>7, <1>8, <1>9, <1>10, <1>11, <1>12 DEF AccountInv

-----------------------------------------------------------------------------
(* A request alone changes.                                                *)

LEMMA IdleAsSent == ASSUME NEW sent PROVE RequestAsSent(IdleRequest, sent)'
  BY DEF RequestAsSent, IdleRequest

LEMMA RequestAlone ==
    ASSUME NEW c, AccountInv(c), NEW p \in c.request, NEW new \in Held(c, issued),
           requests' = [requests EXCEPT ![p] = new],
           UNCHANGED <<clock, verifications, users, sessions, keys, poolKeys, unanswered, signedUp,
                       lostInserts, overfull, opened, queryFailures, issued, inserted, consumed,
                       reused>>,
           entered \subseteq entered',
           \/ aborts' = aborts /\ new.step # "insert"
           \/ aborts' = aborts + 1,
           \A sent \in [1..issued -> Sent(c)] :
             RowsAreAsSent(sent) /\ RequestAsSent(requests[p], sent) => RequestAsSent(new, sent)',
           TriesAreBounded(c)'
    PROVE  AccountInv(c)'
  <1>1. /\ requests' \in [c.request -> Held(c, issued')] /\ requests'[p] = new
        /\ \A q \in c.request : q # p => requests'[q] = requests[q]
    BY OneRequestChanges DEF AccountInv
  <1>2. aborts \in Nat /\ aborts' \in Nat
    BY DEF AccountInv, AccountTypes
  <1>3. AccountTypes(c)'
    BY <1>1, <1>2 DEF AccountInv, AccountTypes
  <1>4. AsSent(c)'
    <2>1. PICK sent \in [1..issued -> Sent(c)] :
            /\ RowsAreAsSent(sent)
            /\ \A q \in c.request : RequestAsSent(requests[q], sent)
            /\ InsertsAreKept(c, sent)
      BY DEF AccountInv, AsSent
    <2>2. sent \in [1..issued' -> Sent(c)']
      BY DEF Sent
    <2>3. RowsAreAsSent(sent)'
      BY <2>1 DEF RowsAreAsSent, Proved
    <2>4. ASSUME NEW q \in c.request PROVE RequestAsSent(requests[q], sent)'
      <3>1. CASE q = p
        <4>1. RequestAsSent(new, sent)'
          BY <2>1
        <4> QED
          BY <1>1, <3>1, <4>1 DEF RequestAsSent, Proved
      <3>2. CASE q # p
        BY <1>1, <2>1, <3>2 DEF RequestAsSent, Proved
      <3> QED
        BY <3>1, <3>2
    <2>5. InsertsAreKept(c, sent)'
      BY <2>1 DEF InsertsAreKept
    <2> QED
      BY <2>2, <2>3, <2>4, <2>5 DEF AsSent
  <1>5. IdsAreFresh(c)'
    <2>1. CASE aborts' = aborts /\ new.step # "insert"
      BY <1>1, <2>1 DEF AccountInv, IdsAreFresh
    <2>2. CASE aborts' = aborts + 1
      BY <1>2, <2>2 DEF IdsAreFresh
    <2> QED
      BY <2>1, <2>2
  <1>6. OwnersAreOne(c)'
    BY OwnersStay DEF AccountInv
  <1>7. Account(c)!CodesArePaced'
    BY PacedStay DEF AccountInv
  <1> QED
    BY <1>3, <1>4, <1>5, <1>6, <1>7 DEF AccountInv

\* The request is answered.
LEMMA ReplyKeepsInv ==
    ASSUME NEW c, Account(c)!AccountsAssumption, AccountInv(c), NEW p \in c.request,
           requests' = [requests EXCEPT ![p] = IdleRequest],
           UNCHANGED <<clock, verifications, users, sessions, keys, poolKeys, unanswered, signedUp,
                       lostInserts, overfull, opened, queryFailures, issued, inserted, entered,
                       consumed, reused, aborts>>,
           TriesAreBounded(c)'
    PROVE  AccountInv(c)'
  <1>1. IdleRequest \in Held(c, issued) /\ IdleRequest.step # "insert"
    BY DEF Held, IdleRequest
  <1>2. \A sent \in [1..issued -> Sent(c)] :
          RowsAreAsSent(sent) /\ RequestAsSent(requests[p], sent)
            => RequestAsSent(IdleRequest, sent)'
    BY IdleAsSent
  <1> QED
    BY <1>1, <1>2, RequestAlone

LEMMA ReplyKeepsTries ==
    ASSUME NEW c, Account(c)!AccountsAssumption, AccountInv(c), NEW p \in c.request,
           requests' = [requests EXCEPT ![p] = IdleRequest], tries' = tries, clock' = clock
    PROVE  TriesAreBounded(c)'
  <1>1. /\ requests'[p] = IdleRequest /\ IdleRequest.step # "match"
        /\ \A q \in c.request : q # p => requests'[q] = requests[q]
    BY DEF AccountInv, AccountTypes, IdleRequest
  <1>2. clock \in Nat /\ clock' \in Nat /\ clock <= clock'
    BY AccountConstants DEF AccountInv, AccountTypes
  <1>3. \A q \in c.request : requests'[q].step = "match" => requests'[q] = requests[q]
    BY <1>1
  <1> QED
    BY <1>2, <1>3, TriesStay DEF AccountInv

\* DoVerification reads the row.
LEMMA FindKeepsInv ==
    ASSUME NEW c, Account(c)!AccountsAssumption, AccountInv(c), NEW p \in c.request,
           NEW id, NEW code \in c.code, Account(c)!FindVerification(p, id, code)
    PROVE  AccountInv(c)'
  <1>0. PICK row : row = verifications[id]
    OBVIOUS
  <1>1. PICK new : new = [step |-> "check", id |-> id, row |-> row, code |-> code]
    OBVIOUS
  <1>2. /\ id \in DOMAIN verifications /\ requests' = [requests EXCEPT ![p] = new]
        /\ entered' = entered \cup {<<row.receiver, code>>}
        /\ UNCHANGED <<clock, verifications, users, sessions, keys, poolKeys, unanswered, signedUp,
                       lostInserts, overfull, opened, queryFailures, tries, issued, inserted,
                       consumed, reused, aborts>>
    BY <1>0, <1>1 DEF Account!FindVerification, Account!accounts, Account!pool
  <1>3. id \in 1..issued /\ row \in VerificationRow(c) /\ issued \in Nat
    BY <1>0, <1>2 DEF AccountInv, AccountTypes
  <1>4. new \in Verifying(c, issued) /\ new \in Held(c, issued)
    BY <1>1, <1>3 DEF Verifying, Held
  <1>5. new.step = "check" /\ new.id = id /\ new.row = row /\ new.code = code
    BY <1>1
  <1>6. ASSUME NEW sent \in [1..issued -> Sent(c)], RowsAreAsSent(sent)
        PROVE  RequestAsSent(new, sent)'
    <2>1. row \in RowOf(sent[id])
      BY <1>0, <1>2, <1>6 DEF RowsAreAsSent
    <2>2. row.receiver = sent[id].receiver
      BY <2>1 DEF RowOf
    <2> QED
      BY <1>2, <1>5, <2>1, <2>2 DEF RequestAsSent
  <1>7. TriesAreBounded(c)'
    <2>1. \A q \in c.request : requests'[q].step = "match" => requests'[q] = requests[q]
      BY <1>2, <1>5 DEF AccountInv, AccountTypes
    <2>2. clock \in Nat /\ clock' \in Nat /\ clock <= clock'
      BY <1>2, AccountConstants DEF AccountInv, AccountTypes
    <2> QED
      BY <1>2, <2>1, <2>2, TriesStay DEF AccountInv
  <1>8. entered \subseteq entered' /\ new.step # "insert"
    BY <1>2, <1>5
  <1> QED
    BY <1>2, <1>4, <1>6, <1>7, <1>8, RequestAlone

-----------------------------------------------------------------------------
(* CreateVerification.                                                     *)

LEMMA LatestExists ==
    ASSUME NEW T, T \subseteq Nat, T # {}, NEW m \in Nat, \A x \in T : x <= m
    PROVE  \E x \in T : \A y \in T : y <= x
  <1>1. PICK U : U = {m - x : x \in T}
    OBVIOUS
  <1>2. U \subseteq Nat /\ U # {}
    <2>1. ASSUME NEW v \in U PROVE v \in Nat
      <3>1. PICK x \in T : v = m - x
        BY <1>1
      <3>2. x \in Nat /\ x <= m
        OBVIOUS
      <3> QED
        BY <3>1, <3>2
    <2>2. PICK x : x \in T
      OBVIOUS
    <2>3. m - x \in U
      BY <1>1, <2>2
    <2> QED
      BY <2>1, <2>3
  <1>3. PICK R : R = OpToRel(<, Nat)
    OBVIOUS
  <1>4. IsWellFoundedOn(R, Nat)
    BY <1>3, NatLessThanWellFounded
  <1>5. PICK u \in U : \A v \in U : ~ (<<v, u>> \in R)
    BY <1>2, <1>4, WFMin
  <1>6. ASSUME NEW v \in U PROVE ~ (v < u)
    <2>1. ~ (<<v, u>> \in R)
      BY <1>5
    <2> QED
      BY <1>2, <1>3, <2>1 DEF OpToRel
  <1>7. PICK x \in T : u = m - x
    BY <1>1
  <1>8. ASSUME NEW y \in T PROVE y <= x
    <2>1. m - y \in U
      BY <1>1
    <2>2. ~ (m - y < m - x)
      BY <1>6, <1>7, <2>1
    <2> QED
      BY <2>2
  <1> QED
    BY <1>8

\* None of the rows read is recent: then no row of the receiver is.
LEMMA NoneIsRecent ==
    ASSUME NEW c, Account(c)!AccountsAssumption, AccountTypes(c), NEW r,
           \A i \in Account(c)!Newest(Account(c)!RowsOf(r)) : ~ Account(c)!Recent(i),
           NEW k \in DOMAIN verifications, verifications[k].receiver = r
    PROVE  clock - verifications[k].created >= c.interval
  <1>1. \A i \in DOMAIN verifications : verifications[i].created \in 1..c.maxTime
    BY DEF AccountTypes, VerificationRow
  <1>2. c.maxTime \in Nat /\ c.interval \in Nat /\ clock \in Nat
    BY AccountConstants DEF AccountTypes
  <1>3. PICK ids : ids = Account(c)!RowsOf(r)
    OBVIOUS
  <1>4. k \in ids /\ ids \subseteq DOMAIN verifications
    BY <1>3 DEF Account!RowsOf
  <1>5. PICK T : T = {verifications[i].created : i \in ids}
    OBVIOUS
  <1>6. T \subseteq Nat /\ T # {} /\ \A x \in T : x <= c.maxTime
    BY <1>1, <1>2, <1>4, <1>5
  <1>7. PICK x \in T : \A y \in T : y <= x
    BY <1>2, <1>6, LatestExists
  <1>8. PICK i \in ids : verifications[i].created = x
    BY <1>5
  <1>9. i \in Account(c)!Newest(ids)
    BY <1>5, <1>7, <1>8 DEF Account!Newest
  <1>10. ~ (verifications[i].created > clock - c.interval)
    BY <1>3, <1>9 DEF Account!Recent
  <1>11. verifications[k].created <= verifications[i].created
    BY <1>4, <1>5, <1>7, <1>8
  <1>12. verifications[i].created \in Nat /\ verifications[k].created \in Nat
    BY <1>1, <1>4
  <1> QED
    BY ONLY <1>2, <1>10, <1>11, <1>12

\* The transaction was aborted, and its function holds the last row.
LEMMA AbortKeepsInv ==
    ASSUME NEW c, Account(c)!AccountsAssumption, AccountInv(c), NEW p \in c.request,
           requests[p].step = "insert", NEW i \in DOMAIN verifications,
           requests' = [requests EXCEPT ![p].id = i, ![p].row = verifications[i]],
           aborts' = aborts + 1,
           UNCHANGED <<clock, verifications, users, sessions, keys, poolKeys, unanswered, signedUp,
                       lostInserts, overfull, opened, queryFailures, tries, issued, inserted,
                       entered, consumed, reused>>
    PROVE  AccountInv(c)'
  <1>0. PICK row : row = verifications[i]
    OBVIOUS
  <1>1. PICK new : new = [step |-> "insert", id |-> i, row |-> row]
    OBVIOUS
  <1>2. i \in 1..issued /\ row \in VerificationRow(c) /\ issued \in Nat
    BY <1>0 DEF AccountInv, AccountTypes
  <1>3. new \in Inserting(c, issued) /\ new \in Held(c, issued)
    BY <1>1, <1>2 DEF Inserting, Held
  <1>4. requests' = [requests EXCEPT ![p] = new]
    <2>1. PICK q : q = requests[p]
      OBVIOUS
    <2>2. q \in Inserting(c, issued)
      BY <1>2, <2>1, StepsOfHeld DEF AccountInv, AccountTypes
    <2>3. PICK n : n = [q EXCEPT !.id = i, !.row = row]
      OBVIOUS
    <2>4. n \in [step : {"insert"}, id : {i}, row : {row}]
      BY <2>2, <2>3 DEF Inserting
    <2>5. n = new
      BY <1>1, <2>4
    <2>6. p \in DOMAIN requests
      BY DEF AccountInv, AccountTypes
    <2> QED
      BY <1>0, <2>1, <2>3, <2>5, <2>6
  <1>5. new.step = "insert" /\ new.id = i /\ new.row = row
    BY <1>1
  <1>6. ASSUME NEW sent \in [1..issued -> Sent(c)], RowsAreAsSent(sent)
        PROVE  RequestAsSent(new, sent)'
    BY <1>0, <1>5, <1>6 DEF RequestAsSent, RowsAreAsSent, Proved
  <1>7. TriesAreBounded(c)'
    <2>1. \A q \in c.request : requests'[q].step = "match" => requests'[q] = requests[q]
      BY <1>4, <1>5 DEF AccountInv, AccountTypes
    <2>2. clock \in Nat /\ clock' \in Nat /\ clock <= clock'
      BY AccountConstants DEF AccountInv, AccountTypes
    <2> QED
      BY <2>1, <2>2, TriesStay DEF AccountInv
  <1> QED
    BY <1>3, <1>4, <1>6, <1>7, RequestAlone

\* The row is inserted.
LEMMA RowIsInserted ==
    ASSUME NEW c, Account(c)!AccountsAssumption, AccountInv(c), NEW p \in c.request,
           requests[p].step = "insert", requests[p].id \notin DOMAIN verifications,
           \A i \in Account(c)!Newest(Account(c)!RowsOf(requests[p].row.receiver)) :
             ~ Account(c)!Recent(i),
           requests' = [requests EXCEPT ![p] = IdleRequest],
           verifications' = [i \in DOMAIN verifications \cup {requests[p].id} |->
                               IF i = requests[p].id THEN requests[p].row ELSE verifications[i]],
           inserted' = Append(inserted, [id |-> requests[p].id,
                                         receiver |-> requests[p].row.receiver,
                                         created |-> requests[p].row.created, at |-> clock]),
           UNCHANGED <<clock, users, sessions, keys, poolKeys, unanswered, signedUp, lostInserts,
                       overfull, opened, queryFailures, tries, issued, entered, consumed, reused,
                       aborts>>
    PROVE  AccountInv(c)'
  <1>1. PICK id : id = requests[p].id
    OBVIOUS
  <1>2. PICK row : row = requests[p].row
    OBVIOUS
  <1>3. issued \in Nat /\ clock \in Nat /\ c.maxTime \in Nat /\ c.interval \in Nat
    BY AccountConstants DEF AccountInv, AccountTypes
  <1>4. id \in 1..issued /\ row \in VerificationRow(c)
    <2>1. requests[p] \in Inserting(c, issued)
      BY <1>3, StepsOfHeld DEF AccountInv, AccountTypes
    <2> QED
      BY <1>1, <1>2, <2>1 DEF Inserting
  <1>5. IdleRequest \in Held(c, issued')
    BY DEF Held
  <1>6. /\ requests' \in [c.request -> Held(c, issued')] /\ requests'[p] = IdleRequest
        /\ \A q \in c.request : q # p => requests'[q] = requests[q]
    BY <1>5, OneRequestChanges DEF AccountInv
  <1>7. /\ id \notin DOMAIN verifications /\ verifications'[id] = row
        /\ DOMAIN verifications' = DOMAIN verifications \cup {id}
        /\ \A i \in DOMAIN verifications : verifications'[i] = verifications[i]
    BY <1>1, <1>2
  <1>8. PICK entry : entry = [id |-> id, receiver |-> row.receiver, created |-> row.created,
                              at |-> clock]
    OBVIOUS
  <1>9. inserted' = Append(inserted, entry)
    BY <1>1, <1>2, <1>8
  <1>10. /\ entry.id = id /\ entry.receiver = row.receiver /\ entry.created = row.created
         /\ entry.at = clock
    BY <1>8
  <1>11. PICK R : R = [id : 1..issued, receiver : c.receiver, created : Nat, at : Nat]
    OBVIOUS
  <1>12. inserted \in Seq(R)
    BY <1>11 DEF AccountInv, AsSent, InsertsAreKept
  <1>13. entry \in R
    <2>1. row.receiver \in c.receiver /\ row.created \in Nat
      BY <1>4 DEF VerificationRow
    <2> QED
      BY <1>3, <1>4, <1>8, <1>11, <2>1
  <1>14. /\ inserted' \in Seq(R) /\ DOMAIN inserted' = 1..(Len(inserted) + 1)
         /\ DOMAIN inserted = 1..Len(inserted) /\ Len(inserted) \in Nat
         /\ inserted'[Len(inserted) + 1] = entry
         /\ \A k \in DOMAIN inserted : inserted'[k] = inserted[k]
    BY <1>9, <1>12, <1>13, AppendProperties, LenProperties
  <1>15. AccountTypes(c)'
    BY <1>4, <1>6, <1>7 DEF AccountInv, AccountTypes
  <1>16. AsSent(c)'
    <2>1. PICK sent \in [1..issued -> Sent(c)] :
            /\ RowsAreAsSent(sent)
            /\ \A q \in c.request : RequestAsSent(requests[q], sent)
            /\ InsertsAreKept(c, sent)
      BY DEF AccountInv, AsSent
    <2>2. sent \in [1..issued' -> Sent(c)']
      BY DEF Sent
    <2>3. row \in RowOf(sent[id]) /\ (row.verified => Proved(sent[id]))
      BY <1>1, <1>2, <2>1 DEF RequestAsSent
    <2>4. RowsAreAsSent(sent)'
      BY <1>7, <2>1, <2>3 DEF RowsAreAsSent, Proved
    <2>5. ASSUME NEW q \in c.request PROVE RequestAsSent(requests[q], sent)'
      <3>1. CASE q = p
        BY <1>6, <3>1, IdleAsSent DEF RequestAsSent
      <3>2. CASE q # p
        BY <1>6, <2>1, <3>2 DEF RequestAsSent, Proved
      <3> QED
        BY <3>1, <3>2
    <2>6. InsertsAreKept(c, sent)'
      <3>1. row.receiver = sent[id].receiver /\ row.created = sent[id].created
        BY <2>3 DEF RowOf
      <3>2. ASSUME NEW k \in DOMAIN inserted'
            PROVE  /\ inserted'[k].id \in consumed \cup DOMAIN verifications'
                   /\ inserted'[k].receiver = sent[inserted'[k].id].receiver
                   /\ inserted'[k].created = sent[inserted'[k].id].created
        <4>1. CASE k = Len(inserted) + 1
          BY <1>7, <1>10, <1>14, <3>1, <4>1
        <4>2. CASE k # Len(inserted) + 1
          <5>1. k \in DOMAIN inserted
            BY <1>14, <4>2
          <5> QED
            BY <1>7, <1>14, <2>1, <5>1 DEF InsertsAreKept
        <4> QED
          BY <4>1, <4>2
      <3> QED
        BY <1>11, <1>14, <3>2 DEF InsertsAreKept
    <2> QED
      BY <2>2, <2>4, <2>5, <2>6 DEF AsSent
  <1>17. IdsAreFresh(c)'
    <2>1. IdleRequest.step # "insert"
      BY DEF IdleRequest
    <2> QED
      BY <1>1, <1>6, <1>7, <2>1 DEF AccountInv, IdsAreFresh
  <1>18. TriesAreBounded(c)'
    BY ReplyKeepsTries
  <1>19. OwnersAreOne(c)'
    BY OwnersStay DEF AccountInv
  <1>20. Account(c)!CodesArePaced'
    <2>1. ASSUME NEW k \in DOMAIN inserted, inserted[k].receiver = row.receiver,
                 inserted[k].id \notin consumed
          PROVE  clock - inserted[k].created >= c.interval
      <3>1. PICK sent \in [1..issued -> Sent(c)] : RowsAreAsSent(sent) /\ InsertsAreKept(c, sent)
        BY DEF AccountInv, AsSent
      <3>2. /\ inserted[k].id \in DOMAIN verifications
            /\ inserted[k].receiver = sent[inserted[k].id].receiver
            /\ inserted[k].created = sent[inserted[k].id].created
        BY <2>1, <3>1 DEF InsertsAreKept
      <3>3. verifications[inserted[k].id] \in RowOf(sent[inserted[k].id])
        BY <3>1, <3>2 DEF RowsAreAsSent
      <3>4. /\ verifications[inserted[k].id].receiver = row.receiver
            /\ verifications[inserted[k].id].created = inserted[k].created
        BY <2>1, <3>2, <3>3 DEF RowOf
      <3> QED
        BY <1>2, <3>2, <3>4, NoneIsRecent DEF AccountInv
    <2>2. ASSUME NEW j \in DOMAIN inserted', NEW k \in 1..(j - 1)
          PROVE  \/ inserted'[k].receiver # inserted'[j].receiver
                 \/ inserted'[k].id \in consumed
                 \/ inserted'[j].at - inserted'[k].created >= c.interval
      <3>1. CASE j = Len(inserted) + 1
        <4>1. k \in DOMAIN inserted
          BY <1>14, <3>1
        <4> QED
          BY <1>10, <1>14, <2>1, <3>1, <4>1
      <3>2. CASE j # Len(inserted) + 1
        <4>1. j \in DOMAIN inserted /\ k \in DOMAIN inserted
          BY <1>14, <3>2
        <4> QED
          BY <1>14, <4>1 DEF AccountInv, Account!CodesArePaced
      <3> QED
        BY <3>1, <3>2
    <2> QED
      BY <2>2 DEF Account!CodesArePaced
  <1> QED
    BY <1>15, <1>16, <1>17, <1>18, <1>19, <1>20 DEF AccountInv

LEMMA InsertKeepsInv ==
    ASSUME NEW c, Account(c)!AccountsAssumption, AccountInv(c), NEW p \in c.request,
           Account(c)!InsertVerification(p)
    PROVE  AccountInv(c)'
  <1>1. /\ requests[p].step = "insert"
        /\ UNCHANGED <<clock, users, sessions, keys, poolKeys, unanswered, signedUp, lostInserts,
                       overfull, opened, queryFailures, tries, issued, entered, consumed, reused>>
    BY DEF Account!InsertVerification, Account!accounts, Account!pool
  <1>2. Account(c)!Idle = IdleRequest
    BY DEF Account!Idle, IdleRequest
  <1>3. CASE /\ requests' = [requests EXCEPT ![p] = IdleRequest]
             /\ UNCHANGED <<verifications, inserted, aborts>>
    BY <1>1, <1>3, ReplyKeepsInv, ReplyKeepsTries
  <1>4. CASE \E i \in DOMAIN verifications :
               /\ aborts' = aborts + 1
               /\ requests' = [requests EXCEPT ![p].id = i, ![p].row = verifications[i]]
               /\ UNCHANGED <<verifications, inserted>>
    BY <1>1, <1>4, AbortKeepsInv
  <1>5. CASE /\ \A i \in Account(c)!Newest(Account(c)!RowsOf(requests[p].row.receiver)) :
                  ~ Account(c)!Recent(i)
             /\ requests[p].id \notin DOMAIN verifications
             /\ requests' = [requests EXCEPT ![p] = IdleRequest] /\ aborts' = aborts
             /\ verifications' = [i \in DOMAIN verifications \cup {requests[p].id} |->
                                    IF i = requests[p].id THEN requests[p].row
                                    ELSE verifications[i]]
             /\ inserted' = Append(inserted, [id |-> requests[p].id,
                                              receiver |-> requests[p].row.receiver,
                                              created |-> requests[p].row.created, at |-> clock])
    BY <1>1, <1>5, RowIsInserted
  <1>6. \/ /\ requests' = [requests EXCEPT ![p] = IdleRequest]
           /\ UNCHANGED <<verifications, inserted, aborts>>
        \/ \E i \in DOMAIN verifications :
               /\ aborts' = aborts + 1
               /\ requests' = [requests EXCEPT ![p].id = i, ![p].row = verifications[i]]
               /\ UNCHANGED <<verifications, inserted>>
        \/ /\ \A i \in Account(c)!Newest(Account(c)!RowsOf(requests[p].row.receiver)) :
                ~ Account(c)!Recent(i)
           /\ requests[p].id \notin DOMAIN verifications
           /\ requests' = [requests EXCEPT ![p] = IdleRequest] /\ aborts' = aborts
           /\ verifications' = [i \in DOMAIN verifications \cup {requests[p].id} |->
                                  IF i = requests[p].id THEN requests[p].row
                                  ELSE verifications[i]]
           /\ inserted' = Append(inserted, [id |-> requests[p].id,
                                            receiver |-> requests[p].row.receiver,
                                            created |-> requests[p].row.created, at |-> clock])
    <2>1. Account(c)!Newest(Account(c)!RowsOf(requests[p].row.receiver)) \subseteq DOMAIN verifications
      BY DEF Account!Newest, Account!RowsOf
    <2> QED
      BY <1>2, <2>1 DEF Account!InsertVerification, Account!Reply
  <1> QED
    BY <1>3, <1>4, <1>5, <1>6

-----------------------------------------------------------------------------
(* DoVerification.                                                         *)

\* The tries of one receiver change: what is left to show of those of the others.
LEMMA OneReceiverTries ==
    ASSUME NEW c, Account(c)!AccountsAssumption, AccountInv(c), NEW p \in c.request,
           NEW r \in c.receiver, requests[p].row.receiver = r,
           requests[p].step \in {"check", "match"}, clock' = clock,
           requests'[p].step = "match" => requests'[p].row.receiver = r,
           \A q \in c.request : q # p => requests'[q] = requests[q],
           NEW scores, tries' = [tries EXCEPT ![r] = scores],
           IsFiniteSet(DOMAIN scores), \A m \in DOMAIN scores : scores[m] \in Nat,
           Cardinality(Account(c)!Live(r)') + Cardinality(Matching(c, r)')
             <= c.validateLimit - 1 + Cardinality(c.request)
    PROVE  TriesAreBounded(c)'
  <1>1. /\ tries' = [x \in c.receiver |-> tries'[x]] /\ tries'[r] = scores
        /\ \A x \in c.receiver : x # r => tries'[x] = tries[x]
    BY DEF AccountInv, TriesAreBounded
  <1>2. ASSUME NEW x \in c.receiver
        PROVE  (/\ IsFiniteSet(DOMAIN tries[x]) /\ \A m \in DOMAIN tries[x] : tries[x][m] \in Nat
                /\ Cardinality(Account(c)!Live(x)) + Cardinality(Matching(c, x))
                     <= c.validateLimit - 1 + Cardinality(c.request))'
    <2>1. CASE x = r
      BY <1>1, <2>1
    <2>2. CASE x # r
      <3>1. IsFiniteSet(DOMAIN tries[x]) /\ \A m \in DOMAIN tries[x] : tries[x][m] \in Nat
        BY DEF AccountInv, TriesAreBounded
      <3>2. PICK L : L = Account(c)!Live(x)'
        OBVIOUS
      <3>3. L \subseteq Account(c)!Live(x)
        BY <1>1, <2>2, <3>2 DEF Account!Live
      <3>4. PICK M : M = Matching(c, x)'
        OBVIOUS
      <3>5. M \subseteq Matching(c, x)
        <4>1. ASSUME NEW q \in M PROVE q \in Matching(c, x)
          <5>1. q \in c.request /\ requests'[q].step = "match" /\ requests'[q].row.receiver = x
            BY <3>4 DEF Matching
          <5>2. q # p
            BY <2>2, <5>1
          <5> QED
            BY <5>1, <5>2 DEF Matching
        <4> QED
          BY <4>1
      <3>6. Cardinality(L) + Cardinality(M) <= c.validateLimit - 1 + Cardinality(c.request)
        BY <3>3, <3>5, FewerTries DEF AccountInv
      <3> QED
        BY <1>1, <2>2, <3>1, <3>2, <3>4, <3>6
    <2> QED
      BY <2>1, <2>2
  <1> QED
    BY <1>1, <1>2 DEF TriesAreBounded

\* What a request that is being checked holds.
LEMMA VerifyingHolds ==
    ASSUME NEW c, Account(c)!AccountsAssumption, AccountInv(c), NEW p \in c.request,
           requests[p].step \in {"check", "match"}
    PROVE  /\ requests[p] \in Verifying(c, issued) /\ requests[p].id \in 1..issued
           /\ requests[p].row \in VerificationRow(c) /\ requests[p].code \in c.code
           /\ requests[p].row.receiver \in c.receiver
           /\ p \in DOMAIN requests /\ issued \in Nat /\ clock \in Nat
  <1>1. issued \in Nat /\ requests \in [c.request -> Held(c, issued)] /\ clock \in Nat
    BY AccountConstants DEF AccountInv, AccountTypes
  <1>2. requests[p] \in Verifying(c, issued)
    BY <1>1, StepsOfHeld
  <1> QED
    BY <1>1, <1>2 DEF Verifying, VerificationRow

\* At most the requests match that there are.
LEMMA FewMatch ==
    ASSUME NEW c, Account(c)!AccountsAssumption, NEW r
    PROVE  Cardinality(Matching(c, r)') <= Cardinality(c.request)
             /\ Cardinality(Matching(c, r)') \in Nat
  <1>1. PICK M : M = Matching(c, r)'
    OBVIOUS
  <1>2. M \subseteq c.request
    BY <1>1 DEF Matching
  <1>3. IsFiniteSet(c.request)
    BY AccountConstants
  <1> QED
    BY <1>1, <1>2, <1>3, PartIsSmaller

LEMMA CheckKeepsInv ==
    ASSUME NEW c, Account(c)!AccountsAssumption, AccountInv(c), NEW p \in c.request,
           Account(c)!CheckLimit(p)
    PROVE  AccountInv(c)'
  <1>0. PICK r : r = requests[p].row.receiver
    OBVIOUS
  <1>1. PICK scores : scores = Account(c)!LiveTries(r)
    OBVIOUS
  <1>2. Account(c)!Idle = IdleRequest
    BY DEF Account!Idle, IdleRequest
  <1>3. /\ requests[p].step = "check" /\ tries' = [tries EXCEPT ![r] = scores]
        /\ \/ /\ Account(c)!MayTry(r)
              /\ requests' = [requests EXCEPT ![p].step = "match"]
           \/ requests' = [requests EXCEPT ![p] = IdleRequest]
        /\ UNCHANGED <<clock, verifications, users, sessions, keys, poolKeys, unanswered, signedUp,
                       lostInserts, overfull, opened, queryFailures, issued, inserted, entered,
                       consumed, reused, aborts>>
    BY <1>0, <1>1, <1>2
    DEF Account!CheckLimit, Account!accounts, Account!pool, Account!history, Account!Reply
  <1>4. /\ requests[p] \in Verifying(c, issued) /\ requests[p].id \in 1..issued
        /\ requests[p].row \in VerificationRow(c) /\ requests[p].code \in c.code
        /\ r \in c.receiver /\ p \in DOMAIN requests
    BY <1>0, <1>3, VerifyingHolds
  <1>5. /\ DOMAIN scores = Account(c)!Live(r)
        /\ \A m \in DOMAIN scores : scores[m] \in Nat /\ scores[m] = tries[r][m]
    BY <1>1, <1>4 DEF Account!LiveTries, Account!Live, AccountInv, TriesAreBounded
  <1>6. IsFiniteSet(DOMAIN scores) /\ Cardinality(Account(c)!Live(r)) \in Nat
    BY <1>4, <1>5, LiveIsFinite DEF AccountInv
  <1>7. Account(c)!Live(r)' = Account(c)!Live(r)
    <2>1. tries'[r] = scores
      BY <1>3, <1>4 DEF AccountInv, TriesAreBounded
    <2> QED
      BY <1>3, <1>5, <2>1 DEF Account!Live
  <1>8. CASE Account(c)!MayTry(r) /\ requests' = [requests EXCEPT ![p].step = "match"]
    <2>1. PICK q : q = requests[p]
      OBVIOUS
    <2>2. PICK new : new = [q EXCEPT !.step = "match"]
      OBVIOUS
    <2>3. new \in [step : {"match"}, id : {q.id}, row : {q.row}, code : {q.code}]
      BY <1>4, <2>1, <2>2 DEF Verifying
    <2>4. new \in Verifying(c, issued) /\ new \in Held(c, issued)
      BY <1>4, <2>1, <2>3 DEF Verifying, Held
    <2>5. requests' = [requests EXCEPT ![p] = new]
      BY <1>4, <1>8, <2>1, <2>2
    <2>6. new.step = "match" /\ new.id = q.id /\ new.row = q.row /\ new.code = q.code
      BY <2>3
    <2>7. ASSUME NEW sent \in [1..issued -> Sent(c)], RequestAsSent(requests[p], sent)
          PROVE  RequestAsSent(new, sent)'
      BY <1>3, <2>1, <2>6, <2>7 DEF RequestAsSent
    <2>8. requests'[p] = new /\ \A x \in c.request : x # p => requests'[x] = requests[x]
      BY <1>4, <2>5
    <2>9. Cardinality(Account(c)!Live(r)') + Cardinality(Matching(c, r)')
            <= c.validateLimit - 1 + Cardinality(c.request)
      <3>1. c.validateLimit - Cardinality(Account(c)!Live(r)) >= 1
        BY <1>8, AccountLibrary DEF Account!MayTry
      <3>2. /\ Cardinality(Matching(c, r)') <= Cardinality(c.request)
            /\ Cardinality(Matching(c, r)') \in Nat
        BY FewMatch
      <3>3. c.validateLimit \in Nat /\ Cardinality(c.request) \in Nat
        BY AccountConstants, MatchingIsFinite
      <3>4. PICK x : x = Cardinality(Account(c)!Live(r)')
        OBVIOUS
      <3>5. PICK y : y = Cardinality(Matching(c, r)')
        OBVIOUS
      <3>6. x = Cardinality(Account(c)!Live(r))
        BY <1>7, <3>4
      <3>7. x + y <= c.validateLimit - 1 + Cardinality(c.request)
        BY ONLY <1>6, <3>1, <3>2, <3>3, <3>5, <3>6
      <3> QED
        BY <3>4, <3>5, <3>7
    <2>10. TriesAreBounded(c)'
      BY <1>0, <1>3, <1>4, <1>5, <1>6, <2>1, <2>6, <2>8, <2>9, OneReceiverTries
    <2> QED
      BY <1>3, <2>4, <2>5, <2>6, <2>7, <2>10, RequestAlone
  <1>9. CASE requests' = [requests EXCEPT ![p] = IdleRequest]
    <2>1. /\ requests'[p] = IdleRequest /\ IdleRequest.step # "match"
          /\ \A x \in c.request : x # p => requests'[x] = requests[x]
      BY <1>4, <1>9 DEF IdleRequest
    <2>2. PICK M : M = Matching(c, r)'
      OBVIOUS
    <2>3. M \subseteq Matching(c, r)
      BY <2>1, <2>2 DEF Matching
    <2>4. Cardinality(Account(c)!Live(r)) + Cardinality(M)
            <= c.validateLimit - 1 + Cardinality(c.request)
      BY <1>4, <2>3, FewerTries DEF AccountInv
    <2>5. TriesAreBounded(c)'
      BY <1>0, <1>3, <1>4, <1>5, <1>6, <1>7, <2>1, <2>2, <2>4, OneReceiverTries
    <2> QED
      BY <1>3, <1>9, <2>5, ReplyKeepsInv
  <1> QED
    BY <1>3, <1>8, <1>9

\* A verification that is meant has the code that was entered for its receiver.
LEMMA MeantIsProved ==
    ASSUME NEW c, Account(c)!AccountsAssumption, AccountInv(c), NEW p \in c.request,
           requests[p].step = "match", NEW v \in Account(c)!Meant(requests[p]),
           NEW sent \in [1..issued -> Sent(c)], RowsAreAsSent(sent),
           RequestAsSent(requests[p], sent)
    PROVE  v.id \in 1..issued /\ Proved(sent[v.id])
  <1>1. PICK q : q = requests[p]
    OBVIOUS
  <1>2. /\ q.row \in RowOf(sent[q.id]) /\ <<sent[q.id].receiver, q.code>> \in entered
        /\ q.id \in 1..issued
    BY <1>1, VerifyingHolds DEF RequestAsSent
  <1>3. q.row.code = sent[q.id].code /\ q.row.receiver = sent[q.id].receiver
    BY <1>2 DEF RowOf
  <1>4. CASE q.row.code = q.code
    <2>1. v.id = q.id
      BY <1>1, <1>4 DEF Account!Meant
    <2> QED
      BY <1>2, <1>3, <1>4, <2>1 DEF Proved
  <1>5. CASE q.row.code # q.code
    <2>1. PICK i \in Account(c)!Newest({j \in Account(c)!RowsOf(q.row.receiver) :
                                          verifications[j].code = q.code}) :
            v = [id |-> i, row |-> verifications[i]]
      BY <1>1, <1>5 DEF Account!Meant
    <2>2. /\ i \in DOMAIN verifications /\ verifications[i].receiver = q.row.receiver
          /\ verifications[i].code = q.code
      BY <2>1 DEF Account!Newest, Account!RowsOf
    <2>3. verifications[i] \in RowOf(sent[i])
      BY <2>2 DEF RowsAreAsSent
    <2>4. sent[i].receiver = sent[q.id].receiver /\ sent[i].code = q.code
      BY <1>3, <2>2, <2>3 DEF RowOf
    <2>5. v.id = i /\ i \in 1..issued
      BY <2>1, <2>2 DEF AccountInv, AccountTypes
    <2> QED
      BY <1>2, <2>4, <2>5 DEF Proved
  <1> QED
    BY <1>4, <1>5

LEMMA MatchKeepsInv ==
    ASSUME NEW c, Account(c)!AccountsAssumption, AccountInv(c), NEW p \in c.request,
           Account(c)!MatchCode(p)
    PROVE  AccountInv(c)'
  <1>0. PICK r : r = requests[p].row.receiver
    OBVIOUS
  <1>1. PICK scores : scores = [m \in Account(c)!Live(r) \cup {Account(c)!Unused(r)} |->
                                  IF m \in Account(c)!Live(r) THEN tries[r][m] ELSE clock]
    OBVIOUS
  <1>2. Account(c)!Idle = IdleRequest
    BY DEF Account!Idle, IdleRequest
  <1>3. /\ requests[p].step = "match"
        /\ UNCHANGED <<clock, verifications, users, sessions, keys, poolKeys, unanswered, signedUp,
                       lostInserts, overfull, opened, queryFailures, issued, inserted, entered,
                       consumed, reused, aborts>>
    BY DEF Account!MatchCode, Account!accounts, Account!pool, Account!history
  <1>4. /\ r \in c.receiver /\ p \in DOMAIN requests /\ clock \in Nat
        /\ r \in DOMAIN tries /\ p \in Matching(c, r)
    BY <1>0, <1>3, VerifyingHolds DEF AccountInv, TriesAreBounded, Matching
  <1>5. \/ /\ tries' = [tries EXCEPT ![r] = scores]
           /\ requests' = [requests EXCEPT ![p] = IdleRequest]
        \/ /\ \E v \in Account(c)!Meant(requests[p]) :
                requests' = [requests EXCEPT ![p] = [step |-> "update", id |-> v.id]]
           /\ tries' = [tries EXCEPT ![r] = <<>>]
    BY <1>0, <1>1, <1>2, <1>4 DEF Account!MatchCode, Account!Reply
  <1>6. IsFiniteSet(Account(c)!Live(r)) /\ Cardinality(Account(c)!Live(r)) \in Nat
    BY <1>4, LiveIsFinite DEF AccountInv
  <1>7. CASE /\ tries' = [tries EXCEPT ![r] = scores]
             /\ requests' = [requests EXCEPT ![p] = IdleRequest]
    <2>1. /\ requests'[p] = IdleRequest /\ IdleRequest.step # "match"
          /\ \A x \in c.request : x # p => requests'[x] = requests[x]
      BY <1>4, <1>7 DEF IdleRequest
    <2>2. PICK u : u = Account(c)!Unused(r)
      OBVIOUS
    <2>3. DOMAIN scores = Account(c)!Live(r) \cup {u}
      BY <1>1, <2>2
    <2>4. /\ IsFiniteSet(Account(c)!Live(r) \cup {u})
          /\ Cardinality(Account(c)!Live(r) \cup {u}) <= Cardinality(Account(c)!Live(r)) + 1
      BY <1>6, FS_AddElement
    <2>5. \A m \in DOMAIN scores : scores[m] \in Nat
      BY <1>1, <1>4 DEF Account!Live, AccountInv, TriesAreBounded
    <2>6. PICK L : L = Account(c)!Live(r)'
      OBVIOUS
    <2>7. L \subseteq Account(c)!Live(r) \cup {u}
      BY <1>4, <1>7, <2>3, <2>6 DEF Account!Live
    <2>8. Cardinality(L) \in Nat /\ Cardinality(L) <= Cardinality(Account(c)!Live(r)) + 1
      BY <1>6, <2>4, <2>7, PartIsSmaller
    <2>9. PICK M : M = Matching(c, r)'
      OBVIOUS
    <2>10. M \subseteq Matching(c, r) \ {p}
      BY <2>1, <2>9 DEF Matching
    <2>11. /\ Cardinality(M) \in Nat /\ Cardinality(M) + 1 <= Cardinality(Matching(c, r))
           /\ Cardinality(Matching(c, r)) \in Nat /\ Cardinality(c.request) \in Nat
      <3>1. IsFiniteSet(Matching(c, r)) /\ Cardinality(Matching(c, r)) \in Nat
            /\ Cardinality(c.request) \in Nat
        BY MatchingIsFinite
      <3>2. /\ IsFiniteSet(Matching(c, r) \ {p})
            /\ Cardinality(Matching(c, r) \ {p}) = Cardinality(Matching(c, r)) - 1
        BY <1>4, <3>1, FS_RemoveElement
      <3>3. Cardinality(M) \in Nat /\ Cardinality(M) <= Cardinality(Matching(c, r) \ {p})
        BY <2>10, <3>2, PartIsSmaller
      <3> QED
        BY ONLY <3>1, <3>2, <3>3
    <2>12. Cardinality(Account(c)!Live(r)) + Cardinality(Matching(c, r))
             <= c.validateLimit - 1 + Cardinality(c.request)
      BY <1>4 DEF AccountInv, TriesAreBounded
    <2>13. c.validateLimit \in Nat
      BY AccountConstants
    <2>14. Cardinality(L) + Cardinality(M) <= c.validateLimit - 1 + Cardinality(c.request)
      BY ONLY <1>6, <2>8, <2>11, <2>12, <2>13
    <2>15. TriesAreBounded(c)'
      BY <1>0, <1>3, <1>4, <1>7, <2>1, <2>3, <2>4, <2>5, <2>6, <2>9, <2>14, OneReceiverTries
    <2> QED
      BY <1>3, <1>7, <2>15, ReplyKeepsInv
  <1>8. CASE /\ \E v \in Account(c)!Meant(requests[p]) :
                  requests' = [requests EXCEPT ![p] = [step |-> "update", id |-> v.id]]
             /\ tries' = [tries EXCEPT ![r] = <<>>]
    <2>1. PICK v \in Account(c)!Meant(requests[p]) :
            requests' = [requests EXCEPT ![p] = [step |-> "update", id |-> v.id]]
      BY <1>8
    <2>2. PICK new : new = [step |-> "update", id |-> v.id]
      OBVIOUS
    <2>3. new.step = "update" /\ new.id = v.id
      BY <2>2
    <2>4. ASSUME NEW sent \in [1..issued -> Sent(c)], RowsAreAsSent(sent),
                 RequestAsSent(requests[p], sent)
          PROVE  v.id \in 1..issued /\ RequestAsSent(new, sent)'
      <3>1. v.id \in 1..issued /\ Proved(sent[v.id])
        BY <1>3, <2>4, MeantIsProved
      <3> QED
        BY <1>3, <2>3, <3>1 DEF RequestAsSent, Proved
    <2>5. v.id \in 1..issued
      BY <2>4 DEF AccountInv, AsSent
    <2>6. new \in Updating(issued) /\ new \in Held(c, issued)
      BY <2>2, <2>5 DEF Updating, Held
    <2>7. requests'[p] = new /\ \A x \in c.request : x # p => requests'[x] = requests[x]
      BY <1>4, <2>1, <2>2
    <2>8. tries'[r] = <<>> /\ DOMAIN (<<>>) = {}
      BY <1>4, <1>8
    <2>9. Account(c)!Live(r)' = {}
      BY <2>8 DEF Account!Live
    <2>10. Cardinality(Account(c)!Live(r)') = 0
      BY <2>9, FS_EmptySet
    <2>11. Cardinality(Account(c)!Live(r)') + Cardinality(Matching(c, r)')
             <= c.validateLimit - 1 + Cardinality(c.request)
      <3>1. /\ Cardinality(Matching(c, r)') <= Cardinality(c.request)
            /\ Cardinality(Matching(c, r)') \in Nat
        BY FewMatch
      <3>2. c.validateLimit \in Nat \ {0} /\ Cardinality(c.request) \in Nat
        BY AccountConstants, MatchingIsFinite
      <3> QED
        BY ONLY <2>10, <3>1, <3>2
    <2>12. IsFiniteSet(DOMAIN (<<>>))
      BY <2>8, FS_EmptySet
    <2>13. TriesAreBounded(c)'
      BY <1>0, <1>3, <1>4, <1>8, <2>3, <2>7, <2>8, <2>11, <2>12, OneReceiverTries
    <2> QED
      BY <1>3, <2>1, <2>2, <2>3, <2>4, <2>6, <2>13, RequestAlone
  <1> QED
    BY <1>5, <1>7, <1>8

LEMMA UpdateKeepsInv ==
    ASSUME NEW c, Account(c)!AccountsAssumption, AccountInv(c), NEW p \in c.request,
           Account(c)!UpdateVerification(p)
    PROVE  AccountInv(c)'
  <1>0. PICK id : id = requests[p].id
    OBVIOUS
  <1>1. Account(c)!Idle = IdleRequest
    BY DEF Account!Idle, IdleRequest
  <1>2. /\ requests[p].step = "update" /\ requests' = [requests EXCEPT ![p] = IdleRequest]
        /\ UNCHANGED <<clock, users, sessions, keys, poolKeys, unanswered, signedUp, lostInserts,
                       overfull, opened, queryFailures, tries, issued, inserted, entered, consumed,
                       reused, aborts>>
    BY <1>1 DEF Account!UpdateVerification, Account!accounts, Account!pool, Account!history, Account!Reply
  <1>3. TriesAreBounded(c)'
    BY <1>2, ReplyKeepsTries
  <1>4. CASE verifications' = verifications
    BY <1>2, <1>3, <1>4, ReplyKeepsInv
  <1>5. CASE /\ id \in DOMAIN verifications
             /\ verifications' = [verifications EXCEPT ![id].verified = TRUE]
    <2>1. PICK row : row = [verifications[id] EXCEPT !.verified = TRUE]
      OBVIOUS
    <2>2. /\ DOMAIN verifications' = DOMAIN verifications /\ verifications'[id] = row
          /\ \A i \in DOMAIN verifications : i # id => verifications'[i] = verifications[i]
      BY <1>5, <2>1
    <2>3. verifications[id] \in VerificationRow(c)
      BY <1>5 DEF AccountInv, AccountTypes
    <2>4. row \in VerificationRow(c)
      BY <2>1, <2>3 DEF VerificationRow
    <2>5. IdleRequest \in Held(c, issued') /\ IdleRequest.step # "insert"
      BY DEF Held, IdleRequest
    <2>6. /\ requests' \in [c.request -> Held(c, issued')] /\ requests'[p] = IdleRequest
          /\ \A q \in c.request : q # p => requests'[q] = requests[q]
      BY <1>2, <2>5, OneRequestChanges DEF AccountInv
    <2>7. AccountTypes(c)'
      BY <1>2, <2>2, <2>4, <2>6 DEF AccountInv, AccountTypes
    <2>8. AsSent(c)'
      <3>1. PICK sent \in [1..issued -> Sent(c)] :
              /\ RowsAreAsSent(sent)
              /\ \A q \in c.request : RequestAsSent(requests[q], sent)
              /\ InsertsAreKept(c, sent)
        BY DEF AccountInv, AsSent
      <3>2. sent \in [1..issued' -> Sent(c)']
        BY <1>2 DEF Sent
      <3>3. verifications[id] \in RowOf(sent[id]) /\ Proved(sent[id])
        BY <1>0, <1>2, <1>5, <3>1 DEF RowsAreAsSent, RequestAsSent
      <3>4. row \in RowOf(sent[id])
        BY <2>1, <3>3 DEF RowOf
      <3>5. RowsAreAsSent(sent)'
        BY <1>2, <2>2, <3>1, <3>3, <3>4 DEF RowsAreAsSent, Proved
      <3>6. ASSUME NEW q \in c.request PROVE RequestAsSent(requests[q], sent)'
        <4>1. CASE q = p
          BY <2>6, <4>1, IdleAsSent DEF RequestAsSent
        <4>2. CASE q # p
          BY <1>2, <2>6, <3>1, <4>2 DEF RequestAsSent, Proved
        <4> QED
          BY <4>1, <4>2
      <3>7. InsertsAreKept(c, sent)'
        BY <1>2, <2>2, <3>1 DEF InsertsAreKept
      <3> QED
        BY <3>2, <3>5, <3>6, <3>7 DEF AsSent
    <2>9. IdsAreFresh(c)'
      BY <1>2, <2>2, <2>5, <2>6 DEF AccountInv, IdsAreFresh
    <2>10. OwnersAreOne(c)'
      BY <1>2, OwnersStay DEF AccountInv
    <2>11. Account(c)!CodesArePaced'
      BY <1>2, PacedStay DEF AccountInv
    <2> QED
      BY <1>3, <2>7, <2>8, <2>9, <2>10, <2>11 DEF AccountInv
  <1>6. \/ verifications' = verifications
        \/ /\ id \in DOMAIN verifications
           /\ verifications' = [verifications EXCEPT ![id].verified = TRUE]
    BY <1>0 DEF Account!UpdateVerification
  <1> QED
    BY <1>4, <1>5, <1>6

-----------------------------------------------------------------------------
(* CreateOrResetUser, CreateSession and the pool.                          *)

\* The requests, rows and tries are left alone.
LEMMA RowsStay ==
    ASSUME NEW c, Account(c)!AccountsAssumption, AccountInv(c), OwnersAreOne(c)',
           UNCHANGED <<clock, requests, verifications, tries, issued, inserted, entered, consumed,
                       reused, aborts>>
    PROVE  AccountInv(c)'
  <1>1. AccountTypes(c)'
    BY DEF AccountInv, AccountTypes
  <1>2. AsSent(c)'
    <2>1. PICK sent \in [1..issued -> Sent(c)] :
            /\ RowsAreAsSent(sent)
            /\ \A q \in c.request : RequestAsSent(requests[q], sent)
            /\ InsertsAreKept(c, sent)
      BY DEF AccountInv, AsSent
    <2>2. sent \in [1..issued' -> Sent(c)']
      BY DEF Sent
    <2>3. RowsAreAsSent(sent)'
      BY <2>1 DEF RowsAreAsSent, Proved
    <2>4. \A q \in c.request : RequestAsSent(requests[q], sent)'
      BY <2>1 DEF RequestAsSent, Proved
    <2>5. InsertsAreKept(c, sent)'
      BY <2>1 DEF InsertsAreKept
    <2> QED
      BY <2>2, <2>3, <2>4, <2>5 DEF AsSent
  <1>3. IdsAreFresh(c)'
    BY DEF AccountInv, IdsAreFresh
  <1>4. TriesAreBounded(c)'
    BY DEF AccountInv, TriesAreBounded, Matching, Account!Live
  <1>5. Account(c)!CodesArePaced'
    BY PacedStay DEF AccountInv
  <1> QED
    BY <1>1, <1>2, <1>3, <1>4, <1>5 DEF AccountInv

\* A verification is used.
LEMMA RowIsUsed ==
    ASSUME NEW c, Account(c)!AccountsAssumption, AccountInv(c), OwnersAreOne(c)',
           NEW id \in DOMAIN verifications, verifications' = Account(c)!Without(id),
           consumed' = consumed \cup {id}, reused' = reused \cup ({id} \cap consumed),
           UNCHANGED <<clock, requests, tries, issued, inserted, entered, aborts>>
    PROVE  AccountInv(c)'
  <1>1. /\ DOMAIN verifications' = DOMAIN verifications \ {id}
        /\ \A i \in DOMAIN verifications' : verifications'[i] = verifications[i]
    BY DEF Account!Without
  <1>2. AccountTypes(c)'
    BY <1>1 DEF AccountInv, AccountTypes
  <1>3. AsSent(c)'
    <2>1. PICK sent \in [1..issued -> Sent(c)] :
            /\ RowsAreAsSent(sent)
            /\ \A q \in c.request : RequestAsSent(requests[q], sent)
            /\ InsertsAreKept(c, sent)
      BY DEF AccountInv, AsSent
    <2>2. sent \in [1..issued' -> Sent(c)']
      BY DEF Sent
    <2>3. RowsAreAsSent(sent)'
      BY <1>1, <2>1 DEF RowsAreAsSent, Proved
    <2>4. \A q \in c.request : RequestAsSent(requests[q], sent)'
      BY <2>1 DEF RequestAsSent, Proved
    <2>5. InsertsAreKept(c, sent)'
      BY <1>1, <2>1 DEF InsertsAreKept
    <2> QED
      BY <2>2, <2>3, <2>4, <2>5 DEF AsSent
  <1>4. IdsAreFresh(c)'
    <2>1. ASSUME aborts = 0
          PROVE  /\ reused' = {} /\ consumed' \cap DOMAIN verifications' = {}
                 /\ \A p \in c.request : requests[p].step = "insert" =>
                      /\ requests[p].id \notin consumed' \cup DOMAIN verifications'
                      /\ \A q \in c.request : requests[q].step = "insert" /\ q # p =>
                           requests[q].id # requests[p].id
      BY <1>1, <2>1 DEF AccountInv, IdsAreFresh
    <2> QED
      BY <2>1 DEF IdsAreFresh
  <1>5. TriesAreBounded(c)'
    BY DEF AccountInv, TriesAreBounded, Matching, Account!Live
  <1>6. Account(c)!CodesArePaced'
    BY PacedStay DEF AccountInv
  <1> QED
    BY <1>2, <1>3, <1>4, <1>5, <1>6 DEF AccountInv

\* A session is opened for a user, with the password they have then; the sessions of
\* other users stay.
LEMMA SessionIsOpened ==
    ASSUME NEW c, OwnersAreOne(c), NEW u, u \in keys', DOMAIN users' = keys',
           keys \subseteq keys', keys' \cup poolKeys' \subseteq c.userId,
           \A v \in DOMAIN users' : users'[v] \in [receiver : c.receiver, password : c.password],
           \A v \in DOMAIN users : v # u => users'[v].password = users[v].password,
           Account(c)!OneOwner', unanswered' = unanswered, lostInserts' = lostInserts,
           opened' = opened + 1, queryFailures' \in Nat,
           queryFailures' >= queryFailures, overfull \subseteq overfull',
           NEW gone, gone \subseteq sessions,
           sessions' = (sessions \ gone) \cup
             {[user |-> u, id |-> opened + 1, password |-> users'[u].password]},
           \/ u \in overfull' \/ queryFailures' > 0 \/ \A s \in sessions \ gone : s.user # u
           \/ u \in DOMAIN users /\ users'[u].password = users[u].password
    PROVE  OwnersAreOne(c)'
  <1>1. PICK new : new = [user |-> u, id |-> opened + 1, password |-> users'[u].password]
    OBVIOUS
  <1>2. /\ new.user = u /\ new.id = opened + 1 /\ new.password = users'[u].password
        /\ sessions' = (sessions \ gone) \cup {new}
    BY <1>1
  <1>3. opened \in Nat /\ opened' \in Nat /\ 1..opened \subseteq 1..opened'
        /\ opened + 1 \in 1..opened' /\ queryFailures \in Nat
    BY DEF OwnersAreOne
  <1>4. \A s \in sessions' : s.user \in keys' /\ s.id \in 1..opened'
    BY <1>2, <1>3 DEF OwnersAreOne
  <1>5. IsFiniteSet(sessions')
    <2>1. IsFiniteSet(sessions \ gone)
      <3>1. sessions \ gone \subseteq sessions /\ IsFiniteSet(sessions)
        BY DEF OwnersAreOne
      <3> QED
        BY <3>1, FS_Subset
    <2>2. PICK T : T = (sessions \ gone) \cup {new}
      OBVIOUS
    <2>3. IsFiniteSet(T)
      BY <2>1, <2>2, FS_AddElement
    <2>4. sessions' = T
      BY <1>2, <2>2
    <2> QED
      BY <2>3, <2>4
  <1>6. ASSUME NEW s \in sessions', s.user \in DOMAIN users' \cap keys'
        PROVE  \/ s.password = users'[s.user].password \/ s.user \in overfull'
               \/ queryFailures' > 0
    <2>1. CASE s = new
      BY <1>2, <2>1
    <2>2. CASE s # new
      <3>1. s \in sessions \ gone /\ s.user \in DOMAIN users \cap keys
        BY <1>2, <2>2 DEF OwnersAreOne
      <3>2. s.password = users[s.user].password \/ s.user \in overfull \/ queryFailures > 0
        BY <3>1 DEF OwnersAreOne, Account!ResetEndsSessions, Account!Authenticated
      <3>3. queryFailures > 0 => queryFailures' > 0
        BY <1>3
      <3>4. CASE s.user # u
        BY <3>1, <3>2, <3>3, <3>4
      <3>5. CASE s.user = u
        BY <3>1, <3>2, <3>3, <3>5
      <3> QED
        BY <3>4, <3>5
    <2> QED
      BY <2>1, <2>2
  <1>7. Account(c)!ResetEndsSessions'
    BY <1>6 DEF Account!ResetEndsSessions, Account!Authenticated
  <1> QED
    BY <1>3, <1>4, <1>5, <1>7 DEF OwnersAreOne

\* The password of a user is reset.
LEMMA ResetKeepsOwners ==
    ASSUME NEW c, Account(c)!AccountsAssumption, OwnersAreOne(c), NEW u \in DOMAIN users,
           NEW password \in c.password,
           users' = [users EXCEPT ![u].password = password],
           overfull' = IF Account(c)!Cardinality(Account(c)!SessionsOf(u)) > c.cleanupLimit
                       THEN overfull \cup {u} ELSE overfull,
           Account(c)!Cleanup(u, password), opened' = opened + 1,
           UNCHANGED <<keys, poolKeys, signedUp, unanswered, lostInserts>>
    PROVE  OwnersAreOne(c)'
  <1>1. PICK gone \in Account(c)!Deleted(u) \cup {{}} :
          /\ \/ gone \in Account(c)!Deleted(u) /\ queryFailures' = queryFailures
             \/ gone = {} /\ queryFailures' = queryFailures + 1
          /\ sessions' = (sessions \ gone) \cup
               {[user |-> u, id |-> opened + 1, password |-> password]}
    BY DEF Account!Cleanup
  <1>2. /\ queryFailures \in Nat /\ queryFailures' \in Nat /\ queryFailures' >= queryFailures
        /\ queryFailures' = queryFailures + 1 => queryFailures' > 0
    BY <1>1 DEF OwnersAreOne
  <1>3. PICK mine : mine = Account(c)!SessionsOf(u)
    OBVIOUS
  <1>4. /\ mine \subseteq sessions /\ mine = {s \in sessions : s.user = u}
        /\ Account(c)!Cardinality(mine) \in Nat
    <2>1. mine \subseteq sessions /\ mine = {s \in sessions : s.user = u}
      BY <1>3 DEF Account!SessionsOf
    <2>2. IsFiniteSet(sessions)
      BY DEF OwnersAreOne
    <2>3. Cardinality(mine) \in Nat
      BY <2>1, <2>2, PartIsSmaller
    <2>4. Account(c)!Cardinality(mine) = Cardinality(mine)
      BY AccountLibrary
    <2> QED
      BY <2>1, <2>3, <2>4
  <1>5. gone \subseteq sessions
    BY <1>1, <1>3, <1>4 DEF Account!Deleted
  <1>6. u \in overfull' \/ queryFailures' > 0 \/ \A s \in sessions \ gone : s.user # u
    <2>1. CASE queryFailures' = queryFailures + 1
      BY <1>2, <2>1
    <2>2. CASE Account(c)!Cardinality(mine) > c.cleanupLimit
      BY <1>3, <2>2
    <2>3. CASE gone \in Account(c)!Deleted(u) /\ ~ (Account(c)!Cardinality(mine) > c.cleanupLimit)
      <3>1. Account(c)!Cardinality(mine) <= c.cleanupLimit
        BY <1>4, <2>3, AccountConstants
      <3>2. gone = mine
        BY <1>3, <2>3, <3>1 DEF Account!Deleted
      <3> QED
        BY <1>4, <3>2
    <2> QED
      BY <1>1, <2>1, <2>2, <2>3
  <1>7. PICK row : row = [users[u] EXCEPT !.password = password]
    OBVIOUS
  <1>8. /\ users[u] \in [receiver : c.receiver, password : c.password]
        /\ DOMAIN users = keys /\ keys \cup poolKeys \subseteq c.userId
    BY DEF OwnersAreOne
  <1>9. /\ row \in [receiver : c.receiver, password : c.password]
        /\ row.receiver = users[u].receiver /\ row.password = password
    BY <1>7, <1>8
  <1>10. /\ DOMAIN users' = DOMAIN users /\ users'[u] = row
         /\ \A v \in DOMAIN users : v # u => users'[v] = users[v]
         /\ \A v \in DOMAIN users : users'[v].receiver = users[v].receiver
    BY <1>7, <1>9
  <1>11. \A v \in DOMAIN users' : users'[v] \in [receiver : c.receiver, password : c.password]
    BY <1>9, <1>10 DEF OwnersAreOne
  <1>12. Account(c)!OneOwner'
    <2>1. {[user |-> v, receiver |-> users'[v].receiver] : v \in DOMAIN users'}
            = {[user |-> v, receiver |-> users[v].receiver] : v \in DOMAIN users}
      BY <1>10
    <2> QED
      BY <2>1 DEF OwnersAreOne, Account!OneOwner
  <1>13. /\ u \in keys' /\ DOMAIN users' = keys' /\ keys \subseteq keys'
         /\ keys' \cup poolKeys' \subseteq c.userId /\ overfull \subseteq overfull'
         /\ \A v \in DOMAIN users : v # u => users'[v].password = users[v].password
         /\ users'[u].password = password
    BY <1>8, <1>9, <1>10
  <1>14. sessions' = (sessions \ gone) \cup
           {[user |-> u, id |-> opened + 1, password |-> users'[u].password]}
    BY <1>1, <1>13
  <1> QED
    BY <1>2, <1>5, <1>6, <1>11, <1>12, <1>13, <1>14, SessionIsOpened

\* A user of the pool becomes the one of a receiver.
LEMMA SignUpKeepsOwners ==
    ASSUME NEW c, Account(c)!AccountsAssumption, OwnersAreOne(c), NEW u \in poolKeys,
           u \notin keys, NEW password \in c.password, NEW r \in c.receiver,
           Account(c)!UserOf(r) = {}, signedUp' = signedUp \cup {[user |-> u, receiver |-> r]},
           users' = [v \in DOMAIN users \cup {u} |->
                       IF v = u THEN [receiver |-> r, password |-> password] ELSE users[v]],
           keys' = keys \cup {u}, poolKeys' = poolKeys \ {u},
           sessions' = sessions \cup
             {[user |-> u, id |-> opened + 1, password |-> password]},
           opened' = opened + 1, UNCHANGED <<overfull, queryFailures, unanswered, lostInserts>>
    PROVE  OwnersAreOne(c)'
  <1>1. PICK row : row = [receiver |-> r, password |-> password]
    OBVIOUS
  <1>2. /\ row \in [receiver : c.receiver, password : c.password]
        /\ row.receiver = r /\ row.password = password
    BY <1>1
  <1>3. /\ u \notin keys /\ DOMAIN users = keys /\ keys \cup poolKeys \subseteq c.userId
        /\ queryFailures \in Nat
    BY DEF OwnersAreOne
  <1>4. /\ DOMAIN users' = DOMAIN users \cup {u} /\ users'[u] = row
        /\ \A v \in DOMAIN users : users'[v] = users[v]
    BY <1>1, <1>3
  <1>5. \A v \in DOMAIN users : users[v].receiver # r
    BY DEF Account!UserOf
  <1>6. Account(c)!OneOwner'
    <2>1. keys' \cap poolKeys' \subseteq lostInserts'
      BY DEF OwnersAreOne, Account!OneOwner
    <2>2. PICK new : new = [user |-> u, receiver |-> r]
      OBVIOUS
    <2>3. signedUp' = signedUp \cup {new} /\ new.user = u /\ new.receiver = r
      BY <2>2
    <2>4. signedUp = {[user |-> v, receiver |-> users[v].receiver] : v \in DOMAIN users}
      BY DEF OwnersAreOne, Account!OneOwner
    <2>5. signedUp' = {[user |-> v, receiver |-> users'[v].receiver] : v \in DOMAIN users'}
      <3>1. \A v \in DOMAIN users : users'[v].receiver = users[v].receiver
        BY <1>4
      <3>2. users'[u].receiver = r
        BY <1>2, <1>4
      <3>3. {[user |-> v, receiver |-> users'[v].receiver] : v \in DOMAIN users'}
              = {[user |-> v, receiver |-> users[v].receiver] : v \in DOMAIN users} \cup {new}
        BY <1>4, <2>2, <3>1, <3>2
      <3> QED
        BY <2>3, <2>4, <3>3
    <2>6. ASSUME NEW a \in signedUp', NEW b \in signedUp'
          PROVE  a.user = b.user <=> a.receiver = b.receiver
      <3>1. \A d \in signedUp : d.user # u /\ d.receiver # r
        BY <1>3, <1>5, <2>4
      <3>2. \A d, e \in signedUp : d.user = e.user <=> d.receiver = e.receiver
        BY DEF OwnersAreOne, Account!OneOwner
      <3> QED
        BY <2>3, <3>1, <3>2
    <2> QED
      BY <2>1, <2>5, <2>6 DEF Account!OneOwner
  <1>7. \A v \in DOMAIN users' : users'[v] \in [receiver : c.receiver, password : c.password]
    BY <1>2, <1>4 DEF OwnersAreOne
  <1>8. /\ u \in keys' /\ DOMAIN users' = keys' /\ keys \subseteq keys'
        /\ keys' \cup poolKeys' \subseteq c.userId /\ overfull \subseteq overfull'
        /\ \A v \in DOMAIN users : v # u => users'[v].password = users[v].password
        /\ users'[u].password = password
        /\ queryFailures' \in Nat /\ queryFailures' >= queryFailures
    BY <1>2, <1>3, <1>4
  <1>9. sessions' = (sessions \ {}) \cup
          {[user |-> u, id |-> opened + 1, password |-> users'[u].password]}
    BY <1>8
  <1>10. \A s \in sessions \ {} : s.user # u
    BY <1>3 DEF OwnersAreOne
  <1> QED
    BY <1>6, <1>7, <1>8, <1>9, <1>10, SessionIsOpened

LEMMA CreateOrResetKeepsInv ==
    ASSUME NEW c, Account(c)!AccountsAssumption, AccountInv(c), NEW id,
           NEW password \in c.password, Account(c)!CreateOrResetUser(id, password)
    PROVE  AccountInv(c)'
  <1>1. /\ id \in DOMAIN verifications /\ verifications' = Account(c)!Without(id)
        /\ consumed' = consumed \cup {id} /\ reused' = reused \cup ({id} \cap consumed)
        /\ opened' = opened + 1
        /\ UNCHANGED <<clock, requests, unanswered, lostInserts, tries, issued, inserted, entered,
                       aborts>>
    BY DEF Account!CreateOrResetUser
  <1>2. PICK r : r = verifications[id].receiver
    OBVIOUS
  <1>3. r \in c.receiver
    BY <1>1, <1>2 DEF AccountInv, AccountTypes, VerificationRow
  <1>4. CASE \E u \in Account(c)!UserOf(r) :
               /\ users' = [users EXCEPT ![u].password = password]
               /\ overfull' = IF Account(c)!Cardinality(Account(c)!SessionsOf(u)) > c.cleanupLimit
                              THEN overfull \cup {u} ELSE overfull
               /\ Account(c)!Cleanup(u, password)
               /\ UNCHANGED <<keys, poolKeys, signedUp>>
    <2>1. Account(c)!UserOf(r) \subseteq DOMAIN users
      BY DEF Account!UserOf
    <2>2. OwnersAreOne(c)'
      BY <1>1, <1>4, <2>1, ResetKeepsOwners DEF AccountInv
    <2> QED
      BY <1>1, <2>2, RowIsUsed
  <1>5. CASE /\ Account(c)!UserOf(r) = {}
             /\ \E u \in poolKeys :
                  /\ u \notin keys
                  /\ signedUp' = signedUp \cup {[user |-> u, receiver |-> r]}
                  /\ users' = [v \in DOMAIN users \cup {u} |->
                                 IF v = u THEN [receiver |-> r, password |-> password]
                                 ELSE users[v]]
                  /\ keys' = keys \cup {u} /\ poolKeys' = poolKeys \ {u}
                  /\ sessions' = sessions \cup
                       {[user |-> u, id |-> opened + 1, password |-> password]}
             /\ UNCHANGED <<overfull, queryFailures>>
    <2>1. OwnersAreOne(c)'
      BY <1>1, <1>3, <1>5, SignUpKeepsOwners DEF AccountInv
    <2> QED
      BY <1>1, <2>1, RowIsUsed
  <1> QED
    BY <1>2, <1>4, <1>5
    DEF Account!CreateOrResetUser, Account!KeyFree, Account!KeysWith, Account!RestOfPool

LEMMA CreateSessionKeepsInv ==
    ASSUME NEW c, Account(c)!AccountsAssumption, AccountInv(c), NEW r, NEW password,
           Account(c)!CreateSession(r, password)
    PROVE  AccountInv(c)'
  <1>1. PICK u \in Account(c)!UserOf(r) :
          /\ users[u].password = password
          /\ sessions' = sessions \cup
               {[user |-> u, id |-> opened + 1, password |-> password]}
          /\ opened' = opened + 1
          /\ UNCHANGED <<clock, requests, verifications, users, keys, poolKeys, unanswered,
                         lostInserts, signedUp, overfull, queryFailures, tries, issued, inserted,
                         entered, consumed, reused, aborts>>
    BY DEF Account!CreateSession, Account!pool, Account!history
  <1>2. u \in DOMAIN users
    BY DEF Account!UserOf
  <1>3. /\ DOMAIN users' = keys' /\ u \in keys' /\ keys \subseteq keys'
        /\ keys' \cup poolKeys' \subseteq c.userId
        /\ \A v \in DOMAIN users' : users'[v] \in [receiver : c.receiver, password : c.password]
        /\ \A v \in DOMAIN users : v # u => users'[v].password = users[v].password
        /\ queryFailures' \in Nat /\ queryFailures' >= queryFailures
        /\ users'[u].password = users[u].password
    BY <1>1, <1>2 DEF AccountInv, OwnersAreOne
  <1>4. Account(c)!OneOwner'
    BY <1>1 DEF AccountInv, OwnersAreOne, Account!OneOwner
  <1>0. PICK gone : gone = {}
    OBVIOUS
  <1>5. sessions' = (sessions \ gone) \cup
          {[user |-> u, id |-> opened + 1, password |-> users'[u].password]}
    BY <1>0, <1>1, <1>3
  <1>6. OwnersAreOne(c)'
    <2>1. /\ OwnersAreOne(c) /\ overfull \subseteq overfull' /\ gone \subseteq sessions
          /\ unanswered' = unanswered /\ lostInserts' = lostInserts
      BY <1>0, <1>1 DEF AccountInv
    <2>2. /\ opened' = opened + 1
          /\ u \in DOMAIN users /\ users'[u].password = users[u].password
      BY <1>1, <1>2
    <2> QED
      BY <1>3, <1>4, <1>5, <2>1, <2>2, SessionIsOpened
  <1> QED
    BY <1>1, <1>6, RowsStay

LEMMA PoolKeyKeepsInv ==
    ASSUME NEW c, Account(c)!AccountsAssumption, AccountInv(c), NEW u \in c.userId,
           Account(c)!PersistPoolKey(u)
    PROVE  AccountInv(c)'
  <1>1. /\ u \notin keys \/ u \in unanswered
        /\ poolKeys' = poolKeys \cup {u}
        /\ \/ unanswered' = unanswered \ {u} /\ lostInserts' = lostInserts
           \/ unanswered' = unanswered \cup {u} /\ lostInserts' = lostInserts \cup {u}
        /\ UNCHANGED <<clock, requests, verifications, users, sessions, keys, signedUp, overfull,
                       opened, queryFailures, tries, issued, inserted, entered, consumed, reused, aborts>>
    BY DEF Account!PersistPoolKey, Account!history
  <1>2. OwnersAreOne(c) /\ unanswered \subseteq lostInserts
    BY DEF AccountInv, OwnersAreOne
  <1>3. /\ keys' \cup poolKeys' \subseteq c.userId /\ unanswered' \subseteq lostInserts'
        /\ keys' \cap poolKeys' \subseteq lostInserts'
    BY <1>1, <1>2 DEF OwnersAreOne, Account!OneOwner
  <1>4. OwnersAreOne(c)'
    BY <1>1, <1>2, <1>3 DEF OwnersAreOne, Account!OneOwner, Account!ResetEndsSessions,
                            Account!Authenticated
  <1> QED
    BY <1>1, <1>4, RowsStay

-----------------------------------------------------------------------------
(* Together.                                                               *)

LEMMA AccountNextKeepsInv ==
    ASSUME NEW c, Account(c)!AccountsAssumption, AccountInv(c), Account(c)!Next
    PROVE  AccountInv(c)'
  <1>1. CASE Account(c)!Tick
    BY <1>1, AccountTickKeepsInv
  <1>2. CASE \E p \in c.request : \E r \in c.receiver, code \in c.code :
               Account(c)!BeginVerification(p, r, code)
    BY <1>2, BeginKeepsInv
  <1>3. CASE \E p \in c.request : \E id \in 1..c.maxVerifications, code \in c.code :
               Account(c)!FindVerification(p, id, code)
    BY <1>3, FindKeepsInv
  <1>4. CASE \E p \in c.request : Account(c)!InsertVerification(p)
    BY <1>4, InsertKeepsInv
  <1>5. CASE \E p \in c.request : Account(c)!CheckLimit(p)
    BY <1>5, CheckKeepsInv
  <1>6. CASE \E p \in c.request : Account(c)!MatchCode(p)
    BY <1>6, MatchKeepsInv
  <1>7. CASE \E p \in c.request : Account(c)!UpdateVerification(p)
    BY <1>7, UpdateKeepsInv
  <1>8. CASE \E id \in 1..c.maxVerifications, w \in c.password :
               Account(c)!CreateOrResetUser(id, w)
    BY <1>8, CreateOrResetKeepsInv
  <1>9. CASE \E r \in c.receiver, w \in c.password : Account(c)!CreateSession(r, w)
    BY <1>9, CreateSessionKeepsInv
  <1>10. CASE \E u \in c.userId : Account(c)!PersistPoolKey(u)
    BY <1>10, PoolKeyKeepsInv
  <1> QED
    BY <1>1, <1>2, <1>3, <1>4, <1>5, <1>6, <1>7, <1>8, <1>9, <1>10 DEF Account!Next

LEMMA AccountStutters ==
    ASSUME NEW c, Account(c)!AccountsAssumption, AccountInv(c), UNCHANGED accountVars
    PROVE  AccountInv(c)'
  <1>1. UNCHANGED <<clock, requests, verifications, users, sessions, keys, poolKeys, unanswered,
                    tries, issued, inserted, entered, consumed, reused, signedUp, lostInserts,
                    overfull, opened, aborts, queryFailures>>
    BY DEF accountVars
  <1>2. OwnersAreOne(c)'
    BY <1>1, OwnersStay DEF AccountInv
  <1> QED
    BY <1>1, <1>2, RowsStay

LEMMA AccountStarts ==
    ASSUME NEW c, Account(c)!AccountsAssumption, Account(c)!Init PROVE AccountInv(c)
  <1>1. /\ clock = 1 /\ issued = 0 /\ aborts = 0 /\ opened = 0 /\ queryFailures = 0
        /\ requests = [p \in c.request |-> IdleRequest]
        /\ DOMAIN verifications = {} /\ DOMAIN users = {} /\ sessions = {} /\ keys = {}
        /\ poolKeys = {} /\ unanswered = {} /\ signedUp = {} /\ tries = [r \in c.receiver |-> <<>>]
        /\ inserted = <<>> /\ consumed = {} /\ reused = {}
    <2>1. Account(c)!Idle = IdleRequest
      BY DEF Account!Idle, IdleRequest
    <2> QED
      BY <2>1 DEF Account!Init
  <1>2. IdleRequest \in Held(c, 0) /\ IdleRequest.step = "idle"
    BY DEF Held, IdleRequest
  <1>3. AccountTypes(c)
    BY <1>1, <1>2, AccountConstants DEF AccountTypes
  <1>4. AsSent(c)
    <2>1. PICK sent : sent = [i \in 1..0 |-> [receiver |-> 0]]
      OBVIOUS
    <2>2. sent \in [1..issued -> Sent(c)]
      BY <1>1, <2>1
    <2>3. RowsAreAsSent(sent)
      BY <1>1 DEF RowsAreAsSent
    <2>4. \A p \in c.request : RequestAsSent(requests[p], sent)
      BY <1>1, <1>2 DEF RequestAsSent
    <2>5. InsertsAreKept(c, sent)
      BY <1>1 DEF InsertsAreKept
    <2> QED
      BY <2>2, <2>3, <2>4, <2>5 DEF AsSent
  <1>5. IdsAreFresh(c)
    BY <1>1, <1>2 DEF IdsAreFresh
  <1>6. TriesAreBounded(c)
    <2>1. ASSUME NEW r \in c.receiver
          PROVE  /\ IsFiniteSet(DOMAIN tries[r]) /\ \A m \in DOMAIN tries[r] : tries[r][m] \in Nat
                 /\ Cardinality(Account(c)!Live(r)) + Cardinality(Matching(c, r))
                      <= c.validateLimit - 1 + Cardinality(c.request)
      <3>1. tries[r] = <<>> /\ DOMAIN tries[r] = {}
        BY <1>1
      <3>2. Account(c)!Live(r) = {}
        BY <3>1 DEF Account!Live
      <3>3. Matching(c, r) = {}
        BY <1>1, <1>2 DEF Matching
      <3>4. c.validateLimit \in Nat \ {0} /\ Cardinality(c.request) \in Nat
        BY AccountConstants, MatchingIsFinite
      <3>5. Cardinality({}) = 0 /\ IsFiniteSet({})
        BY FS_EmptySet
      <3> QED
        BY <3>1, <3>2, <3>3, <3>4, <3>5
    <2> QED
      BY <1>1, <2>1 DEF TriesAreBounded
  <1>7. OwnersAreOne(c)
    <2>1. IsFiniteSet(sessions)
      BY <1>1, FS_EmptySet
    <2> QED
      BY <1>1, <2>1 DEF OwnersAreOne, Account!OneOwner, Account!ResetEndsSessions
  <1>8. Account(c)!CodesArePaced
    BY <1>1 DEF Account!CodesArePaced
  <1> QED
    BY <1>3, <1>4, <1>5, <1>6, <1>7, <1>8 DEF AccountInv

LEMMA AccountIsThenGuarded ==
    ASSUME NEW c, Account(c)!AccountsAssumption, AccountInv(c) PROVE Guarded(c)
  <1>1. Account(c)!TypeOK
    <2>1. \A i \in DOMAIN verifications : verifications[i] \in Account(c)!Row
      BY DEF AccountInv, AccountTypes, VerificationRow, Account!Row
    <2> QED
      BY <2>1 DEF AccountInv, AccountTypes, OwnersAreOne, Account!TypeOK
  <1>2. Account(c)!VerifiedByItsCode
    <2>1. PICK sent : RowsAreAsSent(sent)
      BY DEF AccountInv, AsSent
    <2> QED
      BY <2>1 DEF RowsAreAsSent, RowOf, Proved, Account!VerifiedByItsCode
  <1>3. Account(c)!GuessesAreBounded
    <2>1. ASSUME NEW r \in c.receiver
          PROVE  Account(c)!Cardinality(Account(c)!Live(r))
                   <= c.validateLimit + Account(c)!Cardinality(c.request) - 1
      <3>1. Cardinality(Account(c)!Live(r)) + Cardinality(Matching(c, r))
              <= c.validateLimit - 1 + Cardinality(c.request)
        BY DEF AccountInv, TriesAreBounded
      <3>2. /\ Cardinality(Account(c)!Live(r)) \in Nat /\ Cardinality(Matching(c, r)) \in Nat
            /\ Cardinality(c.request) \in Nat /\ c.validateLimit \in Nat
        BY LiveIsFinite, MatchingIsFinite, AccountConstants DEF AccountInv
      <3>3. Cardinality(Account(c)!Live(r)) <= c.validateLimit + Cardinality(c.request) - 1
        BY ONLY <3>1, <3>2
      <3>4. /\ Account(c)!Cardinality(Account(c)!Live(r)) = Cardinality(Account(c)!Live(r))
            /\ Account(c)!Cardinality(c.request) = Cardinality(c.request)
        BY AccountLibrary
      <3> QED
        BY <3>3, <3>4
    <2> QED
      BY <2>1 DEF Account!GuessesAreBounded
  <1>4. Account(c)!ReuseNeedsAbort
    BY DEF AccountInv, AccountTypes, IdsAreFresh, Account!ReuseNeedsAbort
  <1>5. Account(c)!CodesArePaced /\ Account(c)!OneOwner /\ Account(c)!ResetEndsSessions
    BY DEF AccountInv, OwnersAreOne
  <1> QED
    BY <1>1, <1>2, <1>3, <1>4, <1>5 DEF Guarded

LEMMA AccountsStepKeepsInv ==
    ASSUME AccountsInv, [ExampleNext]_exampleVars PROVE AccountsInv'
  <1>1. part' = part
    BY DEF ExampleNext, exampleVars, CandleStep, CopyStep, TradeStep, AccountStep, LimiterStep,
           PoolStep
  <1>2. \/ part = "codes" /\ Account(CodesCase)!Next
        \/ part = "users" /\ Account(UsersCase)!Next
        \/ UNCHANGED accountVars
    BY DEF ExampleNext, exampleVars, CandleStep, CopyStep, TradeStep, AccountStep, LimiterStep,
           PoolStep
  <1>3. CASE part = "users"
    <2>1. AccountInv(UsersCase)
      BY <1>3 DEF AccountsInv
    <2>2. AccountInv(UsersCase)'
      BY <1>2, <1>3, <2>1, AccountsAssumption, AccountNextKeepsInv, AccountStutters
    <2> QED
      BY <1>1, <1>3, <2>2 DEF AccountsInv
  <1>4. CASE part # "users"
    <2>1. AccountInv(CodesCase)
      BY <1>4 DEF AccountsInv
    <2>2. AccountInv(CodesCase)'
      BY <1>2, <1>4, <2>1, AccountsAssumption, AccountNextKeepsInv, AccountStutters
    <2> QED
      BY <1>1, <1>4, <2>2 DEF AccountsInv
  <1> QED
    BY <1>3, <1>4

\* Whatever requests run at one time, abort or fail: rows stay as they were sent wherever
\* they are held, the tries of a receiver count the requests that have passed the check,
\* and users, keys, the pool and the sessions belong together.
THEOREM AccountsInvariance == ExampleSpec => []AccountsInv
  <1>1. ExampleInit => AccountsInv
    BY AccountsAssumption, AccountStarts DEF ExampleInit, AccountsInv
  <1>2. ASSUME AccountsInv, [ExampleNext]_exampleVars PROVE AccountsInv'
    BY <1>2, AccountsStepKeepsInv
  <1> QED
    BY <1>1, <1>2, PTL DEF ExampleSpec

\* For any requests, receivers, limits and intervals a verification needs its code,
\* guesses and codes are bounded, a verification is used twice only after an abort, a
\* receiver has one user and a key one owner, and a reset of the password ends the
\* sessions (verification.go, user.go, session.go and key.go in example/models).
THEOREM AccountsAreSafe == ExampleSpec => []AccountsAreGuarded
  <1>1. AccountsInv => AccountsAreGuarded
    <2>1. ASSUME AccountsInv, part = "codes" PROVE Guarded(CodesCase)
      <3>1. AccountInv(CodesCase)
        BY <2>1 DEF AccountsInv
      <3> QED
        BY <3>1, AccountsAssumption, AccountIsThenGuarded
    <2>2. ASSUME AccountsInv, part = "users" PROVE Guarded(UsersCase)
      <3>1. AccountInv(UsersCase)
        BY <2>2 DEF AccountsInv
      <3> QED
        BY <3>1, AccountsAssumption, AccountIsThenGuarded
    <2> QED
      BY <2>1, <2>2 DEF AccountsAreGuarded
  <1> QED
    BY <1>1, AccountsInvariance, PTL

-----------------------------------------------------------------------------
(* PoolKeys.                                                               *)

LEMMA PoolConstants ==
    {MaxUsers, MaxDeaths, MaxCallFailures, MaxLostAnswers} \subseteq Nat
  BY PoolAssumption DEF Pool!PoolKeysAssumption

IdleJob == [step |-> "idle", user |-> 0, tries |-> 1, pin |-> 0, ocean |-> 0]

LEMMA IdleIs == ASSUME NEW strict PROVE Pool(strict)!Idle = IdleJob
  BY DEF Pool!Idle, IdleJob

\* The job of kind k has these fields afterwards, and the other the ones it had.
JobBecomes(k, step, user, tries_, pin, ocean) ==
    job' = [job EXCEPT ![k] = [step |-> step, user |-> user, tries |-> tries_, pin |-> pin,
                               ocean |-> ocean]]
JobBecame(k, step, user, tries_, pin, ocean) ==
    /\ job' \in [{"pool", "broker"} -> JobRecord]
    /\ job'[k].step = step /\ job'[k].user = user /\ job'[k].pin = pin /\ job'[k].ocean = ocean
    /\ step = "idle" /\ user = 0 /\ tries_ = 1 /\ pin = 0 /\ ocean = 0 => job'[k] = IdleJob
    /\ k = "pool" => job'["broker"] = job["broker"]
    /\ k = "broker" => job'["pool"] = job["pool"]

LEMMA JobTypes ==
    ASSUME PoolInv, NEW k \in {"pool", "broker"}
    PROVE  /\ job[k] \in JobRecord
           /\ job[k].step \in {"idle", "pin", "ocean", "persist"}
           /\ job[k].user \in Nat /\ job[k].tries \in Nat \ {0}
           /\ job[k].pin \in Nat /\ job[k].ocean \in Nat
  BY DEF PoolInv, PoolTypes, JobRecord

LEMMA JobBecomesOK ==
    ASSUME PoolInv, NEW k \in {"pool", "broker"},
           NEW step \in {"idle", "pin", "ocean", "persist"}, NEW user \in Nat,
           NEW tries_ \in Nat \ {0}, NEW pin \in Nat, NEW ocean \in Nat,
           JobBecomes(k, step, user, tries_, pin, ocean)
    PROVE  JobBecame(k, step, user, tries_, pin, ocean)
  <1>1. PICK new : new = [step |-> step, user |-> user, tries |-> tries_, pin |-> pin,
                          ocean |-> ocean]
    OBVIOUS
  <1>2. new \in JobRecord
    BY <1>1 DEF JobRecord
  <1>3. job' = [job EXCEPT ![k] = new] /\ job \in [{"pool", "broker"} -> JobRecord]
    BY <1>1 DEF JobBecomes, PoolInv, PoolTypes
  <1>4. job' \in [{"pool", "broker"} -> JobRecord] /\ job'[k] = new
        /\ \A m \in {"pool", "broker"} : m # k => job'[m] = job[m]
    BY <1>2, <1>3
  <1>5. step = "idle" /\ user = 0 /\ tries_ = 1 /\ pin = 0 /\ ocean = 0 => new = IdleJob
    BY <1>1 DEF IdleJob
  <1>6. new.step = step /\ new.user = user /\ new.pin = pin /\ new.ocean = ocean
    BY <1>1
  <1> QED
    BY <1>4, <1>5, <1>6 DEF JobBecame

LEMMA JobIdle ==
    ASSUME PoolInv, NEW k \in {"pool", "broker"}, job' = [job EXCEPT ![k] = IdleJob]
    PROVE  JobBecame(k, "idle", 0, 1, 0, 0)
  <1>1. JobBecomes(k, "idle", 0, 1, 0, 0)
    BY DEF JobBecomes, IdleJob
  <1> QED
    BY <1>1, JobBecomesOK

\* The records the steps of a job make.
LEMMA JobCreates ==
    ASSUME NEW j \in JobRecord, NEW user
    PROVE  [j EXCEPT !.step = "pin", !.user = user]
             = [step |-> "pin", user |-> user, tries |-> j.tries,
                pin |-> j.pin, ocean |-> j.ocean]
  <1>1. PICK n : n = [j EXCEPT !.step = "pin", !.user = user]
    OBVIOUS
  <1>2. n \in [step : {"pin"}, user : {user}, tries : {j.tries},
              pin : {j.pin}, ocean : {j.ocean}]
    BY <1>1 DEF JobRecord
  <1>3. n = [step |-> "pin", user |-> user, tries |-> j.tries,
             pin |-> j.pin, ocean |-> j.ocean]
    BY <1>2
  <1> QED
    BY <1>1, <1>3

LEMMA JobTries ==
    ASSUME NEW j \in JobRecord
    PROVE  [j EXCEPT !.tries = @ + 1]
             = [step |-> j.step, user |-> j.user, tries |-> j.tries + 1,
                pin |-> j.pin, ocean |-> j.ocean]
  <1>1. PICK n : n = [j EXCEPT !.tries = @ + 1]
    OBVIOUS
  <1>2. n \in [step : {j.step}, user : {j.user}, tries : {j.tries + 1},
              pin : {j.pin}, ocean : {j.ocean}]
    BY <1>1 DEF JobRecord
  <1>3. n = [step |-> j.step, user |-> j.user, tries |-> j.tries + 1,
             pin |-> j.pin, ocean |-> j.ocean]
    BY <1>2
  <1> QED
    BY <1>1, <1>3

LEMMA JobPins ==
    ASSUME NEW j \in JobRecord, NEW step, NEW pin
    PROVE  [j EXCEPT !.step = step, !.tries = 1, !.pin = pin]
             = [step |-> step, user |-> j.user, tries |-> 1,
                pin |-> pin, ocean |-> j.ocean]
  <1>1. PICK n : n = [j EXCEPT !.step = step, !.tries = 1, !.pin = pin]
    OBVIOUS
  <1>2. n \in [step : {step}, user : {j.user}, tries : {1},
              pin : {pin}, ocean : {j.ocean}]
    BY <1>1 DEF JobRecord
  <1>3. n = [step |-> step, user |-> j.user, tries |-> 1,
             pin |-> pin, ocean |-> j.ocean]
    BY <1>2
  <1> QED
    BY <1>1, <1>3

LEMMA JobKeys ==
    ASSUME NEW j \in JobRecord, NEW ocean
    PROVE  [j EXCEPT !.step = "persist", !.tries = 1, !.ocean = ocean]
             = [step |-> "persist", user |-> j.user, tries |-> 1,
                pin |-> j.pin, ocean |-> ocean]
  <1>1. PICK n : n = [j EXCEPT !.step = "persist", !.tries = 1, !.ocean = ocean]
    OBVIOUS
  <1>2. n \in [step : {"persist"}, user : {j.user}, tries : {1},
              pin : {j.pin}, ocean : {ocean}]
    BY <1>1 DEF JobRecord
  <1>3. n = [step |-> "persist", user |-> j.user, tries |-> 1,
             pin |-> j.pin, ocean |-> ocean]
    BY <1>2
  <1> QED
    BY <1>1, <1>3

-----------------------------------------------------------------------------
(* What a step leaves true.                                                *)

LEMMA UserOfJob ==
    ASSUME PoolInv, NEW k \in {"pool", "broker"}, job[k].step # "idle"
    PROVE  /\ job[k].user \in 1..created /\ job[k].user \in 1..MaxUsers
           /\ job[k].user # 0 /\ job[k].user <= created /\ created \in Nat
  BY PoolConstants DEF PoolInv, PoolTypes, PoolJobs

\* A job that ends in an error.
LEMMA JobIdles ==
    ASSUME PoolInv, NEW k \in {"pool", "broker"}, job' = [job EXCEPT ![k] = IdleJob],
           UNCHANGED <<created, netPin, registered, pooled, owners, brokers>>,
           lostAnswers \subseteq lostAnswers'
    PROVE  PoolInv'
  <1>1. JobBecame(k, "idle", 0, 1, 0, 0)
    BY JobIdle
  <1>2. PoolTypes'
    BY <1>1 DEF PoolInv, PoolTypes, JobBecame
  <1>3. PoolRows'
    BY DEF PoolInv, PoolRows
  <1>4. PoolJobs'
    <2>1. ASSUME NEW m \in {"pool", "broker"}
          PROVE  /\ job'[m].step = "idle" => job'[m] = IdleJob
                 /\ job'[m].step # "idle" => job'[m].user \in 1..created
                 /\ job'[m].step # "idle" => job'[m].user \notin DOMAIN brokers
      BY <1>1, IdleIs DEF PoolInv, PoolJobs, JobBecame
    <2>4. job["broker"].step # "idle" => job["broker"].user # 0
      BY UserOfJob
    <2>2. CASE k = "pool"
      BY <1>1, <2>1, <2>2, <2>4, IdleIs DEF PoolInv, PoolJobs, JobBecame
    <2>3. CASE k = "broker"
      BY <1>1, <2>1, <2>3, IdleIs DEF PoolInv, PoolJobs, JobBecame
    <2> QED
      BY <2>2, <2>3
  <1>5. JobsMatchNetwork'
    <2>1. CASE k = "pool"
      BY <1>1, <2>1 DEF PoolInv, JobsMatchNetwork, JobBecame
    <2>2. CASE k = "broker"
      BY <1>1, <2>2 DEF PoolInv, JobsMatchNetwork, JobBecame
    <2> QED
      BY <2>1, <2>2
  <1>6. Pool(TRUE)!StoredPinOpens' /\ Pool(TRUE)!OceanKeyNeedsReply' /\ Pool(TRUE)!PoolIsUnused'
    BY DEF PoolInv, Pool!StoredPinOpens, Pool!OceanKeyNeedsReply, Pool!PoolIsUnused
  <1> QED
    BY <1>2, <1>3, <1>4, <1>5, <1>6 DEF PoolInv

\* A job that tries again.
LEMMA PoolTries ==
    ASSUME PoolInv, job' = [job EXCEPT !["pool"].tries = @ + 1]
    PROVE  /\ job'["pool"].step = job["pool"].step /\ job'["pool"].user = job["pool"].user
           /\ job'["pool"].pin = job["pool"].pin /\ job'["pool"].ocean = job["pool"].ocean
           /\ job'["broker"] = job["broker"] /\ job' \in [{"pool", "broker"} -> JobRecord]
  <1>1. PICK j \in JobRecord : j = job["pool"]
    BY JobTypes
  <1>2. JobBecame("pool", j.step, j.user, j.tries + 1, j.pin, j.ocean)
    <2>1. [j EXCEPT !.tries = @ + 1]
            = [step |-> j.step, user |-> j.user, tries |-> j.tries + 1, pin |-> j.pin,
               ocean |-> j.ocean]
      BY JobTries
    <2>2. job' = [job EXCEPT !["pool"] = [j EXCEPT !.tries = @ + 1]]
      BY <1>1 DEF PoolInv, PoolTypes
    <2>3. JobBecomes("pool", j.step, j.user, j.tries + 1, j.pin, j.ocean)
      BY <2>1, <2>2 DEF JobBecomes
    <2>4. /\ j.step \in {"idle", "pin", "ocean", "persist"} /\ j.user \in Nat
          /\ j.tries + 1 \in Nat \ {0} /\ j.pin \in Nat /\ j.ocean \in Nat
      BY <1>1, JobTypes
    <2> QED
      BY <2>3, <2>4, JobBecomesOK
  <1> QED
    BY <1>1, <1>2 DEF JobBecame

LEMMA JobTriesAgain ==
    ASSUME PoolInv, job' = [job EXCEPT !["pool"].tries = @ + 1],
           UNCHANGED <<created, netPin, registered, pooled, owners, brokers>>,
           lostAnswers \subseteq lostAnswers', job["pool"].step # "idle"
    PROVE  PoolInv'
  <1>3. /\ job'["pool"].step = job["pool"].step /\ job'["pool"].user = job["pool"].user
        /\ job'["pool"].pin = job["pool"].pin /\ job'["pool"].ocean = job["pool"].ocean
        /\ job'["broker"] = job["broker"] /\ job' \in [{"pool", "broker"} -> JobRecord]
    BY PoolTries
  <1>4. PoolTypes'
    BY <1>3 DEF PoolInv, PoolTypes
  <1>5. PoolRows'
    BY DEF PoolInv, PoolRows
  <1>6. PoolJobs'
    BY <1>3, IdleIs DEF PoolInv, PoolJobs
  <1>7. JobsMatchNetwork'
    BY <1>3 DEF PoolInv, JobsMatchNetwork
  <1>8. Pool(TRUE)!StoredPinOpens' /\ Pool(TRUE)!OceanKeyNeedsReply' /\ Pool(TRUE)!PoolIsUnused'
    BY DEF PoolInv, Pool!StoredPinOpens, Pool!OceanKeyNeedsReply, Pool!PoolIsUnused
  <1> QED
    BY <1>4, <1>5, <1>6, <1>7, <1>8 DEF PoolInv

\* Nothing but the number of users of the network and the lost answers grows.
LEMMA NetworkGrows ==
    ASSUME PoolInv, UNCHANGED <<job, netPin, registered, pooled, owners, brokers>>,
           created' \in {created, created + 1}, created' <= MaxUsers,
           lostAnswers \subseteq lostAnswers'
    PROVE  PoolInv'
  <1>1. created \in Nat /\ created' \in 0..MaxUsers /\ 1..created \subseteq 1..created'
        /\ \A u \in 1..MaxUsers : u > created' => u > created
    BY PoolConstants DEF PoolInv, PoolTypes
  <1>2. PoolTypes'
    BY <1>1 DEF PoolInv, PoolTypes
  <1>3. PoolRows'
    BY <1>1 DEF PoolInv, PoolRows
  <1>4. PoolJobs'
    BY <1>1, IdleIs DEF PoolInv, PoolJobs
  <1>5. JobsMatchNetwork'
    BY DEF PoolInv, JobsMatchNetwork
  <1>6. Pool(TRUE)!StoredPinOpens' /\ Pool(TRUE)!OceanKeyNeedsReply' /\ Pool(TRUE)!PoolIsUnused'
    BY DEF PoolInv, Pool!StoredPinOpens, Pool!OceanKeyNeedsReply, Pool!PoolIsUnused
  <1> QED
    BY <1>2, <1>3, <1>4, <1>5, <1>6 DEF PoolInv

-----------------------------------------------------------------------------
(* The steps of the jobs.                                                  *)

LEMMA CreateUserKeepsInv ==
    ASSUME PoolInv, NEW strict \in BOOLEAN, NEW k \in {"pool", "broker"},
           Pool(strict)!CreateUser(k)
    PROVE  PoolInv'
  <1>1. /\ job[k].step = "idle" /\ created < MaxUsers
        /\ UNCHANGED <<netPin, registered, pooled, owners, brokers>>
    BY DEF Pool!CreateUser, Pool!tables
  <1>2. \/ /\ created' = created + 1 /\ lostAnswers' = lostAnswers
           /\ job' = [job EXCEPT ![k].step = "pin", ![k].user = created + 1]
        \/ created' \in {created, created + 1} /\ lostAnswers \subseteq lostAnswers' /\ job' = job
    BY DEF Pool!CreateUser, Pool!Call, Pool!NewUser
  <1>3. created \in 0..MaxUsers /\ created \in Nat /\ MaxUsers \in Nat
        /\ created + 1 \in 1..MaxUsers
    BY <1>1, PoolConstants DEF PoolInv, PoolTypes
  <1>4. CASE created' \in {created, created + 1} /\ lostAnswers \subseteq lostAnswers' /\ job' = job
    BY <1>1, <1>3, <1>4, NetworkGrows
  <1>5. CASE /\ created' = created + 1 /\ lostAnswers' = lostAnswers
             /\ job' = [job EXCEPT ![k].step = "pin", ![k].user = created + 1]
    <2>1. job[k] = IdleJob
      BY <1>1, IdleIs DEF PoolInv, PoolJobs
    <2>2. JobBecame(k, "pin", created + 1, 1, 0, 0)
      <3>1. PICK j \in JobRecord : j = job[k]
        BY JobTypes
      <3>2. [j EXCEPT !.step = "pin", !.user = created + 1]
              = [step |-> "pin", user |-> created + 1, tries |-> j.tries, pin |-> j.pin,
                 ocean |-> j.ocean]
        BY <1>3, JobCreates
      <3>3. job' = [job EXCEPT ![k] = [j EXCEPT !.step = "pin", !.user = created + 1]]
        BY <1>5, <3>1 DEF PoolInv, PoolTypes
      <3>4. j.tries = 1 /\ j.pin = 0 /\ j.ocean = 0
        BY <2>1, <3>1 DEF IdleJob
      <3>5. JobBecomes(k, "pin", created + 1, 1, 0, 0)
        BY ONLY <3>2, <3>3, <3>4 DEF JobBecomes
      <3> QED
        BY <1>3, <3>5, JobBecomesOK
    <2>3. /\ job'[k].step = "pin" /\ job'[k].user = created + 1
          /\ job' \in [{"pool", "broker"} -> JobRecord]
          /\ k = "pool" => job'["broker"] = job["broker"]
          /\ k = "broker" => job'["pool"] = job["pool"]
      BY <2>2 DEF JobBecame
    <2>4. 1..created \subseteq 1..created' /\ created + 1 \in 1..created'
          /\ created + 1 \notin 1..created /\ created' \in 0..MaxUsers
          /\ \A u \in 1..MaxUsers : u > created' => u > created
      BY <1>3, <1>5
    <2>5. PoolTypes'
      BY <1>1, <2>3, <2>4 DEF PoolInv, PoolTypes
    <2>6. PoolRows'
      BY <1>1, <2>4 DEF PoolInv, PoolRows
    <2>7. /\ created + 1 \notin DOMAIN brokers /\ created + 1 \notin owners \cup DOMAIN pooled
          /\ netPin[created + 1] = 0 /\ registered[created + 1] = 0
          /\ \A m \in {"pool", "broker"} : job[m].user # created + 1
      <3>1. created + 1 \notin DOMAIN brokers /\ created + 1 \notin owners \cup DOMAIN pooled
        BY <2>4 DEF PoolInv, PoolRows
      <3>2. netPin[created + 1] = 0 /\ registered[created + 1] = 0
        BY <1>3 DEF PoolInv, PoolTypes
      <3>3. ASSUME NEW m \in {"pool", "broker"} PROVE job[m].user # created + 1
        <4>1. CASE job[m].step = "idle"
          <5>0. job[m] = IdleJob
            BY <4>1, IdleIs DEF PoolInv, PoolJobs
          <5>1. job[m].user = 0
            BY <5>0 DEF IdleJob
          <5> QED
            BY <1>3, <5>1
        <4>2. CASE job[m].step # "idle"
          BY <2>4, <4>2, UserOfJob
        <4> QED
          BY <4>1, <4>2
      <3> QED
        BY <3>1, <3>2, <3>3
    <2>8. ASSUME NEW m \in {"pool", "broker"}
          PROVE  /\ job'[m].step = "idle" => job'[m] = IdleJob
                 /\ job'[m].step # "idle" => job'[m].user \in 1..created'
                 /\ job'[m].step # "idle" => job'[m].user \notin DOMAIN brokers
      <3>1. CASE m = k
        BY <2>3, <2>4, <2>7, <3>1
      <3>2. CASE m # k
        BY <2>3, <2>4, <3>2, IdleIs DEF PoolInv, PoolJobs
      <3> QED
        BY <3>1, <3>2
    <2>9. PoolJobs'
      <3>1. CASE k = "pool"
        BY <1>1, <1>5, <2>3, <2>7, <2>8, <3>1, IdleIs DEF PoolInv, PoolJobs
      <3>2. CASE k = "broker"
        BY <1>1, <1>5, <2>3, <2>7, <2>8, <3>2, IdleIs DEF PoolInv, PoolJobs
      <3> QED
        BY <3>1, <3>2
    <2>10. JobsMatchNetwork'
      <3>1. CASE k = "pool"
        BY <1>1, <1>5, <2>3, <2>7, <3>1 DEF PoolInv, JobsMatchNetwork
      <3>2. CASE k = "broker"
        BY <1>1, <1>5, <2>3, <2>7, <3>2 DEF PoolInv, JobsMatchNetwork
      <3> QED
        BY <3>1, <3>2
    <2>11. Pool(TRUE)!StoredPinOpens' /\ Pool(TRUE)!OceanKeyNeedsReply' /\ Pool(TRUE)!PoolIsUnused'
      BY <1>1, <1>5 DEF PoolInv, Pool!StoredPinOpens, Pool!OceanKeyNeedsReply, Pool!PoolIsUnused
    <2> QED
      BY <2>5, <2>6, <2>9, <2>10, <2>11 DEF PoolInv
  <1> QED
    BY <1>2, <1>4, <1>5

\* A PIN is set for the user of a job.
LEMMA PinIsSet ==
    ASSUME PoolInv, NEW k \in {"pool", "broker"}, job[k].step = "pin", NEW t \in Nat \ {0},
           netPin' = [netPin EXCEPT ![job[k].user] = t],
           UNCHANGED <<created, registered, pooled, owners, brokers>>,
           lostAnswers \subseteq lostAnswers'
    PROVE  /\ netPin' \in [1..MaxUsers -> Nat] /\ netPin'[job[k].user] = t
           /\ \A u \in 1..MaxUsers : u > created' => netPin'[u] = 0 /\ registered'[u] = 0
           /\ \A m \in {"pool", "broker"} : m # k /\ job[m].step # "idle" =>
                job[m].user # job[k].user /\ netPin'[job[m].user] = netPin[job[m].user]
           /\ PoolRows'
           /\ Pool(TRUE)!StoredPinOpens' /\ Pool(TRUE)!OceanKeyNeedsReply'
           /\ Pool(TRUE)!PoolIsUnused'
  <1>1. /\ job[k].user \in 1..created /\ job[k].user \in 1..MaxUsers /\ created \in Nat
        /\ job[k].user <= created
    BY UserOfJob
  <1>2. job[k].user \notin owners \cup DOMAIN pooled \cup DOMAIN brokers
    <2>1. CASE k = "pool"
      BY <2>1 DEF PoolInv, PoolJobs
    <2>2. CASE k = "broker"
      BY <2>2 DEF PoolInv, PoolJobs
    <2> QED
      BY <2>1, <2>2
  <1>3. /\ netPin' \in [1..MaxUsers -> Nat] /\ netPin'[job[k].user] = t
        /\ \A u \in 1..MaxUsers : u # job[k].user => netPin'[u] = netPin[u]
    BY <1>1 DEF PoolInv, PoolTypes
  <1>4. \A u \in 1..MaxUsers : u > created' => netPin'[u] = 0 /\ registered'[u] = 0
    BY <1>1, <1>3 DEF PoolInv, PoolTypes
  <1>5. ASSUME NEW m \in {"pool", "broker"}, m # k, job[m].step # "idle"
        PROVE  job[m].user # job[k].user /\ netPin'[job[m].user] = netPin[job[m].user]
    <2>1. job[m].user \in 1..MaxUsers
      BY <1>5, UserOfJob
    <2>2. job[m].user # job[k].user
      <3>1. CASE k = "pool"
        BY <1>5, <3>1 DEF PoolInv, PoolJobs
      <3>2. CASE k = "broker"
        BY <1>5, <3>2 DEF PoolInv, PoolJobs
      <3> QED
        BY <3>1, <3>2
    <2> QED
      BY <1>3, <2>1, <2>2
  <1>6. PoolRows'
    BY DEF PoolInv, PoolRows
  <1>7. \A u \in DOMAIN pooled \cup DOMAIN brokers : netPin'[u] = netPin[u]
    <2>1. DOMAIN pooled \cup DOMAIN brokers \subseteq 1..MaxUsers
      BY PoolConstants DEF PoolInv, PoolRows, PoolTypes
    <2> QED
      BY <1>2, <1>3, <2>1
  <1>8. Pool(TRUE)!StoredPinOpens' /\ Pool(TRUE)!OceanKeyNeedsReply' /\ Pool(TRUE)!PoolIsUnused'
    BY <1>7 DEF PoolInv, Pool!StoredPinOpens, Pool!OceanKeyNeedsReply, Pool!PoolIsUnused
  <1> QED
    BY <1>3, <1>4, <1>5, <1>6, <1>8

\* The job goes on with the PIN it has set.
LEMMA PinTaken ==
    ASSUME PoolInv, NEW k \in {"pool", "broker"}, job[k].step = "pin",
           netPin' = [netPin EXCEPT ![job[k].user] = job[k].tries],
           job' = [job EXCEPT ![k].step = IF k = "pool" THEN "ocean" ELSE "persist",
                              ![k].tries = 1, ![k].pin = job[k].tries],
           UNCHANGED <<created, registered, pooled, owners, brokers, lostAnswers>>
    PROVE  PoolInv'
  <1>1. job[k].tries \in Nat \ {0} /\ job[k].user \in Nat /\ job[k].ocean \in Nat
    BY JobTypes
  <1>2. /\ netPin' \in [1..MaxUsers -> Nat] /\ netPin'[job[k].user] = job[k].tries
        /\ \A u \in 1..MaxUsers : u > created' => netPin'[u] = 0 /\ registered'[u] = 0
        /\ \A m \in {"pool", "broker"} : m # k /\ job[m].step # "idle" =>
             job[m].user # job[k].user /\ netPin'[job[m].user] = netPin[job[m].user]
        /\ PoolRows'
        /\ Pool(TRUE)!StoredPinOpens' /\ Pool(TRUE)!OceanKeyNeedsReply'
        /\ Pool(TRUE)!PoolIsUnused'
    BY <1>1, PinIsSet
  <1>3. PICK step \in {"ocean", "persist"} : step = IF k = "pool" THEN "ocean" ELSE "persist"
    OBVIOUS
  <1>4. JobBecame(k, step, job[k].user, 1, job[k].tries, job[k].ocean)
    <2>1. PICK j \in JobRecord : j = job[k]
      BY JobTypes
    <2>0. PICK t : t = job[k].tries
      OBVIOUS
    <2>2. [j EXCEPT !.step = step, !.tries = 1, !.pin = t]
            = [step |-> step, user |-> j.user, tries |-> 1, pin |-> t, ocean |-> j.ocean]
      BY JobPins
    <2>3. job' = [job EXCEPT ![k] = [j EXCEPT !.step = step, !.tries = 1, !.pin = t]]
      BY <1>3, <2>1, <2>0 DEF PoolInv, PoolTypes
    <2>4. JobBecomes(k, step, j.user, 1, t, j.ocean)
      BY <2>2, <2>3 DEF JobBecomes
    <2>5. /\ step \in {"idle", "pin", "ocean", "persist"} /\ j.user \in Nat
          /\ 1 \in Nat \ {0} /\ t \in Nat /\ j.ocean \in Nat
      BY <1>1, <1>3, <2>0, <2>1
    <2>6. JobBecame(k, step, j.user, 1, t, j.ocean)
      BY <2>4, <2>5, JobBecomesOK
    <2> QED
      BY <2>0, <2>1, <2>6
  <1>5. /\ job'[k].step = step /\ job'[k].user = job[k].user /\ job'[k].pin = job[k].tries
        /\ job' \in [{"pool", "broker"} -> JobRecord]
        /\ k = "pool" => job'["broker"] = job["broker"] /\ step = "ocean"
        /\ k = "broker" => job'["pool"] = job["pool"] /\ step = "persist"
    BY <1>3, <1>4 DEF JobBecame
  <1>6. PoolTypes'
    BY <1>2, <1>5 DEF PoolInv, PoolTypes
  <1>7. PoolJobs'
    <2>1. CASE k = "pool"
      BY <1>5, <2>1, IdleIs DEF PoolInv, PoolJobs
    <2>2. CASE k = "broker"
      BY <1>5, <2>2, IdleIs DEF PoolInv, PoolJobs
    <2> QED
      BY <2>1, <2>2
  <1>8. JobsMatchNetwork'
    <2>1. CASE k = "pool"
      BY <1>2, <1>5, <2>1 DEF PoolInv, JobsMatchNetwork
    <2>2. CASE k = "broker"
      BY <1>2, <1>5, <2>2 DEF PoolInv, JobsMatchNetwork
    <2> QED
      BY <2>1, <2>2
  <1> QED
    BY <1>2, <1>6, <1>7, <1>8 DEF PoolInv

\* The PIN is set, but the job is not told so.
LEMMA PinAnswerLost ==
    ASSUME PoolInv, NEW k \in {"pool", "broker"}, job[k].step = "pin",
           netPin' = [netPin EXCEPT ![job[k].user] = job[k].tries],
           job' = IF k = "broker" THEN [job EXCEPT ![k] = IdleJob]
                  ELSE [job EXCEPT ![k].tries = @ + 1],
           lostAnswers' = lostAnswers \cup {<<job[k].user, "pin">>},
           UNCHANGED <<created, registered, pooled, owners, brokers>>
    PROVE  PoolInv'
  <1>1. job[k].tries \in Nat \ {0}
    BY JobTypes
  <1>2. /\ netPin' \in [1..MaxUsers -> Nat]
        /\ \A u \in 1..MaxUsers : u > created' => netPin'[u] = 0 /\ registered'[u] = 0
        /\ \A m \in {"pool", "broker"} : m # k /\ job[m].step # "idle" =>
             job[m].user # job[k].user /\ netPin'[job[m].user] = netPin[job[m].user]
        /\ PoolRows'
        /\ Pool(TRUE)!StoredPinOpens' /\ Pool(TRUE)!OceanKeyNeedsReply'
        /\ Pool(TRUE)!PoolIsUnused'
    BY <1>1, PinIsSet
  <1>3. CASE k = "broker"
    <2>1. JobBecame(k, "idle", 0, 1, 0, 0)
      BY <1>3, JobIdle
    <2>2. /\ job'["broker"].step = "idle" /\ job'["broker"] = IdleJob
          /\ job'["pool"] = job["pool"] /\ job' \in [{"pool", "broker"} -> JobRecord]
      BY <1>3, <2>1 DEF JobBecame
    <2>3. PoolTypes'
      BY <1>2, <2>2 DEF PoolInv, PoolTypes
    <2>4. PoolJobs'
      BY <2>2, IdleIs DEF PoolInv, PoolJobs
    <2>5. JobsMatchNetwork'
      BY <1>2, <1>3, <2>2 DEF PoolInv, JobsMatchNetwork
    <2> QED
      BY <1>2, <2>3, <2>4, <2>5 DEF PoolInv
  <1>4. CASE k = "pool"
    <2>1. job' = [job EXCEPT !["pool"].tries = @ + 1]
      BY <1>4
    <2>2. /\ job'["pool"].step = job["pool"].step /\ job'["pool"].user = job["pool"].user
          /\ job'["pool"].pin = job["pool"].pin /\ job'["pool"].ocean = job["pool"].ocean
          /\ job'["broker"] = job["broker"] /\ job' \in [{"pool", "broker"} -> JobRecord]
      BY <2>1, PoolTries
    <2>3. PoolTypes'
      BY <1>2, <2>2 DEF PoolInv, PoolTypes
    <2>4. PoolJobs'
      BY <1>4, <2>2, IdleIs DEF PoolInv, PoolJobs
    <2>5. JobsMatchNetwork'
      BY <1>2, <1>4, <2>2 DEF PoolInv, JobsMatchNetwork
    <2> QED
      BY <1>2, <2>3, <2>4, <2>5 DEF PoolInv
  <1> QED
    BY <1>3, <1>4

LEMMA SetupPINKeepsInv ==
    ASSUME PoolInv, NEW strict \in BOOLEAN, NEW k \in {"pool", "broker"},
           Pool(strict)!SetupPIN(k)
    PROVE  PoolInv'
  <1>1. /\ job[k].step = "pin" /\ UNCHANGED <<created, registered, pooled, owners, brokers>>
    BY DEF Pool!SetupPIN, Pool!tables
  <1>2. \/ /\ job' = [job EXCEPT ![k] = IdleJob] /\ netPin' = netPin /\ lostAnswers' = lostAnswers
        \/ /\ netPin' = [netPin EXCEPT ![job[k].user] = job[k].tries]
           /\ job' = [job EXCEPT ![k].step = IF k = "pool" THEN "ocean" ELSE "persist",
                                 ![k].tries = 1, ![k].pin = job[k].tries]
           /\ lostAnswers' = lostAnswers
        \/ /\ netPin' = [netPin EXCEPT ![job[k].user] = job[k].tries]
           /\ job' = IF k = "broker" THEN [job EXCEPT ![k] = IdleJob]
                     ELSE [job EXCEPT ![k].tries = @ + 1]
           /\ lostAnswers' = lostAnswers \cup {<<job[k].user, "pin">>}
        \/ /\ netPin' = netPin /\ lostAnswers' = lostAnswers
           /\ k = "pool" /\ job' = [job EXCEPT !["pool"].tries = @ + 1]
    BY IdleIs DEF Pool!SetupPIN, Pool!Call, Pool!AfterError, Pool!GiveUp, Pool!PinOf
  <1>3. CASE job' = [job EXCEPT ![k] = IdleJob] /\ netPin' = netPin /\ lostAnswers' = lostAnswers
    BY <1>1, <1>3, JobIdles
  <1>4. CASE /\ netPin' = [netPin EXCEPT ![job[k].user] = job[k].tries]
             /\ job' = [job EXCEPT ![k].step = IF k = "pool" THEN "ocean" ELSE "persist",
                                   ![k].tries = 1, ![k].pin = job[k].tries]
             /\ lostAnswers' = lostAnswers
    BY <1>1, <1>4, PinTaken
  <1>5. CASE /\ netPin' = [netPin EXCEPT ![job[k].user] = job[k].tries]
             /\ job' = IF k = "broker" THEN [job EXCEPT ![k] = IdleJob]
                       ELSE [job EXCEPT ![k].tries = @ + 1]
             /\ lostAnswers' = lostAnswers \cup {<<job[k].user, "pin">>}
    BY <1>1, <1>5, PinAnswerLost
  <1>6. CASE /\ netPin' = netPin /\ lostAnswers' = lostAnswers
             /\ k = "pool" /\ job' = [job EXCEPT !["pool"].tries = @ + 1]
    BY <1>1, <1>6, JobTriesAgain
  <1> QED
    BY <1>2, <1>3, <1>4, <1>5, <1>6

\* The job goes on with the key it has sent.
LEMMA KeyTaken ==
    ASSUME PoolInv, job["pool"].step = "ocean",
           job' = [job EXCEPT !["pool"].step = "persist", !["pool"].tries = 1,
                              !["pool"].ocean = job["pool"].tries]
    PROVE  /\ job'["pool"].step = "persist" /\ job'["pool"].user = job["pool"].user
           /\ job'["pool"].pin = job["pool"].pin
           /\ job'["pool"].ocean = job["pool"].tries
           /\ job'["broker"] = job["broker"] /\ job' \in [{"pool", "broker"} -> JobRecord]
  <1>1. PICK j \in JobRecord : j = job["pool"]
    BY JobTypes
  <1>2. PICK t : t = job["pool"].tries
    OBVIOUS
  <1>3. [j EXCEPT !.step = "persist", !.tries = 1, !.ocean = t]
          = [step |-> "persist", user |-> j.user, tries |-> 1, pin |-> j.pin, ocean |-> t]
    BY JobKeys
  <1>4. job' = [job EXCEPT !["pool"] = [j EXCEPT !.step = "persist", !.tries = 1, !.ocean = t]]
    BY <1>1, <1>2 DEF PoolInv, PoolTypes
  <1>5. JobBecomes("pool", "persist", j.user, 1, j.pin, t)
    BY <1>3, <1>4 DEF JobBecomes
  <1>6. j.user \in Nat /\ t \in Nat /\ j.pin \in Nat /\ 1 \in Nat \ {0}
    BY <1>1, <1>2, JobTypes
  <1>7. JobBecame("pool", "persist", j.user, 1, j.pin, t)
    BY <1>5, <1>6, JobBecomesOK
  <1> QED
    BY <1>1, <1>2, <1>7 DEF JobBecame

\* A key is sent for the user of the job, or a known one is sent again.
LEMMA KeyIsSent ==
    ASSUME PoolInv, job["pool"].step = "ocean",
           registered' = [registered EXCEPT ![job["pool"].user] =
                            IF @ = 0 THEN job["pool"].tries ELSE @],
           UNCHANGED <<created, netPin, pooled, owners, brokers>>,
           lostAnswers \subseteq lostAnswers'
    PROVE  /\ registered' \in [1..MaxUsers -> Nat]
           /\ \A u \in 1..MaxUsers : u > created' => netPin'[u] = 0 /\ registered'[u] = 0
           /\ registered'[job["pool"].user] = IF registered[job["pool"].user] = 0
                                              THEN job["pool"].tries
                                              ELSE registered[job["pool"].user]
           /\ PoolRows'
           /\ Pool(TRUE)!StoredPinOpens' /\ Pool(TRUE)!OceanKeyNeedsReply'
           /\ Pool(TRUE)!PoolIsUnused'
  <1>1. /\ job["pool"].user \in 1..created /\ job["pool"].user \in 1..MaxUsers
        /\ created \in Nat /\ job["pool"].user <= created
    BY UserOfJob
  <1>2. job["pool"].user \notin DOMAIN pooled
    BY DEF PoolInv, PoolJobs
  <1>3. /\ registered' \in [1..MaxUsers -> Nat]
        /\ registered'[job["pool"].user] = IF registered[job["pool"].user] = 0
                                           THEN job["pool"].tries
                                           ELSE registered[job["pool"].user]
        /\ \A u \in 1..MaxUsers : u # job["pool"].user => registered'[u] = registered[u]
    <2>1. job["pool"].tries \in Nat /\ registered \in [1..MaxUsers -> Nat]
      BY JobTypes DEF PoolInv, PoolTypes
    <2> QED
      BY <1>1, <2>1
  <1>4. \A u \in 1..MaxUsers : u > created' => netPin'[u] = 0 /\ registered'[u] = 0
    BY <1>1, <1>3 DEF PoolInv, PoolTypes
  <1>5. PoolRows'
    BY DEF PoolInv, PoolRows
  <1>6. \A u \in DOMAIN pooled : registered'[u] = registered[u]
    <2>1. DOMAIN pooled \subseteq 1..MaxUsers
      BY PoolConstants DEF PoolInv, PoolRows, PoolTypes
    <2> QED
      BY <1>2, <1>3, <2>1
  <1>7. Pool(TRUE)!StoredPinOpens' /\ Pool(TRUE)!OceanKeyNeedsReply' /\ Pool(TRUE)!PoolIsUnused'
    BY <1>6 DEF PoolInv, Pool!StoredPinOpens, Pool!OceanKeyNeedsReply, Pool!PoolIsUnused
  <1> QED
    BY <1>3, <1>4, <1>5, <1>7

\* Once the pool's job has gone on or tries again with its key.
LEMMA KeyIsSentKeepsInv ==
    ASSUME PoolInv, job["pool"].step = "ocean",
           registered' = [registered EXCEPT ![job["pool"].user] =
                            IF @ = 0 THEN job["pool"].tries ELSE @],
           \/ /\ job' = [job EXCEPT !["pool"].step = "persist", !["pool"].tries = 1,
                                    !["pool"].ocean = job["pool"].tries]
              /\ lostAnswers' = lostAnswers
           \/ /\ job' = [job EXCEPT !["pool"].tries = @ + 1]
              /\ lostAnswers' = lostAnswers \cup {<<job["pool"].user, "ocean">>},
           UNCHANGED <<created, netPin, pooled, owners, brokers>>
    PROVE  PoolInv'
  <1>1. /\ registered' \in [1..MaxUsers -> Nat]
        /\ \A u \in 1..MaxUsers : u > created' => netPin'[u] = 0 /\ registered'[u] = 0
        /\ registered'[job["pool"].user] = IF registered[job["pool"].user] = 0
                                           THEN job["pool"].tries
                                           ELSE registered[job["pool"].user]
        /\ PoolRows'
        /\ Pool(TRUE)!StoredPinOpens' /\ Pool(TRUE)!OceanKeyNeedsReply'
        /\ Pool(TRUE)!PoolIsUnused'
    BY KeyIsSent
  <1>2. CASE /\ job' = [job EXCEPT !["pool"].step = "persist", !["pool"].tries = 1,
                                   !["pool"].ocean = job["pool"].tries]
             /\ lostAnswers' = lostAnswers
    <2>1. /\ job'["pool"].step = "persist" /\ job'["pool"].user = job["pool"].user
          /\ job'["pool"].pin = job["pool"].pin /\ job'["pool"].ocean = job["pool"].tries
          /\ job'["broker"] = job["broker"] /\ job' \in [{"pool", "broker"} -> JobRecord]
      BY <1>2, KeyTaken
    <2>2. PoolTypes'
      BY <1>1, <2>1 DEF PoolInv, PoolTypes
    <2>3. PoolJobs'
      BY <1>2, <2>1, IdleIs DEF PoolInv, PoolJobs
    <2>4. JobsMatchNetwork'
      BY <1>1, <1>2, <2>1 DEF PoolInv, JobsMatchNetwork
    <2> QED
      BY <1>1, <2>2, <2>3, <2>4 DEF PoolInv
  <1>3. CASE /\ job' = [job EXCEPT !["pool"].tries = @ + 1]
             /\ lostAnswers' = lostAnswers \cup {<<job["pool"].user, "ocean">>}
    <2>1. /\ job'["pool"].step = job["pool"].step /\ job'["pool"].user = job["pool"].user
          /\ job'["pool"].pin = job["pool"].pin /\ job'["pool"].ocean = job["pool"].ocean
          /\ job'["broker"] = job["broker"] /\ job' \in [{"pool", "broker"} -> JobRecord]
      BY <1>3, PoolTries
    <2>2. PoolTypes'
      BY <1>1, <2>1 DEF PoolInv, PoolTypes
    <2>3. PoolJobs'
      BY <1>3, <2>1, IdleIs DEF PoolInv, PoolJobs
    <2>4. JobsMatchNetwork'
      BY <1>1, <1>3, <2>1 DEF PoolInv, JobsMatchNetwork
    <2> QED
      BY <1>1, <2>2, <2>3, <2>4 DEF PoolInv
  <1> QED
    BY <1>2, <1>3

LEMMA SetupOceanKeyKeepsInv ==
    ASSUME PoolInv, NEW strict \in BOOLEAN, Pool(strict)!SetupOceanKey("pool")
    PROVE  PoolInv'
  <1>1. /\ job["pool"].step = "ocean"
        /\ UNCHANGED <<created, netPin, pooled, owners, brokers>>
    BY DEF Pool!SetupOceanKey, Pool!tables
  <1>2. \/ /\ registered' = [registered EXCEPT ![job["pool"].user] =
                               IF @ = 0 THEN job["pool"].tries ELSE @]
           /\ job' = [job EXCEPT !["pool"].step = "persist", !["pool"].tries = 1,
                                 !["pool"].ocean = job["pool"].tries]
           /\ lostAnswers' = lostAnswers
        \/ /\ registered' = [registered EXCEPT ![job["pool"].user] =
                               IF @ = 0 THEN job["pool"].tries ELSE @]
           /\ job' = [job EXCEPT !["pool"].tries = @ + 1]
           /\ lostAnswers' = lostAnswers \cup {<<job["pool"].user, "ocean">>}
        \/ /\ registered' = registered /\ lostAnswers' = lostAnswers
           /\ job' = [job EXCEPT !["pool"].tries = @ + 1]
    BY <1>1 DEF Pool!SetupOceanKey, Pool!Call, Pool!AfterError, Pool!OceanKeyOf
  <1>3. CASE /\ registered' = registered /\ lostAnswers' = lostAnswers
             /\ job' = [job EXCEPT !["pool"].tries = @ + 1]
    BY <1>1, <1>3, JobTriesAgain
  <1> QED
    BY <1>1, <1>2, <1>3, KeyIsSentKeepsInv

LEMMA PoolStutters ==
    ASSUME PoolInv,
           UNCHANGED <<created, netPin, registered, job, pooled, owners, brokers, lostAnswers>>
    PROVE  PoolInv'
  <1>1. created' = created /\ created \in 0..MaxUsers
    BY DEF PoolInv, PoolTypes
  <1>2. created' <= MaxUsers
    BY <1>1, PoolConstants
  <1> QED
    BY <1>1, <1>2, NetworkGrows

-----------------------------------------------------------------------------
(* The steps that change the tables.                                       *)

LEMMA PersistKeyKeepsInv ==
    ASSUME PoolInv, NEW strict \in BOOLEAN, Pool(strict)!PersistKey
    PROVE  PoolInv'
  <1>1. /\ job["pool"].step = "persist" /\ job["pool"].user \notin DOMAIN pooled
        /\ UNCHANGED <<created, netPin, registered, owners, brokers>>
    BY DEF Pool!PersistKey, Pool!network
  <1>2. PICK row : row = [pin |-> job["pool"].pin, ocean |-> job["pool"].ocean]
    OBVIOUS
  <1>3. \/ /\ pooled' = Pool(strict)!With(pooled, job["pool"].user, row)
           /\ \/ job' = [job EXCEPT !["pool"] = IdleJob] /\ lostAnswers' = lostAnswers
              \/ /\ job' = job
                 /\ lostAnswers' = lostAnswers \cup {<<job["pool"].user, "persist">>}
        \/ pooled' = pooled /\ job' = job /\ lostAnswers' = lostAnswers
    BY <1>1, <1>2, IdleIs DEF Pool!PersistKey, Pool!Call, Pool!Done
  <1>4. CASE pooled' = pooled /\ job' = job /\ lostAnswers' = lostAnswers
    BY <1>1, <1>4, PoolStutters
  <1>5. CASE /\ pooled' = Pool(strict)!With(pooled, job["pool"].user, row)
             /\ \/ job' = [job EXCEPT !["pool"] = IdleJob] /\ lostAnswers' = lostAnswers
                \/ /\ job' = job
                   /\ lostAnswers' = lostAnswers \cup {<<job["pool"].user, "persist">>}
    <2>1. /\ DOMAIN pooled' = DOMAIN pooled \cup {job["pool"].user}
          /\ pooled'[job["pool"].user] = row
          /\ \A u \in DOMAIN pooled : pooled'[u] = pooled[u]
      BY <1>1, <1>5 DEF Pool!With
    <2>2. /\ job["pool"].user \in 1..created /\ job["pool"].user # 0
          /\ job["pool"].user \notin DOMAIN brokers
          /\ job["broker"].step # "idle" => job["broker"].user # job["pool"].user
          /\ job["pool"].user \in owners => <<job["pool"].user, "persist">> \in lostAnswers
      BY <1>1, UserOfJob DEF PoolInv, PoolJobs
    <2>3. /\ row.pin = netPin[job["pool"].user]
          /\ row.ocean = registered[job["pool"].user]
               \/ <<job["pool"].user, "ocean">> \in lostAnswers
      BY <1>1, <1>2 DEF PoolInv, JobsMatchNetwork
    <2>4. lostAnswers \subseteq lostAnswers'
      BY <1>5
    <2>5. PoolRows'
      BY <1>1, <2>1, <2>2 DEF PoolInv, PoolRows
    <2>6. Pool(TRUE)!StoredPinOpens' /\ Pool(TRUE)!OceanKeyNeedsReply' /\ Pool(TRUE)!PoolIsUnused'
      <3>1. Pool(TRUE)!StoredPinOpens'
        BY <1>1, <2>1, <2>3 DEF PoolInv, Pool!StoredPinOpens
      <3>2. Pool(TRUE)!OceanKeyNeedsReply'
        BY <1>1, <2>1, <2>3, <2>4 DEF PoolInv, Pool!OceanKeyNeedsReply
      <3>3. Pool(TRUE)!PoolIsUnused'
        BY <1>1, <2>1, <2>2, <2>4 DEF PoolInv, Pool!PoolIsUnused
      <3> QED
        BY <3>1, <3>2, <3>3
    <2>7. CASE job' = [job EXCEPT !["pool"] = IdleJob] /\ lostAnswers' = lostAnswers
      <3>1. JobBecame("pool", "idle", 0, 1, 0, 0)
        BY <2>7, JobIdle
      <3>2. /\ job'["pool"].step = "idle" /\ job'["pool"] = IdleJob
            /\ job'["pool"].user = 0
            /\ job'["broker"] = job["broker"] /\ job' \in [{"pool", "broker"} -> JobRecord]
        BY <3>1 DEF JobBecame
      <3>3. PoolTypes'
        BY <1>1, <3>2 DEF PoolInv, PoolTypes
      <3>5. job["broker"].step # "idle" => job["broker"].user # 0
        BY UserOfJob
      <3>4. PoolJobs'
        BY <1>1, <2>1, <2>2, <3>2, <3>5, IdleIs DEF PoolInv, PoolJobs
      <3>6. JobsMatchNetwork'
        BY <1>1, <3>2 DEF PoolInv, JobsMatchNetwork
      <3> QED
        BY <2>5, <2>6, <3>3, <3>4, <3>6 DEF PoolInv
    <2>8. CASE /\ job' = job
               /\ lostAnswers' = lostAnswers \cup {<<job["pool"].user, "persist">>}
      <3>1. PoolTypes'
        BY <1>1, <2>8 DEF PoolInv, PoolTypes
      <3>2. PoolJobs'
        BY <1>1, <2>1, <2>2, <2>8, IdleIs DEF PoolInv, PoolJobs
      <3>3. JobsMatchNetwork'
        BY <1>1, <2>8 DEF PoolInv, JobsMatchNetwork
      <3> QED
        BY <2>5, <2>6, <3>1, <3>2, <3>3 DEF PoolInv
    <2> QED
      BY <1>5, <2>7, <2>8
  <1> QED
    BY <1>3, <1>4, <1>5

LEMMA PersistBrokerKeepsInv ==
    ASSUME PoolInv, NEW strict \in BOOLEAN, Pool(strict)!PersistBroker
    PROVE  PoolInv'
  <1>1. /\ job["broker"].step = "persist" /\ job' = [job EXCEPT !["broker"] = IdleJob]
        /\ UNCHANGED <<created, netPin, registered, owners, pooled>>
        /\ lostAnswers \subseteq lostAnswers'
        /\ \/ brokers' = Pool(strict)!With(brokers, job["broker"].user, job["broker"].pin)
           \/ brokers' = brokers
    BY IdleIs DEF Pool!PersistBroker, Pool!network, Pool!Call
  <1>2. CASE brokers' = brokers
    BY <1>1, <1>2, JobIdles
  <1>3. CASE brokers' = Pool(strict)!With(brokers, job["broker"].user, job["broker"].pin)
    <2>1. /\ DOMAIN brokers' = DOMAIN brokers \cup {job["broker"].user}
          /\ job["broker"].user \notin DOMAIN brokers
          /\ brokers'[job["broker"].user] = job["broker"].pin
          /\ \A u \in DOMAIN brokers : brokers'[u] = brokers[u]
      <3>1. job["broker"].user \notin DOMAIN brokers
        BY <1>1 DEF PoolInv, PoolJobs
      <3> QED
        BY <1>3, <3>1 DEF Pool!With
    <2>2. /\ job["broker"].user \in 1..created /\ job["broker"].user # 0
          /\ job["broker"].user \notin owners \cup DOMAIN pooled
          /\ job["broker"].user # job["pool"].user
      BY <1>1, UserOfJob DEF PoolInv, PoolJobs
    <2>3. job["broker"].pin = netPin[job["broker"].user]
      BY <1>1 DEF PoolInv, JobsMatchNetwork
    <2>4. JobBecame("broker", "idle", 0, 1, 0, 0)
      BY <1>1, JobIdle
    <2>5. /\ job'["broker"].step = "idle" /\ job'["broker"] = IdleJob
          /\ job'["pool"] = job["pool"] /\ job' \in [{"pool", "broker"} -> JobRecord]
      BY <2>4 DEF JobBecame
    <2>6. PoolTypes'
      BY <1>1, <2>5 DEF PoolInv, PoolTypes
    <2>7. PoolRows'
      BY <1>1, <2>1, <2>2 DEF PoolInv, PoolRows
    <2>8. PoolJobs'
      BY <1>1, <2>1, <2>2, <2>5, IdleIs DEF PoolInv, PoolJobs
    <2>9. JobsMatchNetwork'
      BY <1>1, <2>5 DEF PoolInv, JobsMatchNetwork
    <2>10. Pool(TRUE)!StoredPinOpens'
      BY <1>1, <2>1, <2>3 DEF PoolInv, Pool!StoredPinOpens
    <2>11. Pool(TRUE)!OceanKeyNeedsReply' /\ Pool(TRUE)!PoolIsUnused'
      BY <1>1 DEF PoolInv, Pool!OceanKeyNeedsReply, Pool!PoolIsUnused
    <2> QED
      BY <2>6, <2>7, <2>8, <2>9, <2>10, <2>11 DEF PoolInv
  <1> QED
    BY <1>1, <1>2, <1>3

LEMMA ConsumeKeepsInv ==
    ASSUME PoolInv, NEW strict \in BOOLEAN, NEW u, Pool(strict)!ConsumePoolKey(u)
    PROVE  PoolInv'
  <1>1. /\ u \in DOMAIN pooled \ owners /\ owners' = owners \cup {u}
        /\ pooled' = [v \in DOMAIN pooled \ {u} |-> pooled[v]]
        /\ UNCHANGED <<created, netPin, registered, job, brokers, lostAnswers>>
    BY DEF Pool!ConsumePoolKey, Pool!RestOfPool, Pool!network, Pool!faults
  <1>2. /\ DOMAIN pooled' = DOMAIN pooled \ {u}
        /\ \A v \in DOMAIN pooled' : pooled'[v] = pooled[v]
    BY <1>1
  <1>3. owners' \cup DOMAIN pooled' = owners \cup DOMAIN pooled
    BY <1>1, <1>2
  <1>4. PoolTypes'
    BY <1>1 DEF PoolInv, PoolTypes
  <1>5. PoolRows'
    BY <1>1, <1>3 DEF PoolInv, PoolRows
  <1>6. PoolJobs'
    BY <1>1, <1>3, IdleIs DEF PoolInv, PoolJobs
  <1>7. JobsMatchNetwork'
    BY <1>1 DEF PoolInv, JobsMatchNetwork
  <1>8. Pool(TRUE)!StoredPinOpens' /\ Pool(TRUE)!OceanKeyNeedsReply' /\ Pool(TRUE)!PoolIsUnused'
    BY <1>1, <1>2
    DEF PoolInv, Pool!StoredPinOpens, Pool!OceanKeyNeedsReply, Pool!PoolIsUnused
  <1> QED
    BY <1>4, <1>5, <1>6, <1>7, <1>8 DEF PoolInv

-----------------------------------------------------------------------------
(* Together.                                                               *)

LEMMA PoolNextKeepsInv ==
    ASSUME PoolInv, NEW strict \in BOOLEAN, Pool(strict)!Next
    PROVE  PoolInv'
  <1>1. CASE \E k \in {"pool", "broker"} : Pool(strict)!CreateUser(k)
    BY <1>1, CreateUserKeepsInv
  <1>2. CASE \E k \in {"pool", "broker"} : Pool(strict)!SetupPIN(k)
    BY <1>2, SetupPINKeepsInv
  <1>3. CASE Pool(strict)!SetupOceanKey("pool")
    BY <1>3, SetupOceanKeyKeepsInv
  <1>4. CASE Pool(strict)!PersistKey
    BY <1>4, PersistKeyKeepsInv
  <1>5. CASE Pool(strict)!PersistBroker
    BY <1>5, PersistBrokerKeepsInv
  <1>6. CASE \E u \in Pool(strict)!User : Pool(strict)!ConsumePoolKey(u)
    BY <1>6, ConsumeKeepsInv
  <1>7. CASE Pool(strict)!RunExchange
    BY <1>7, PoolStutters DEF Pool!RunExchange, Pool!network, Pool!tables, Pool!faults
  <1>8. CASE \E k \in {"pool", "broker"} : Pool(strict)!Restart(k)
    <2>1. PICK k \in {"pool", "broker"} : Pool(strict)!Restart(k)
      BY <1>8
    <2> QED
      BY <2>1, IdleIs, JobIdles DEF Pool!Restart, Pool!GiveUp, Pool!network, Pool!tables
  <1> QED
    BY <1>1, <1>2, <1>3, <1>4, <1>5, <1>6, <1>7, <1>8
    DEF Pool!Next, Pool!GeneratePoolKey, Pool!AddBroker, Pool!Kind

LEMMA PoolStarts == ASSUME Pool(FALSE)!Init PROVE PoolInv
  <1>1. /\ created = 0 /\ netPin = [u \in 1..MaxUsers |-> 0]
        /\ registered = [u \in 1..MaxUsers |-> 0]
        /\ job = [k \in {"pool", "broker"} |-> IdleJob]
        /\ DOMAIN pooled = {} /\ owners = {} /\ DOMAIN brokers = {}
    <2>1. Pool(FALSE)!Idle = IdleJob
      BY IdleIs
    <2>2. pooled = <<>> /\ brokers = <<>> /\ owners = {} /\ created = 0
      BY DEF Pool!Init
    <2>3. netPin = [u \in 1..MaxUsers |-> 0] /\ registered = [u \in 1..MaxUsers |-> 0]
      BY DEF Pool!Init, Pool!User
    <2>4. job = [k \in {"pool", "broker"} |-> IdleJob]
      BY <2>1 DEF Pool!Init, Pool!Kind
    <2> QED
      BY <2>2, <2>3, <2>4
  <1>2. IdleJob \in JobRecord /\ IdleJob.step = "idle"
    BY DEF JobRecord, IdleJob
  <1>3. /\ job \in [{"pool", "broker"} -> JobRecord]
        /\ \A k \in {"pool", "broker"} : job[k].step = "idle" /\ job[k] = IdleJob
    BY <1>1, <1>2
  <1>4. PoolTypes
    BY <1>1, <1>3, PoolConstants DEF PoolTypes
  <1>5. PoolRows
    BY <1>1 DEF PoolRows
  <1>6. PoolJobs
    BY <1>3, IdleIs DEF PoolJobs
  <1>7. JobsMatchNetwork
    BY <1>3 DEF JobsMatchNetwork
  <1>8. Pool(TRUE)!StoredPinOpens /\ Pool(TRUE)!OceanKeyNeedsReply /\ Pool(TRUE)!PoolIsUnused
    BY <1>1 DEF Pool!StoredPinOpens, Pool!OceanKeyNeedsReply, Pool!PoolIsUnused
  <1> QED
    BY <1>4, <1>5, <1>6, <1>7, <1>8 DEF PoolInv

LEMMA PoolStepKeepsInv == ASSUME PoolInv, [ExampleNext]_exampleVars PROVE PoolInv'
  <1>1. CASE Pool(FALSE)!Next \/ Pool(TRUE)!Next
    BY <1>1, PoolNextKeepsInv
  <1>2. CASE UNCHANGED poolVars
    BY <1>2, PoolStutters DEF poolVars
  <1> QED
    BY <1>1, <1>2 DEF ExampleNext, exampleVars, CandleStep, CopyStep, TradeStep, AccountStep,
                      LimiterStep, PoolStep

LEMMA PoolIsThenSound == ASSUME PoolInv, NEW strict \in BOOLEAN PROVE Sound(strict)
  <1>1. Pool(strict)!TypeOK
    <2>1. ASSUME NEW k \in {"pool", "broker"}
          PROVE  job[k].user \in 0..created /\ job[k].pin \in Nat /\ job[k].ocean \in Nat
      <3>1. created \in Nat
        BY PoolConstants DEF PoolInv, PoolTypes
      <3>2. CASE job[k].step = "idle"
        <4>1. job[k] = IdleJob
          BY <3>2, IdleIs DEF PoolInv, PoolJobs
        <4>2. job[k].user = 0
          BY <4>1 DEF IdleJob
        <4> QED
          BY <3>1, <4>2, JobTypes
      <3>3. CASE job[k].step # "idle"
        BY <3>1, <3>3, JobTypes, UserOfJob
      <3> QED
        BY <3>2, <3>3
    <2>2. job["pool"] = IdleJob \/ job["pool"].user # job["broker"].user
      <3>1. CASE job["broker"].step # "idle"
        BY <3>1 DEF PoolInv, PoolJobs
      <3>2. CASE job["broker"].step = "idle" /\ job["pool"].step # "idle"
        <4>1. job["broker"] = IdleJob
          BY <3>2, IdleIs DEF PoolInv, PoolJobs
        <4>2. job["broker"].user = 0
          BY <4>1 DEF IdleJob
        <4> QED
          BY <3>2, <4>2, UserOfJob
      <3>3. CASE job["pool"].step = "idle"
        BY <3>3, IdleIs DEF PoolInv, PoolJobs
      <3> QED
        BY <3>1, <3>2, <3>3
    <2> QED
      BY <2>1, <2>2, IdleIs DEF PoolInv, PoolTypes, PoolRows, Pool!TypeOK, Pool!Kind
  <1>2. Pool(strict)!StoredPinOpens /\ Pool(strict)!OceanKeyNeedsReply /\ Pool(strict)!PoolIsUnused
    BY DEF PoolInv, Pool!StoredPinOpens, Pool!OceanKeyNeedsReply, Pool!PoolIsUnused
  <1>3. Pool(strict)!StuckNeedsLostReply
    BY DEF PoolInv, PoolJobs, JobsMatchNetwork, Pool!StuckNeedsLostReply, Pool!Stuck,
           Pool!PinRefused, Pool!KeyRefused
  <1> QED
    BY <1>1, <1>2, <1>3 DEF Sound

\* Whatever calls fail, lose their answer or repeat, and wherever the processes die, what
\* a job holds is what the network has, and its user is in no table before its last step.
THEOREM PoolInvariance == ExampleSpec => []PoolInv
  <1>1. ExampleInit => PoolInv
    BY PoolStarts DEF ExampleInit
  <1>2. ASSUME PoolInv, [ExampleNext]_exampleVars PROVE PoolInv'
    BY <1>2, PoolStepKeepsInv
  <1> QED
    BY <1>1, <1>2, PTL DEF ExampleSpec

\* The PIN and the key stored for a user are those the network and the exchange have, a
\* user in use comes back to the pool and a loop of the service gets stuck only after a
\* lost answer, for a network that refuses repeated calls and one that takes them
\* (GeneratePoolKey in example/models/pool_key.go, AddBroker in persistence/broker.go).
THEOREM PoolIsSafe == ExampleSpec => []PoolIsSound
  <1>1. PoolInv => PoolIsSound
    BY PoolIsThenSound DEF PoolIsSound
  <1> QED
    BY <1>1, PoolInvariance, PTL
=============================================================================
