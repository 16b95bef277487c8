--------------------------- MODULE AccountsProofs ---------------------------
(***************************************************************************)
(* What holds of Accounts for any number of accounts, codes, links and     *)
(* requests: the bound on guesses at a code (Counted), one holder of the   *)
(* address, the types (Sound), what is spent stays spent (Spendings), how  *)
(* old a cached state is (Fresh), and what lifts a ban or a deletion; and  *)
(* of Session for any number of tabs: who is shown is who acts.            *)
(***************************************************************************)
EXTENDS MCAccounts, TLAPS

\* The attempts a row counts are the guesses made, and a code is issued once.
Counted ==
    /\ guesses \in [Code -> 0 .. MaxAttempts]
    /\ DOMAIN codes \subseteq Code \cap issued
    /\ \A c \in DOMAIN codes : codes[c] \in [attempts : Nat, age : Age]
    /\ \A c \in DOMAIN codes : codes[c].attempts = guesses[c]
    /\ \A c \in Code \ issued : guesses[c] = 0

\* The steps that touch the codes or hand something out.
LEMMA CodeSteps ==
  ASSUME Next
  PROVE  \/ \E p \in Proc : \/ ClearCodes(p) \/ IssueCode(p) \/ Claim(p)
                            \/ Consume(p) \/ IssueLink(p) \/ Delete(p)
         \/ \E c \in DOMAIN codes : Ages(c)
         \/ UNCHANGED <<codes, guesses, issued>>
<1>1. CASE Tick
  BY <1>1 DEF Tick, tokens
<1>2. ASSUME NEW p \in Proc, Act(p)
      PROVE  \/ ClearCodes(p) \/ IssueCode(p) \/ Claim(p) \/ Consume(p) \/ IssueLink(p) \/ Delete(p)
             \/ UNCHANGED <<codes, guesses, issued>>
  <2>1. \/ BeginRequestOtp(p)
        \/ \E c \in DOMAIN codes, right \in BOOLEAN : BeginVerifyOtp(p, c, right)
        \/ ReadExisting(p) \/ BeginRegister(p) \/ Register(p)
        \/ \E a \in Created : BeginSendReset(p, a)
        \/ \E l \in DOMAIN links : BeginReset(p, l)
        \/ ReadForReset(p)
        => UNCHANGED <<codes, guesses, issued>>
    BY DEF BeginRequestOtp, BeginVerifyOtp, ReadExisting, BeginRegister, Register,
           BeginSendReset, BeginReset, ReadForReset, tokens
  <2>2. SignIn(p) \/ DropOpenLinks(p) \/ SetPassword(p) \/ MarkUsed(p) \/ DropOtherLinks(p)
        => UNCHANGED <<codes, guesses, issued>>
    BY SMTT(30) DEF SignIn, DropOpenLinks, SetPassword, MarkUsed, DropOtherLinks
  <2>3. \/ \E a \in Created : Authenticate(p, a)
        \/ Fill(p) \/ Leave(p) \/ BeginProfile(p) \/ SaveProfile(p) \/ BeginDelete(p)
        \/ \E a \in Created : BeginBan(p, a) \/ BeginUnban(p, a) \/ BeginToggle(p, a)
        \/ ReadBan(p) \/ SaveByAdmin(p) \/ Abort(p)
        => UNCHANGED <<codes, guesses, issued>>
    BY DEF Authenticate, Fill, Leave, BeginProfile, SaveProfile, BeginDelete, BeginBan,
           BeginUnban, BeginToggle, ReadBan, SaveByAdmin, Abort, tokens
  <2> QED
    BY <1>2, <2>1, <2>2, <2>3 DEF Act
<1> QED
  BY <1>1, <1>2 DEF Next, Steps

LEMMA CountedStep == Counted /\ [Next]_vars => Counted'
<1> SUFFICES ASSUME Counted, Next PROVE Counted'
  BY DEF Counted, vars
<1> USE AttemptsAssumption DEF Counted, Age
<1>1. ASSUME NEW p \in Proc, ClearCodes(p) \/ Consume(p) PROVE Counted'
  BY <1>1 DEF ClearCodes, Consume, Consumed, Without
<1>2. ASSUME NEW p \in Proc, IssueCode(p) PROVE Counted'
  BY <1>2, IdsAssumption DEF IssueCode
<1>3. ASSUME NEW p \in Proc, Claim(p) PROVE Counted'
  <2> DEFINE c == req[p].token
  <2>1. CASE Claimable(c)
    <3>1. /\ codes' = [codes EXCEPT ![c].attempts = @ + 1]
          /\ guesses' = [guesses EXCEPT ![c] = @ + 1]
          /\ issued' = issued
      BY <1>3, <2>1 DEF Claim
    <3>2. c \in DOMAIN codes /\ guesses[c] < MaxAttempts
      BY <2>1 DEF Claimable
    <3> QED
      BY <3>1, <3>2
  <2>2. CASE ~Claimable(c)
    BY <1>3, <2>2 DEF Claim, Without
  <2> QED
    BY <2>1, <2>2
<1>4. ASSUME NEW p \in Proc, IssueLink(p) PROVE Counted'
  BY <1>4, IdsAssumption DEF IssueLink
<1>5. ASSUME NEW p \in Proc, Delete(p) PROVE Counted'
  BY <1>5 DEF Delete, Without
<1>6. ASSUME NEW c \in DOMAIN codes, Ages(c) PROVE Counted'
  <2>1. \E g \in Age : codes' = [codes EXCEPT ![c].age = g]
    BY <1>6 DEF Ages
  <2> QED
    BY <1>6, <2>1 DEF Ages
<1>7. CASE UNCHANGED <<codes, guesses, issued>>
  BY <1>7
<1> QED
  BY <1>1, <1>2, <1>3, <1>4, <1>5, <1>6, <1>7, CodeSteps

\* Whatever the number of requests that guess at once, a code is compared with at most
\* OTP_MAX_ATTEMPTS guesses (the claim in verifyOtp is one UPDATE).
THEOREM GuessesBounded == Spec => []AttemptsBounded
<1>1. Init => Counted
  BY AttemptsAssumption DEF Init, Counted
<1>2. Counted => AttemptsBounded
  BY AttemptsAssumption DEF Counted, AttemptsBounded
<1> QED
  BY <1>1, <1>2, CountedStep, PTL DEF Spec

-----------------------------------------------------------------------------
\* A save leaves the address with one holder, whatever row it saves.
LEMMA SavedHolder ==
  ASSUME OneHolder, NEW a, NEW r, users' = Saved(a, r)
  PROVE  OneHolder'
  BY SMTT(30) DEF OneHolder, Holders, Created, Saved

\* The steps that write accounts.
LEMMA UsersWritten ==
  ASSUME NEW p \in Proc, Act(p)
  PROVE  \/ SignIn(p) \/ Register(p) \/ SetPassword(p) \/ SaveProfile(p) \/ SaveByAdmin(p)
         \/ Delete(p) \/ UNCHANGED users
  BY DEF Act, BeginRequestOtp, ClearCodes, IssueCode, BeginVerifyOtp, Claim, ReadExisting,
         Consume, BeginRegister, BeginSendReset, DropOpenLinks, IssueLink, BeginReset,
         ReadForReset, MarkUsed, DropOtherLinks, Authenticate, Fill, Leave, BeginProfile,
         BeginDelete, BeginBan, BeginUnban, BeginToggle, ReadBan, Abort

\* Sign-up by code or by form, and every late save, keep the address with one account.
THEOREM AddressHasOneHolder == Spec => []OneHolder
<1>1. Init => OneHolder
  BY DEF Init, OneHolder, Holders, Created
<1>2. OneHolder /\ [Next]_vars => OneHolder'
  <2> SUFFICES ASSUME OneHolder, [Next]_vars PROVE OneHolder'
    OBVIOUS
  <2>1. ASSUME NEW p \in Proc, SignIn(p) PROVE OneHolder'
    <3>1. users' = users \/ \E a, r : users' = Saved(a, r)
      BY <2>1 DEF SignIn
    <3> QED
      BY <3>1, SavedHolder DEF OneHolder, Holders, Created
  <2>2. ASSUME NEW p \in Proc, Register(p) \/ SetPassword(p) \/ SaveProfile(p) \/ SaveByAdmin(p)
        PROVE  OneHolder'
    <3>1. \E a, r : users' = Saved(a, r)
      BY <2>2 DEF Register, SetPassword, SaveProfile, SaveByAdmin
    <3> QED
      BY <3>1, SavedHolder
  <2>3. ASSUME NEW p \in Proc, Delete(p) PROVE OneHolder'
    BY <2>3 DEF Delete, Anonymized, NoRow, OneHolder, Holders, Created
  <2>4. CASE UNCHANGED users
    BY <2>4 DEF OneHolder, Holders, Created
  <2>6. CASE Steps \/ Tick \/ UNCHANGED vars
    BY <2>1, <2>2, <2>3, <2>4, <2>6, UsersWritten DEF Steps, Ages, Tick, vars
  <2> QED
    BY <2>6 DEF Next
<1> QED
  BY <1>1, <1>2, PTL DEF Spec

-----------------------------------------------------------------------------
\* What a request refers to is there: the account it found, and the code or link it came with.
Named == {"lookup", "in", "profile", "target", "ban", "unban", "role", "delete",
          "dropLinks", "issueLink", "link", "hashed", "used", "others"}
Coded == {"claim", "existing", "consume", "signIn"}
Linked == {"link", "hashed", "used", "others"}

Fits(r, accounts, handed) ==
    /\ r.who # None => r.who \in accounts
    /\ r.step \in Named => r.who # None
    /\ r.step \in Coded => r.token \in Code \cap handed
    /\ r.step \in Linked => r.token \in Link \cap handed

Requests == req \in [Proc -> Request] /\ \A p \in Proc : Fits(req[p], Created, issued)

\* The tables have their types, and nothing is in them that was not handed out.
Tables ==
    /\ Created \subseteq Account /\ \A a \in Created : users[a] \in Row
    /\ DOMAIN codes \subseteq Code \cap issued
    /\ \A c \in DOMAIN codes : codes[c] \in [attempts : Nat, age : Age]
    /\ latest \in Code \cup {None}
    /\ DOMAIN links \subseteq Link \cap issued
    /\ \A l \in DOMAIN links : links[l] \in [who : Created, state : {"open", "used"}]
    /\ cache \in [Account -> [ok : BOOLEAN, left : 0 .. Ttl]]
    /\ spent \subseteq issued /\ issued \subseteq Code \cup Link
    /\ guesses \in [Code -> Nat] /\ since \in [Account -> 0 .. Ttl + 1]

Sound == Requests /\ Tables

\* Accounts stay, and what was handed out was.
Grows == Created \subseteq Created' /\ issued \subseteq issued'

LEMMA Moves ==
  ASSUME Requests, Grows, NEW p \in Proc, NEW r \in Request, req' = [req EXCEPT ![p] = r],
         Fits(r, Created', issued')
  PROVE  Requests'
  BY DEF Requests, Grows, Fits

\* A request that ends, one that goes on, and one that goes on with another row.
LEMMA Plain ==
  ASSUME Requests, Grows, NEW p \in Proc
  PROVE  /\ Ends(p) => Requests'
         /\ \A s \in Step :
              Goes(p, s) /\ Fits([req[p] EXCEPT !.step = s], Created', issued') => Requests'
         /\ \A s \in Step, row \in Row :
              /\ req' = [req EXCEPT ![p].step = s, ![p].row = row]
              /\ Fits([req[p] EXCEPT !.step = s, !.row = row], Created', issued')
              => Requests'
<1>1. Idle \in Request /\ Fits(Idle, Created', issued')
  BY TtlAssumption DEF Idle, Request, NoRow, Row, Fits, Named, Coded, Linked
<1>2. req[p] \in Request
  BY DEF Requests
<1>3. \A s \in Step : /\ [req[p] EXCEPT !.step = s] \in Request
                      /\ [req EXCEPT ![p].step = s] = [req EXCEPT ![p] = [req[p] EXCEPT !.step = s]]
  BY <1>2 DEF Request, Requests
<1>4. \A s \in Step, row \in Row :
        /\ [req[p] EXCEPT !.step = s, !.row = row] \in Request
        /\ [req EXCEPT ![p].step = s, ![p].row = row] = [req EXCEPT ![p] = [req[p] EXCEPT !.step = s, !.row = row]]
  BY <1>2 DEF Request, Requests
<1>5. Ends(p) => Requests'
  BY <1>1, Moves DEF Ends
<1>6. ASSUME NEW s \in Step, Goes(p, s), Fits([req[p] EXCEPT !.step = s], Created', issued') PROVE Requests'
  <2> DEFINE r == [req[p] EXCEPT !.step = s]
  <2>1. r \in Request /\ req' = [req EXCEPT ![p] = r] /\ Fits(r, Created', issued')
    BY <1>3, <1>6 DEF Goes
  <2> HIDE DEF r
  <2> QED BY <2>1, Moves
<1>7. ASSUME NEW s \in Step, NEW row \in Row, req' = [req EXCEPT ![p].step = s, ![p].row = row],
             Fits([req[p] EXCEPT !.step = s, !.row = row], Created', issued')
      PROVE  Requests'
  <2> DEFINE r == [req[p] EXCEPT !.step = s, !.row = row]
  <2>1. r \in Request /\ req' = [req EXCEPT ![p] = r] /\ Fits(r, Created', issued')
    BY <1>4, <1>7
  <2> HIDE DEF r
  <2> QED BY <2>1, Moves
<1> QED
  BY <1>5, <1>6, <1>7

\* What a save writes: the row of one account, or nothing.
LEMMA SavedRows ==
  ASSUME Tables, NEW a \in Account, NEW r \in Row
  PROVE  /\ Created \subseteq DOMAIN Saved(a, r) /\ DOMAIN Saved(a, r) \subseteq Account
         /\ \A x \in DOMAIN Saved(a, r) : Saved(a, r)[x] \in Row
         /\ \A x \in Created \ {a} : Saved(a, r)[x] = users[x]
         /\ a \in Created => DOMAIN Saved(a, r) = Created /\ Saved(a, r)[a] \in {users[a], r}
  BY DEF Saved, Tables, Created
LEMMA SinceTyped ==
  ASSUME Tables, Since
  PROVE  since' \in [Account -> 0 .. Ttl + 1]
  BY TtlAssumption DEF Tables, Since

\* A request that begins.
LEMMA Begun ==
  ASSUME Requests, Grows, NEW p \in Proc, NEW r \in Request, Starts(p, r), Fits(r, Created', issued')
  PROVE  Requests'
  BY Moves DEF Starts

LEMMA SoundBegins ==
  ASSUME Sound, NEW p \in Proc,
         \/ BeginRequestOtp(p)
         \/ \E c \in DOMAIN codes, right \in BOOLEAN : BeginVerifyOtp(p, c, right)
         \/ BeginRegister(p)
         \/ \E a \in Created : BeginSendReset(p, a)
         \/ \E l \in DOMAIN links : BeginReset(p, l)
         \/ \E a \in Created : Authenticate(p, a)
         \/ \E a \in Created : BeginBan(p, a) \/ BeginUnban(p, a) \/ BeginToggle(p, a)
  PROVE  Requests' /\ UNCHANGED <<users, cache, tokens>>
<1> USE IdsAssumption, TtlAssumption DEF Sound
<1>1. ASSUME UNCHANGED <<users, cache, tokens>> PROVE Grows
  BY <1>1 DEF Grows, Created, tokens
<1>2. Idle \in Request
  BY DEF Idle, Request, NoRow, Row
<1>3. CASE BeginRequestOtp(p)
  <2>1. [Idle EXCEPT !.step = "clear"] \in Request /\ Fits([Idle EXCEPT !.step = "clear"], Created', issued')
    BY <1>2 DEF Idle, Request, Step, Fits, Named, Coded, Linked
  <2> QED
    BY <1>1, <1>3, <2>1, Begun DEF BeginRequestOtp
<1>4. ASSUME NEW c \in DOMAIN codes, NEW right \in BOOLEAN, BeginVerifyOtp(p, c, right)
      PROVE  Requests' /\ UNCHANGED <<users, cache, tokens>>
  <2> DEFINE r == [Idle EXCEPT !.step = "claim", !.token = c, !.right = right]
  <2>1. UNCHANGED <<users, cache, tokens>> /\ Starts(p, r)
    BY <1>4 DEF BeginVerifyOtp
  <2>2. c \in Code \cap issued'
    BY <2>1 DEF Tables, tokens
  <2>3. r \in Request /\ Fits(r, Created', issued')
    BY <1>2, <2>2 DEF Idle, Request, Step, Fits, Named, Coded, Linked
  <2> HIDE DEF r
  <2> QED
    BY <1>1, <2>1, <2>3, Begun
<1>5. CASE BeginRegister(p)
  <2>1. [Idle EXCEPT !.step = "register"] \in Request /\ Fits([Idle EXCEPT !.step = "register"], Created', issued')
    BY <1>2 DEF Idle, Request, Step, Fits, Named, Coded, Linked
  <2> QED
    BY <1>1, <1>5, <2>1, Begun DEF BeginRegister
<1>6. ASSUME NEW a \in Created, NEW s \in {"dropLinks", "in", "target"},
             Starts(p, [Idle EXCEPT !.step = s, !.who = a]), UNCHANGED <<users, cache, tokens>>
      PROVE  Requests'
  <2> DEFINE r == [Idle EXCEPT !.step = s, !.who = a]
  <2>1. a \in Account /\ a \in Created' /\ a # None
    BY <1>6 DEF Tables, Created
  <2>2. r \in Request /\ Fits(r, Created', issued')
    BY <1>2, <2>1 DEF Idle, Request, Step, Fits, Named, Coded, Linked
  <2> HIDE DEF r
  <2> QED
    BY <1>1, <1>6, <2>2, Begun DEF r
<1>7. ASSUME NEW a \in Created, NEW s \in {"unban", "role"},
             Starts(p, [Idle EXCEPT !.step = s, !.who = a, !.row = users[a]]), UNCHANGED <<users, cache, tokens>>
      PROVE  Requests'
  <2> DEFINE r == [Idle EXCEPT !.step = s, !.who = a, !.row = users[a]]
  <2>1. a \in Account /\ a \in Created' /\ a # None /\ users[a] \in Row
    BY <1>7 DEF Tables, Created
  <2>2. r \in Request /\ Fits(r, Created', issued')
    BY <1>2, <2>1 DEF Idle, Request, Step, Fits, Named, Coded, Linked
  <2> HIDE DEF r
  <2> QED
    BY <1>1, <1>7, <2>2, Begun DEF r
<1>8. ASSUME NEW l \in DOMAIN links, BeginReset(p, l)
      PROVE  Requests' /\ UNCHANGED <<users, cache, tokens>>
  <2> DEFINE r == [Idle EXCEPT !.step = "link", !.token = l, !.who = links[l].who]
  <2>1. UNCHANGED <<users, cache, tokens>> /\ Starts(p, r)
    BY <1>8 DEF BeginReset
  <2>2. l \in Link \cap issued' /\ links[l].who \in Account /\ links[l].who \in Created' /\ links[l].who # None
    BY <2>1 DEF Tables, tokens, Created
  <2>3. r \in Request /\ Fits(r, Created', issued')
    BY <1>2, <2>2 DEF Idle, Request, Step, Fits, Named, Coded, Linked
  <2> HIDE DEF r
  <2> QED
    BY <1>1, <2>1, <2>3, Begun
<1>9. ASSUME NEW a \in Created, Authenticate(p, a)
      PROVE  Requests' /\ UNCHANGED <<users, cache, tokens>>
  <2> DEFINE r == [Idle EXCEPT !.step = "lookup", !.who = a, !.row = users[a], !.left = Ttl]
  <2>1. a \in Account /\ a \in Created' /\ a # None /\ users[a] \in Row
    BY <1>9 DEF Tables, Created, Authenticate
  <2> r \in [step: {"lookup"}, who: {a}, row: {users[a]}, token: {None}, right: {FALSE}, left: {Ttl}]
    BY DEF Idle
  <2> Ttl \in 0 .. Ttl
    OBVIOUS
  <2> HIDE DEF r
  <2>2. r \in Request /\ Fits(r, Created', issued')
    BY <2>1 DEF Request, Step, Fits, Named, Coded, Linked
  <2>3. UNCHANGED <<users, cache, tokens>> /\ (Starts(p, r) \/ Starts(p, [Idle EXCEPT !.step = "in", !.who = a]))
    BY <1>9 DEF Authenticate, r
  <2> QED
    BY <1>1, <1>6, <2>2, <2>3, Begun
<1> QED
  BY <1>1, <1>3, <1>4, <1>5, <1>6, <1>7, <1>8, <1>9
     DEF BeginRequestOtp, BeginRegister, BeginSendReset, BeginBan, BeginUnban, BeginToggle
\* A request that goes on without a change of the tables, or ends.
LEMMA SoundGoesOn ==
  ASSUME Sound, NEW p \in Proc,
         \/ ReadExisting(p) \/ ReadForReset(p) \/ Leave(p) \/ BeginProfile(p) \/ BeginDelete(p)
         \/ ReadBan(p) \/ Abort(p)
  PROVE  Requests' /\ UNCHANGED <<users, cache, tokens>>
<1> USE IdsAssumption DEF Sound
<1>1. UNCHANGED <<users, cache, tokens>> /\ Grows
  BY DEF ReadExisting, ReadForReset, Leave, BeginProfile, BeginDelete, ReadBan, Abort, Grows, Created, tokens
<1>2. req[p] \in Request /\ Fits(req[p], Created', issued')
  BY <1>1 DEF Requests, Grows, Fits
<1>3. CASE ReadExisting(p) /\ ~Ends(p)
  <2>1. PICK a \in IF Holders = {} THEN {None} ELSE Holders :
          req' = [req EXCEPT ![p].step = "consume", ![p].who = a, ![p].row = RowOf(a)]
    BY <1>3 DEF ReadExisting
  <2> DEFINE r == [req[p] EXCEPT !.step = "consume", !.who = a, !.row = RowOf(a)]
  <2>2. (a = None \/ a \in Created) /\ a \in Account \cup {None} /\ RowOf(a) \in Row
    BY DEF Tables, Holders, Created, RowOf, NoRow, Row
  <2>3. req' = [req EXCEPT ![p] = r]
    BY <1>2, <2>1 DEF Requests, Request
  <2>4. r \in Request /\ r.who = a /\ r.step = "consume" /\ r.token = req[p].token
    BY <1>2, <2>2 DEF Request, Step
  <2>5. Fits(r, Created', issued')
    BY <1>1, <1>2, <1>3, <2>2, <2>4 DEF Fits, Named, Coded, Linked, Created, ReadExisting, At
  <2> HIDE DEF r
  <2> QED
    BY <1>1, <2>3, <2>4, <2>5, Moves
<1>4. ASSUME NEW s \in {"hashed", "profile", "delete", "ban"}, NEW row \in Row,
             req' = [req EXCEPT ![p].step = s, ![p].row = row], req[p].who \in Created,
             s = "hashed" => At(p, "link")
      PROVE  Requests'
  <2> DEFINE r == [req[p] EXCEPT !.step = s, !.row = row]
  <2>1. r \in Request /\ r.who = req[p].who /\ r.token = req[p].token /\ r.step = s
    BY <1>2 DEF Request, Step
  <2>2. Fits(r, Created', issued')
    BY <1>1, <1>2, <1>4, <2>1 DEF Fits, Named, Coded, Linked, At, Created, Tables
  <2> HIDE DEF r
  <2> QED
    BY <1>1, <1>4, <2>1, <2>2, Plain DEF r, Step
<1>5. req[p].step \in Named => req[p].who \in Created /\ users[req[p].who] \in Row
  BY <1>1, <1>2 DEF Fits, Tables, Created
<1>6. Ends(p) => Requests'
  BY <1>1, Plain
<1>7. CASE ReadForReset(p)
  BY <1>4, <1>5, <1>6, <1>7 DEF ReadForReset, At, Named
<1>8. CASE BeginProfile(p) \/ BeginDelete(p) \/ ReadBan(p)
  BY <1>4, <1>5, <1>6, <1>8 DEF BeginProfile, BeginDelete, ReadBan, At, Named
<1> QED
  BY <1>1, <1>3, <1>6, <1>7, <1>8 DEF Leave, Abort
\* Codes are written.
LEMMA SoundCodes ==
  ASSUME Sound, Since, NEW p \in Proc, ClearCodes(p) \/ IssueCode(p) \/ Claim(p) \/ Consume(p)
  PROVE  Sound'
<1> USE IdsAssumption DEF Sound
<1>2. UNCHANGED <<users, links, cache, spent>> /\ issued \subseteq issued' /\ Grows
  BY DEF ClearCodes, IssueCode, Claim, Consume, Grows, Created
<1>3. req[p] \in Request /\ Fits(req[p], Created', issued')
  BY <1>2 DEF Requests, Grows, Fits
<1>4. ASSUME NEW s \in {"issue", "existing", "signIn"}, Goes(p, s), s # "issue" => req[p].step \in Coded
      PROVE  Requests'
  <2> DEFINE r == [req[p] EXCEPT !.step = s]
  <2>1. r.who = req[p].who /\ r.token = req[p].token /\ r.step = s
    BY <1>3 DEF Request
  <2>2. Fits(r, Created', issued')
    BY <1>3, <1>4, <2>1 DEF Fits, Named, Coded, Linked
  <2> HIDE DEF r
  <2> QED
    BY <1>2, <1>4, <2>2, Plain DEF r, Step
<1>5. Ends(p) => Requests'
  BY <1>2, Plain
<1>6. Requests'
  BY <1>4, <1>5 DEF ClearCodes, IssueCode, Claim, Consume, At, Coded
<1>7. since' \in [Account -> 0 .. Ttl + 1]
  BY SinceTyped
<1>8. ASSUME UNCHANGED <<latest, issued, guesses>>, DOMAIN codes' \subseteq DOMAIN codes,
             \A c \in DOMAIN codes' : codes'[c] = codes[c]
      PROVE  Tables'
  BY <1>2, <1>7, <1>8 DEF Tables, Created
<1>9. CASE ClearCodes(p) \/ Consume(p)
  BY <1>6, <1>8, <1>9 DEF ClearCodes, Consume, Without, Consumed
<1>10. CASE IssueCode(p)
  <2>1. PICK c \in Code \ issued :
          /\ codes' = [x \in DOMAIN codes \cup {c} |->
                         IF x = c THEN [attempts |-> 0, age |-> "fresh"] ELSE codes[x]]
          /\ latest' = c /\ issued' = issued \cup {c}
    BY <1>10 DEF IssueCode
  <2>2. guesses' = guesses
    BY <1>10 DEF IssueCode
  <2> QED
    BY <1>2, <1>6, <1>7, <2>1, <2>2 DEF Tables, Created, Age
<1>11. CASE Claim(p)
  <2> DEFINE c == req[p].token
  <2>1. CASE Claimable(c)
    <3>1. /\ codes' = [codes EXCEPT ![c].attempts = @ + 1] /\ guesses' = [guesses EXCEPT ![c] = @ + 1]
          /\ UNCHANGED <<latest, issued>> /\ c \in DOMAIN codes
      BY <1>11, <2>1 DEF Claim, Claimable
    <3> QED
      BY <1>2, <1>6, <1>7, <3>1 DEF Tables, Created
  <2>2. CASE ~Claimable(c)
    BY <1>6, <1>8, <1>11, <2>2 DEF Claim, Without
  <2> QED
    BY <2>1, <2>2
<1> QED
  BY <1>9, <1>10, <1>11

\* Links are written.
LEMMA SoundLinks ==
  ASSUME Sound, Since, NEW p \in Proc, DropOpenLinks(p) \/ IssueLink(p) \/ MarkUsed(p) \/ DropOtherLinks(p)
  PROVE  Sound'
<1> USE IdsAssumption DEF Sound
<1>2. UNCHANGED <<users, codes, latest, cache, spent, guesses>> /\ issued \subseteq issued' /\ Grows
  BY DEF DropOpenLinks, IssueLink, MarkUsed, DropOtherLinks, Grows, Created
<1>3. req[p] \in Request /\ Fits(req[p], Created', issued')
  BY <1>2 DEF Requests, Grows, Fits
<1>4. ASSUME NEW s \in {"issueLink", "others"}, Goes(p, s), req[p].step \in Named,
             s = "others" => req[p].step \in Linked
      PROVE  Requests'
  <2> DEFINE r == [req[p] EXCEPT !.step = s]
  <2>1. r.who = req[p].who /\ r.token = req[p].token /\ r.step = s
    BY <1>3 DEF Request
  <2>2. Fits(r, Created', issued')
    BY <1>3, <1>4, <2>1 DEF Fits, Named, Coded, Linked
  <2> HIDE DEF r
  <2> QED
    BY <1>2, <1>4, <2>2, Plain DEF r, Step
<1>5. Ends(p) => Requests'
  BY <1>2, Plain
<1>6. Requests'
  BY <1>4, <1>5 DEF DropOpenLinks, IssueLink, MarkUsed, DropOtherLinks, At, Named, Linked
<1>7. since' \in [Account -> 0 .. Ttl + 1]
  BY SinceTyped
<1>8. ASSUME issued' = issued, DOMAIN links' \subseteq DOMAIN links, \A l \in DOMAIN links' : links'[l] = links[l]
      PROVE  Tables'
  BY <1>2, <1>7, <1>8 DEF Tables, Created
<1>9. CASE DropOpenLinks(p) \/ DropOtherLinks(p)
  BY <1>6, <1>8, <1>9 DEF DropOpenLinks, DropOtherLinks, Without
<1>10. req[p].step \in Named => req[p].who \in Created
  BY <1>2, <1>3 DEF Fits, Created
<1>11. ASSUME NEW l \in Link, NEW s \in {"open", "used"}, l \in issued', issued' \subseteq issued \cup {l},
              links' = [x \in DOMAIN links \cup {l} |-> IF x = l THEN [who |-> req[p].who, state |-> s] ELSE links[x]],
              req[p].who \in Created
       PROVE  Tables'
  <2>1. DOMAIN links' \subseteq Link \cap issued'
    BY <1>2, <1>11 DEF Tables
  <2>2. \A x \in DOMAIN links' : links'[x] \in [who : Created', state : {"open", "used"}]
    BY <1>2, <1>11 DEF Tables, Created
  <2> QED
    BY <1>2, <1>7, <1>11, <2>1, <2>2 DEF Tables, Created
<1>12. CASE IssueLink(p)
  BY <1>6, <1>10, <1>11, <1>12 DEF IssueLink, At, Named
<1>13. CASE MarkUsed(p)
  <2>1. req[p].token \in Link \cap issued /\ req[p].who \in Created /\ issued' = issued
    BY <1>2, <1>3, <1>10, <1>13 DEF MarkUsed, At, Fits, Linked, Named
  <2> QED
    BY <1>6, <1>11, <1>13, <2>1 DEF MarkUsed, Used
<1> QED
  BY <1>9, <1>12, <1>13
\* A row of users is written: a new one, or one that is there.
LEMMA RowWritten ==
  ASSUME Tables, NEW a \in Account, NEW r \in Row, users' = Saved(a, r) \/ users' = users
  PROVE  /\ Created \subseteq Created' /\ Created' \subseteq Account
         /\ \A x \in Created' : users'[x] \in Row
  BY SavedRows DEF Tables, Created

LEMMA SoundUsers ==
  ASSUME Sound, Since, NEW p \in Proc,
         SignIn(p) \/ Register(p) \/ SetPassword(p) \/ SaveProfile(p) \/ SaveByAdmin(p) \/ Delete(p)
  PROVE  Sound'
<1> USE IdsAssumption DEF Sound
<1>1. /\ req[p] \in Request /\ req[p].row \in Row
      /\ req[p].step \in Named => req[p].who \in Created /\ req[p].who \in Account
      /\ req[p].step \in Coded => req[p].token \in issued
      /\ req[p].step \in Linked => req[p].token \in issued
      /\ req[p].who # None => req[p].who \in Account
  BY DEF Requests, Fits, Tables, Request
<1>2. UNCHANGED <<latest, cache, guesses, issued>>
  BY DEF SignIn, Register, SetPassword, SaveProfile, SaveByAdmin, Delete, tokens
<1>3. /\ Created \subseteq Created' /\ Created' \subseteq Account
      /\ \A x \in Created' : users'[x] \in Row
  <2>1. CASE SignIn(p)
    <3>1. users' = users \/ \E a \in Account, r \in Row : users' = Saved(a, r)
      <4>1. [NoRow EXCEPT !.deleted = FALSE, !.verified = TRUE] \in Row
        BY DEF NoRow, Row
      <4>2. [req[p].row EXCEPT !.verified = TRUE] \in Row
        BY <1>1 DEF Row
      <4>3. CASE req[p].who = None
        <5>1. users' = users \/ \E a \in Account : users' = Saved(a, [NoRow EXCEPT !.deleted = FALSE, !.verified = TRUE])
          BY <2>1, <4>3 DEF SignIn
        <5> QED
          BY <4>1, <5>1
      <4>4. CASE req[p].who # None
        <5>1. users' = users \/ users' = Saved(req[p].who, [req[p].row EXCEPT !.verified = TRUE])
          BY <2>1, <4>4 DEF SignIn
        <5> QED
          BY <1>1, <4>2, <4>4, <5>1
      <4> QED
        BY <4>3, <4>4
    <3>2. CASE users' = users
      BY <3>2 DEF Tables, Created
    <3>3. ASSUME NEW a \in Account, NEW r \in Row, users' = Saved(a, r)
          PROVE  /\ Created \subseteq Created' /\ Created' \subseteq Account
                 /\ \A x \in Created' : users'[x] \in Row
      BY <3>3, RowWritten
    <3> QED
      BY <3>1, <3>2, <3>3
  <2>2. CASE Register(p)
    <3>1. [NoRow EXCEPT !.deleted = FALSE, !.password = "first"] \in Row
      BY DEF NoRow, Row
    <3> QED
      BY <2>2, <3>1, RowWritten DEF Register
  <2>3. CASE SetPassword(p)
    <3>1. [req[p].row EXCEPT !.password = "reset", !.verified = TRUE] \in Row
      BY <1>1 DEF Row
    <3> QED
      BY <1>1, <2>3, <3>1, RowWritten DEF SetPassword, At, Named
  <2>4. CASE SaveProfile(p)
    BY <1>1, <2>4, RowWritten DEF SaveProfile, At, Named
  <2>5. CASE SaveByAdmin(p)
    <3>1. [req[p].row EXCEPT !.admin = ~@] \in Row /\ [req[p].row EXCEPT !.banned = At(p, "ban")] \in Row
      BY <1>1 DEF Row, At
    <3>2. req[p].who \in Account
      BY <1>1, <2>5 DEF SaveByAdmin, Named
    <3> QED
      BY <2>5, <3>1, <3>2, RowWritten DEF SaveByAdmin
  <2>6. CASE Delete(p)
    <3>1. users' = [users EXCEPT ![req[p].who] = Anonymized(@)] /\ req[p].who \in Created
      BY <1>1, <2>6 DEF Delete, At, Named
    <3>2. \A r \in Row : Anonymized(r) \in Row
      BY DEF Anonymized, NoRow, Row
    <3> QED
      BY <3>1, <3>2 DEF Tables, Created
  <2> QED
    BY <2>1, <2>2, <2>3, <2>4, <2>5, <2>6
<1>4. Grows
  BY <1>2, <1>3 DEF Grows
<1>5. Requests'
  <2>1. CASE SetPassword(p)
    <3> DEFINE r == [req[p] EXCEPT !.step = "used"]
    <3>1. r.who = req[p].who /\ r.token = req[p].token /\ r.step = "used"
      BY <1>1 DEF Request
    <3>2. Fits(req[p], Created, issued) /\ req[p].step = "hashed"
      BY <2>1 DEF Requests, SetPassword, At
    <3>3. Fits(r, Created', issued')
      BY <1>3, <1>2, <3>1, <3>2 DEF Fits, Named, Coded, Linked
    <3> HIDE DEF r
    <3> QED
      BY <1>4, <2>1, <3>3, Plain DEF r, Step, SetPassword
  <2>2. CASE ~SetPassword(p)
    BY <1>4, <2>2, Plain DEF SignIn, Register, SaveProfile, SaveByAdmin, Delete
  <2> QED
    BY <2>1, <2>2
<1>6. since' \in [Account -> 0 .. Ttl + 1]
  BY SinceTyped
<1>7. /\ DOMAIN codes' \subseteq DOMAIN codes /\ \A c \in DOMAIN codes' : codes'[c] = codes[c]
      /\ DOMAIN links' \subseteq DOMAIN links /\ \A l \in DOMAIN links' : links'[l] = links[l]
  BY DEF SignIn, Register, SetPassword, SaveProfile, SaveByAdmin, Delete, Without, tokens
<1>8. spent' \subseteq issued'
  BY <1>1, <1>2 DEF SignIn, Register, SetPassword, SaveProfile, SaveByAdmin, Delete, tokens, At, Coded, Linked, Tables
<1>9. \A l \in DOMAIN links' : links'[l] \in [who : Created', state : {"open", "used"}]
  BY <1>3, <1>7 DEF Tables
<1>10. Tables'
  BY <1>2, <1>3, <1>6, <1>7, <1>8, <1>9 DEF Tables
<1> QED
  BY <1>5, <1>10

\* The answer of a lookup is cached, and time passes.
LEMMA SoundTime ==
  ASSUME Sound, (\E p \in Proc : Fill(p) /\ Since) \/ Tick \/ (\E c \in DOMAIN codes : Ages(c) /\ Since)
  PROVE  Sound'
<1> USE IdsAssumption, TtlAssumption DEF Sound
<1>1. UNCHANGED <<users, latest, links, spent, guesses, issued>> /\ Grows
  BY DEF Fill, Tick, Ages, tokens, Grows, Created
<1>2. ASSUME NEW p \in Proc, Fill(p), Since PROVE Sound'
  <2>1. req[p] \in Request /\ Fits(req[p], Created', issued') /\ req[p].who \in Account
    BY <1>1, <1>2 DEF Requests, Grows, Fits, Fill, At, Named, Tables
  <2> DEFINE r == [req[p] EXCEPT !.step = "in"]
  <2>2. r.who = req[p].who /\ r.token = req[p].token /\ r.step = "in"
    BY <2>1 DEF Request
  <2>3. Fits(r, Created', issued')
    BY <1>2, <2>1, <2>2, SMTT(30) DEF Fits, Named, Coded, Linked, Fill, At
  <2> HIDE DEF r
  <2>4. Requests'
    BY <1>1, <1>2, <2>3, Plain DEF r, Step, Fill
  <2>5. Allowed(req[p].row) \in BOOLEAN /\ Remaining(p) \in 0 .. Ttl
    BY <2>1 DEF Allowed, Remaining, Request
  <2>6. cache' \in [Account -> [ok : BOOLEAN, left : 0 .. Ttl]] /\ codes' = codes
    BY <1>2, <2>1, <2>5 DEF Fill, Tables, tokens
  <2>7. since' \in [Account -> 0 .. Ttl + 1]
    BY <1>2, SinceTyped
  <2> QED
    BY <1>1, <2>4, <2>6, <2>7 DEF Tables, Created
<1>3. CASE Tick
  <2>1. \A n \in 0 .. Ttl : Less(n) \in 0 .. Ttl
    BY DEF Less
  <2>2. cache' \in [Account -> [ok : BOOLEAN, left : 0 .. Ttl]] /\ codes' = codes
    BY <1>3, <2>1 DEF Tick, Tables, tokens
  <2>3. since' \in [Account -> 0 .. Ttl + 1]
    BY <1>3 DEF Tick, Tables
  <2>4. ASSUME NEW p \in Proc
        PROVE  /\ req'[p] \in Request /\ req'[p].step = req[p].step /\ req'[p].who = req[p].who
               /\ req'[p].token = req[p].token
    <3>1. req[p] \in Request /\ req'[p] = [req[p] EXCEPT !.left = Less(@)]
      BY <1>3 DEF Tick, Requests
    <3> QED
      BY <2>1, <3>1 DEF Request
  <2>5. req' \in [Proc -> Request]
    BY <1>3, <2>4 DEF Tick
  <2>6. Requests'
    BY <1>1, <2>4, <2>5 DEF Requests, Fits, Created
  <2> QED
    BY <1>1, <2>2, <2>3, <2>6 DEF Tables, Created
<1>4. ASSUME NEW c \in DOMAIN codes, Ages(c), Since PROVE Sound'
  <2>1. \E g \in Age : codes' = [codes EXCEPT ![c].age = g]
    BY <1>4 DEF Ages, Age
  <2>2. since' \in [Account -> 0 .. Ttl + 1] /\ cache' = cache /\ req' = req
    BY <1>4, SinceTyped DEF Ages
  <2> QED
    BY <1>1, <2>1, <2>2 DEF Tables, Created, Requests
<1> QED
  BY <1>2, <1>3, <1>4

LEMMA SoundStep == Sound /\ [Next]_vars => Sound'
<1> SUFFICES ASSUME Sound, [Next]_vars PROVE Sound'
  OBVIOUS
<1>1. ASSUME Requests', Since, UNCHANGED <<users, cache, tokens>> PROVE Sound'
  BY <1>1, SinceTyped DEF Sound, Tables, Created, tokens
<1>2. CASE UNCHANGED vars
  BY <1>2 DEF Sound, Requests, Tables, Created, vars
<1>3. ASSUME NEW p \in Proc, Act(p), Since PROVE Sound'
  <2>1. CASE ClearCodes(p) \/ IssueCode(p) \/ Claim(p) \/ Consume(p)
    BY <1>3, <2>1, SoundCodes
  <2>2. CASE DropOpenLinks(p) \/ IssueLink(p) \/ MarkUsed(p) \/ DropOtherLinks(p)
    BY <1>3, <2>2, SoundLinks
  <2>3. CASE SignIn(p) \/ Register(p) \/ SetPassword(p) \/ SaveProfile(p) \/ SaveByAdmin(p) \/ Delete(p)
    BY <1>3, <2>3, SoundUsers
  <2>4. CASE \/ BeginRequestOtp(p)
             \/ \E c \in DOMAIN codes, right \in BOOLEAN : BeginVerifyOtp(p, c, right)
             \/ BeginRegister(p)
             \/ \E a \in Created : BeginSendReset(p, a)
             \/ \E l \in DOMAIN links : BeginReset(p, l)
             \/ \E a \in Created : Authenticate(p, a)
             \/ \E a \in Created : BeginBan(p, a) \/ BeginUnban(p, a) \/ BeginToggle(p, a)
    BY <1>1, <1>3, <2>4, SoundBegins
  <2>5. CASE \/ ReadExisting(p) \/ ReadForReset(p) \/ Leave(p) \/ BeginProfile(p) \/ BeginDelete(p)
             \/ ReadBan(p) \/ Abort(p)
    BY <1>1, <1>3, <2>5, SoundGoesOn
  <2>6. CASE Fill(p)
    BY <1>3, <2>6, SoundTime
  <2> QED
    BY <1>3, <2>1, <2>2, <2>3, <2>4, <2>5, <2>6 DEF Act
<1>4. CASE Tick
  BY <1>4, SoundTime
<1>5. ASSUME NEW c \in DOMAIN codes, Ages(c), Since PROVE Sound'
  BY <1>5, SoundTime
<1> QED
  BY <1>2, <1>3, <1>4, <1>5 DEF Next, Steps

\* The tables keep their types and never name an account, a code or a link that was not
\* handed out, whatever requests interleave (the statements of auth and users.service).
THEOREM TypeCorrect == Spec => []TypeOK
<1>1. Init => Sound
  BY IdsAssumption, TtlAssumption
     DEF Init, Sound, Requests, Tables, Created, Fits, Named, Coded, Linked, Idle, Request, NoRow, Row
<1>2. Sound => TypeOK
  BY DEF Sound, Requests, Tables, TypeOK
<1> QED
  BY <1>1, <1>2, SoundStep, PTL DEF Spec

-----------------------------------------------------------------------------
\* A request about to sign in has deleted its code, and nobody gets that one again.
Claimed == \A p \in Proc : At(p, "signIn") => req[p].token \notin DOMAIN codes
Spendings == SpentStaysSpent /\ Claimed

\* A step of one request that neither gets to the sign-in nor leaves a link to be marked.
Elsewhere(p) ==
    /\ \A q \in Proc \ {p} : req'[q] = req[q]
    /\ req'[p].step # "signIn"
    /\ At(p, "used") => "abort" \in ops

\* A step after which a request looks up an account was its authentication.
LooksUp(p) ==
    /\ \A q \in Proc \ {p} : req'[q] = req[q]
    /\ req'[p].step = "lookup" => \E a \in Created : Authenticate(p, a)

LEMMA SpendingsElsewhere ==
  ASSUME Sound, Spendings, NEW p \in Proc, Elsewhere(p), ops' = ops, spent' = spent,
         DOMAIN codes' \subseteq DOMAIN codes \cup (Code \ issued),
         \A l \in DOMAIN links' \cap issued : l \in DOMAIN links /\ links'[l] = links[l]
  PROVE  Spendings'
<1> USE IdsAssumption DEF Sound
<1>1. SpentCodesAreGone'
  BY DEF Spendings, SpentStaysSpent, SpentCodesAreGone, Tables
<1>2. Claimed'
  BY DEF Spendings, Claimed, At, Elsewhere, Requests, Fits, Coded
<1>3. SpentLinksAreUsed'
  BY DEF Spendings, SpentStaysSpent, SpentLinksAreUsed, At, Elsewhere, Tables
<1> QED
  BY <1>1, <1>2, <1>3 DEF Spendings, SpentStaysSpent

LEMMA StepsElsewhere ==
  ASSUME Sound, NEW p \in Proc, Act(p), ~Consume(p), ~SignIn(p), ~SetPassword(p), ~MarkUsed(p)
  PROVE  Elsewhere(p) /\ LooksUp(p) /\ spent' = spent
<1> USE DEF Elsewhere, LooksUp, At, Sound
<1>1. req \in [Proc -> Request]
  BY DEF Requests
<1>3. ASSUME Ends(p), At(p, "used") => "abort" \in ops PROVE Elsewhere(p) /\ LooksUp(p)
  BY <1>1, <1>3 DEF Ends, Idle
<1>4. ASSUME NEW s, Goes(p, s), s \notin {"signIn", "lookup"}, ~At(p, "used") PROVE Elsewhere(p) /\ LooksUp(p)
  BY <1>1, <1>4 DEF Goes, Request
<1>5. CASE \/ BeginRequestOtp(p)
           \/ \E c \in DOMAIN codes, right \in BOOLEAN : BeginVerifyOtp(p, c, right)
           \/ BeginRegister(p)
           \/ \E a \in Created : BeginSendReset(p, a)
           \/ \E l \in DOMAIN links : BeginReset(p, l)
           \/ \E a \in Created : Authenticate(p, a)
           \/ \E a \in Created : BeginBan(p, a) \/ BeginUnban(p, a) \/ BeginToggle(p, a)
  <2>1. ASSUME NEW r, Starts(p, r), r.step # "signIn", r.step = "lookup" => \E a \in Created : Authenticate(p, a)
        PROVE  Elsewhere(p) /\ LooksUp(p)
    BY <1>1, <2>1 DEF Starts
  <2>2. CASE \/ BeginRequestOtp(p) \/ BeginRegister(p)
             \/ \E c \in DOMAIN codes, right \in BOOLEAN : BeginVerifyOtp(p, c, right)
    BY <2>1, <2>2 DEF BeginRequestOtp, BeginVerifyOtp, BeginRegister, Idle, tokens
  <2>3. CASE \/ \E a \in Created : BeginSendReset(p, a)
             \/ \E l \in DOMAIN links : BeginReset(p, l)
    BY <2>1, <2>3 DEF BeginSendReset, BeginReset, Idle, tokens
  <2>5. ASSUME NEW a \in Created, Authenticate(p, a) PROVE Elsewhere(p) /\ LooksUp(p) /\ spent' = spent
    <3>4. \/ Starts(p, [Idle EXCEPT !.step = "in", !.who = a])
          \/ Starts(p, [Idle EXCEPT !.step = "lookup", !.who = a, !.row = users[a], !.left = Ttl])
      BY <2>5 DEF Authenticate
    <3>5. /\ [Idle EXCEPT !.step = "in", !.who = a].step = "in"
          /\ [Idle EXCEPT !.step = "lookup", !.who = a, !.row = users[a], !.left = Ttl].step = "lookup"
      BY DEF Idle
    <3>1. \E r : Starts(p, r) /\ r.step \in {"in", "lookup"}
      BY <3>4, <3>5
    <3>2. Elsewhere(p) /\ \A q \in Proc \ {p} : req'[q] = req[q]
      BY <1>1, <3>1 DEF Starts
    <3>3. spent' = spent
      BY <2>5 DEF Authenticate, tokens
    <3> QED
      BY <2>5, <3>2, <3>3
  <2>4. CASE \E a \in Created : BeginBan(p, a) \/ BeginUnban(p, a) \/ BeginToggle(p, a)
    BY <2>1, <2>4 DEF BeginBan, BeginUnban, BeginToggle, Idle, tokens
  <2> QED
    BY <1>5, <2>2, <2>3, <2>4, <2>5
<1>6. CASE ClearCodes(p) \/ IssueCode(p) \/ Claim(p) \/ Register(p) \/ DropOpenLinks(p) \/ IssueLink(p)
           \/ DropOtherLinks(p)
  BY <1>3, <1>4, <1>6 DEF ClearCodes, IssueCode, Claim, Register, DropOpenLinks, IssueLink, DropOtherLinks, tokens
<1>7. CASE Fill(p) \/ Leave(p) \/ SaveProfile(p) \/ Delete(p) \/ SaveByAdmin(p) \/ Abort(p)
  BY <1>3, <1>4, <1>7 DEF Fill, Leave, SaveProfile, Delete, SaveByAdmin, Abort, tokens
<1>8. CASE ReadExisting(p) \/ ReadForReset(p) \/ BeginProfile(p) \/ BeginDelete(p) \/ ReadBan(p)
  <2>1. ASSUME NEW s \in {"hashed", "profile", "delete", "ban"}, NEW row,
               req' = [req EXCEPT ![p].step = s, ![p].row = row], ~At(p, "used")
        PROVE  Elsewhere(p) /\ LooksUp(p)
    BY <1>1, <2>1 DEF Request
  <2>2. ASSUME NEW a, NEW row, req' = [req EXCEPT ![p].step = "consume", ![p].who = a, ![p].row = row], ~At(p, "used")
        PROVE  Elsewhere(p) /\ LooksUp(p)
    BY <1>1, <2>2 DEF Request
  <2>3. CASE ReadExisting(p)
    BY <1>3, <2>2, <2>3 DEF ReadExisting, tokens
  <2>4. CASE ReadForReset(p)
    BY <1>3, <2>1, <2>4 DEF ReadForReset, tokens
  <2>5. CASE BeginProfile(p) \/ BeginDelete(p) \/ ReadBan(p)
    BY <1>3, <2>1, <2>5, SMTT(30) DEF BeginProfile, BeginDelete, ReadBan, tokens
  <2> QED
    BY <1>8, <2>3, <2>4, <2>5
<1> QED
  BY <1>5, <1>6, <1>7, <1>8 DEF Act

\* What a step writes to the codes and the links, but for the link that is marked.
LEMMA TokensWritten ==
  ASSUME Sound, NEW p \in Proc, Act(p), ~MarkUsed(p)
  PROVE  /\ DOMAIN codes' \subseteq DOMAIN codes \cup (Code \ issued)
         /\ \A l \in DOMAIN links' \cap issued : l \in DOMAIN links /\ links'[l] = links[l]
<1>1. CASE UNCHANGED tokens
  BY <1>1 DEF tokens
<1>2. CASE ClearCodes(p) \/ IssueCode(p) \/ Claim(p) \/ Consume(p)
  BY <1>2 DEF ClearCodes, IssueCode, Claim, Consume, Without, Claimable
<1>3. CASE DropOpenLinks(p) \/ DropOtherLinks(p) \/ IssueLink(p) \/ Delete(p)
  BY <1>3 DEF DropOpenLinks, DropOtherLinks, IssueLink, Delete, Without
<1>4. CASE SignIn(p) \/ SetPassword(p)
  BY <1>4 DEF SignIn, SetPassword
<1> QED
  BY <1>1, <1>2, <1>3, <1>4
     DEF Act, BeginRequestOtp, BeginVerifyOtp, ReadExisting, BeginRegister, Register, BeginSendReset,
         BeginReset, ReadForReset, Authenticate, Fill, Leave, BeginProfile, SaveProfile, BeginDelete,
         BeginBan, BeginUnban, BeginToggle, ReadBan, SaveByAdmin, Abort

LEMMA SpendingsStep == Sound /\ Spendings /\ [Next]_vars => Spendings'
<1> SUFFICES ASSUME Sound, Spendings, [Next]_vars PROVE Spendings'
  OBVIOUS
<1> USE IdsAssumption DEF Sound
<1>1. req \in [Proc -> Request]
  BY DEF Requests
<1>2. CASE UNCHANGED vars
  BY <1>2 DEF Spendings, SpentStaysSpent, SpentCodesAreGone, SpentLinksAreUsed, Claimed, At, vars
<1>3. CASE Tick /\ UNCHANGED ops
  <2>1. \A p \in Proc : req'[p].step = req[p].step /\ req'[p].token = req[p].token
    BY <1>1, <1>3 DEF Tick, Request
  <2>2. spent' = spent /\ codes' = codes /\ links' = links
    BY <1>3 DEF Tick, tokens
  <2> QED
    BY <1>3, <2>1, <2>2 DEF Spendings, SpentStaysSpent, SpentCodesAreGone, SpentLinksAreUsed, Claimed, At
<1>4. ASSUME NEW c \in DOMAIN codes, Ages(c), UNCHANGED ops PROVE Spendings'
  BY <1>4 DEF Ages, Spendings, SpentStaysSpent, SpentCodesAreGone, SpentLinksAreUsed, Claimed, At
<1>5. ASSUME NEW p \in Proc, Act(p), UNCHANGED ops PROVE Spendings'
  <2>1. CASE Consume(p)
    <3>1. DOMAIN codes' = {} /\ spent' = spent /\ links' = links
      BY <2>1 DEF Consume, Consumed, Without
    <3>2. \A q \in Proc : At(q, "used") => q # p /\ req'[q] = req[q]
      BY <1>1, <2>1 DEF Consume, At, Goes
    <3> QED
      BY <1>5, <3>1, <3>2 DEF Spendings, SpentStaysSpent, SpentCodesAreGone, SpentLinksAreUsed, Claimed, At
  <2>2. CASE SignIn(p)
    <3>1. /\ spent' = spent \cup {req[p].token} /\ UNCHANGED <<codes, links>>
          /\ \A q \in Proc : At(q, "used") => q # p /\ req'[q] = req[q]
          /\ \A q \in Proc : At(q, "signIn")' => req'[q] = req[q]
          /\ At(p, "signIn")
      BY <1>1, <2>2 DEF SignIn, At, Ends, Idle
    <3>2. req[p].token \in Code /\ req[p].token \notin Link /\ req[p].token \notin DOMAIN codes
      BY <3>1 DEF Spendings, Claimed, Requests, Fits, Coded, At
    <3> QED
      BY <1>5, <3>1, <3>2 DEF Spendings, SpentStaysSpent, SpentCodesAreGone, SpentLinksAreUsed, Claimed, At, Tables
  <2>3. CASE SetPassword(p)
    <3>1. /\ spent' = spent \cup {req[p].token} /\ UNCHANGED <<codes, links>>
          /\ \A q \in Proc \ {p} : req'[q] = req[q]
          /\ req'[p].step = "used" /\ req'[p].token = req[p].token /\ At(p, "hashed")
      BY <1>1, <2>3 DEF SetPassword, At, Goes, Request
    <3>2. req[p].token \in Link /\ req[p].token \notin Code
      BY <3>1 DEF Requests, Fits, Linked, At
    <3> QED
      BY <1>5, <3>1, <3>2 DEF Spendings, SpentStaysSpent, SpentCodesAreGone, SpentLinksAreUsed, Claimed, At, Tables
  <2>4. CASE MarkUsed(p)
    <3>1. /\ UNCHANGED <<codes, spent>> /\ links'[req[p].token].state = "used"
          /\ \A l \in DOMAIN links' \ {req[p].token} : l \in DOMAIN links /\ links'[l] = links[l]
          /\ \A q \in Proc \ {p} : req'[q] = req[q]
          /\ req'[p].step = "others"
      BY <1>1, <2>4 DEF MarkUsed, Used, Goes, Request
    <3> QED
      BY <1>5, <3>1 DEF Spendings, SpentStaysSpent, SpentCodesAreGone, SpentLinksAreUsed, Claimed, At
  <2>5. CASE ~Consume(p) /\ ~SignIn(p) /\ ~SetPassword(p) /\ ~MarkUsed(p)
    BY <1>5, <2>5, StepsElsewhere, TokensWritten, SpendingsElsewhere
  <2> QED
    BY <2>1, <2>2, <2>3, <2>4, <2>5
<1> QED
  BY <1>2, <1>3, <1>4, <1>5 DEF Next, Steps

\* A code that has signed somebody in, and a link that has set a password, serve no later
\* request, whichever requests hold them meanwhile (verifyOtp and resetPassword).
THEOREM NothingIsSpentTwice == Spec => []SpentStaysSpent
<1>1. Init => Sound /\ Spendings
  BY IdsAssumption, TtlAssumption
     DEF Init, Sound, Requests, Tables, Created, Fits, Named, Coded, Linked, Idle, Request, NoRow, Row,
         Spendings, SpentStaysSpent, SpentCodesAreGone, SpentLinksAreUsed, Claimed, At
<1>2. Spendings => SpentStaysSpent
  BY DEF Spendings
<1> QED
  BY <1>1, <1>2, SoundStep, SpendingsStep, PTL DEF Spec

-----------------------------------------------------------------------------
\* An account that is let in has been so for no tick, and what a lookup is about to
\* store holds no longer than since it was read.
Fresh ==
    /\ CacheIsFresh
    /\ \A a \in Created : Allowed(users[a]) => since[a] = 0
    /\ \A p \in Proc : At(p, "lookup") /\ Allowed(req[p].row) /\ req[p].left > 0
                         => since[req[p].who] + req[p].left <= Ttl

\* Steps that leave the time since alone, or set it to nothing.
LEMMA FreshUntimed ==
  ASSUME Sound, Sound', Fresh, Since, cache' = cache,
         \A p \in Proc : At(p, "lookup")' /\ req'[p] # req[p] =>
            /\ req'[p].who \in Created /\ req'[p].row = users[req'[p].who] /\ req'[p].left <= Ttl
            /\ users' = users
  PROVE  Fresh'
<1> USE TtlAssumption DEF Sound
<1>1. \A a \in Account : since'[a] <= since[a] /\ since[a] \in Nat /\ since'[a] \in Nat
  BY DEF Since, Tables
<1>2. CacheIsFresh'
  <2> SUFFICES ASSUME NEW a \in Account, cache[a].ok, cache[a].left > 0
               PROVE  since'[a] + cache[a].left <= Ttl
    BY DEF CacheIsFresh
  <2>1. cache[a].left \in Nat /\ since[a] + cache[a].left <= Ttl
    BY DEF Fresh, CacheIsFresh, Tables
  <2> QED
    BY <1>1, <2>1
<1>3. \A a \in Created' : a \in Account /\ Allowed(users'[a]) => since'[a] = 0
  BY DEF Since, Created
<1>4. ASSUME NEW p \in Proc, At(p, "lookup")', Allowed(req'[p].row), req'[p].left > 0, req'[p].left \in Nat
      PROVE  since'[req'[p].who] + req'[p].left <= Ttl
  <2>1. CASE req'[p] = req[p]
    <3>1. At(p, "lookup") /\ req[p].who \in Account
      BY <1>4, <2>1 DEF At, Requests, Fits, Named, Tables
    <3>2. since[req[p].who] + req[p].left <= Ttl
      BY <1>4, <2>1, <3>1 DEF Fresh
    <3> QED
      BY <1>1, <1>4, <2>1, <3>1, <3>2
  <2>2. CASE req'[p] # req[p]
    BY <1>4, <2>2 DEF Since, Tables, Created
  <2> QED
    BY <2>1, <2>2
<1> QED
  BY <1>2, <1>3, <1>4 DEF Fresh, Tables, Requests, Request

LEMMA FreshStep == Sound /\ Sound' /\ Fresh /\ [Next]_vars => Fresh'
<1> SUFFICES ASSUME Sound, Sound', Fresh, [Next]_vars PROVE Fresh'
  OBVIOUS
<1> USE TtlAssumption
<1>1. req \in [Proc -> Request] /\ cache \in [Account -> [ok : BOOLEAN, left : 0 .. Ttl]]
      /\ since \in [Account -> 0 .. Ttl + 1] /\ Created \subseteq Account
  BY DEF Sound, Requests, Tables
<1>2. CASE UNCHANGED vars
  BY <1>2 DEF Fresh, CacheIsFresh, At, Created, vars
<1>3. CASE Tick
  <2>1. /\ cache' = [a \in Account |-> [cache[a] EXCEPT !.left = Less(@)]]
        /\ req' = [p \in Proc |-> [req[p] EXCEPT !.left = Less(@)]]
        /\ since' = [a \in Account |->
                       IF a \in Created /\ Allowed(users[a]) THEN 0
                       ELSE IF since[a] > Ttl THEN since[a] ELSE since[a] + 1]
        /\ users' = users
    BY <1>3 DEF Tick
  <2>2. \A n \in 0 .. Ttl : Less(n) > 0 => Less(n) = n - 1
    BY DEF Less
  <2>3. \A a \in Account : since'[a] = 0 \/ since'[a] = since[a] \/ since'[a] = since[a] + 1
    BY <2>1
  <2>4. ASSUME NEW a \in Account, NEW n \in 0 .. Ttl, n > 0 => since[a] + n <= Ttl, Less(n) > 0
        PROVE  since'[a] + Less(n) <= Ttl
    BY <1>1, <2>2, <2>3, <2>4
  <2>5. CacheIsFresh'
    <3> SUFFICES ASSUME NEW a \in Account, cache'[a].ok, cache'[a].left > 0
                 PROVE  since'[a] + cache'[a].left <= Ttl
      BY DEF CacheIsFresh
    <3>1. cache[a].ok /\ cache'[a].left = Less(cache[a].left) /\ cache[a].left \in 0 .. Ttl
      BY <1>1, <2>1
    <3>2. cache[a].left > 0 => since[a] + cache[a].left <= Ttl
      BY <3>1 DEF Fresh, CacheIsFresh
    <3> QED
      BY <2>4, <3>1, <3>2
  <2>6. \A a \in Created' : Allowed(users'[a]) => since'[a] = 0
    BY <1>1, <2>1 DEF Created
  <2>7. ASSUME NEW p \in Proc, At(p, "lookup")', Allowed(req'[p].row), req'[p].left > 0
        PROVE  since'[req'[p].who] + req'[p].left <= Ttl
    <3>1. req[p] \in Request /\ req'[p] = [req[p] EXCEPT !.left = Less(@)]
      BY <1>1, <2>1
    <3>2. /\ At(p, "lookup") /\ req'[p].row = req[p].row /\ req'[p].who = req[p].who
          /\ req'[p].left = Less(req[p].left) /\ req[p].left \in 0 .. Ttl
      BY <2>7, <3>1 DEF At, Request
    <3>3. req[p].who \in Account
      BY <3>2 DEF At, Sound, Requests, Fits, Named, Tables
    <3>4. req[p].left > 0 => since[req[p].who] + req[p].left <= Ttl
      BY <2>7, <3>2 DEF Fresh
    <3> QED
      BY <2>4, <2>7, <3>2, <3>3, <3>4
  <2> QED
    BY <2>5, <2>6, <2>7 DEF Fresh
<1>4. ASSUME NEW c \in DOMAIN codes, Ages(c), Since PROVE Fresh'
  BY <1>4, FreshUntimed DEF Ages
<1>5. ASSUME NEW p \in Proc, Act(p), Since PROVE Fresh'
  <2>1. CASE Fill(p)
    <3>1. /\ users' = users /\ At(p, "lookup")
          /\ cache' = [cache EXCEPT ![req[p].who] = [ok |-> Allowed(req[p].row), left |-> req[p].left]]
          /\ \A q \in Proc : At(q, "lookup")' => req'[q] = req[q]
      BY <1>1, <2>1 DEF Fill, Remaining, At, Ends, Goes, Idle, Request
    <3>2. req[p].who \in Account
      BY <3>1 DEF At, Sound, Requests, Fits, Named, Tables
    <3>3. \A a \in Account : cache'[a].ok /\ cache'[a].left > 0 => since[a] + cache'[a].left <= Ttl
      BY <1>1, <3>1, <3>2 DEF Fresh, CacheIsFresh
    <3>4. \A a \in Account : since'[a] = 0 \/ since'[a] = since[a]
      BY <1>5 DEF Since
    <3>5. \A a \in Created : Allowed(users[a]) => since'[a] = 0
      BY <1>1, <1>5, <3>1 DEF Since, Created
    <3>6. CacheIsFresh'
      <4> SUFFICES ASSUME NEW a \in Account, cache'[a].ok, cache'[a].left > 0
                   PROVE  since'[a] + cache'[a].left <= Ttl
        BY DEF CacheIsFresh
      <4>1. cache'[a].left \in Nat /\ cache'[a].left <= Ttl
        BY DEF Sound, Tables
      <4> QED
        BY <1>1, <3>3, <3>4, <4>1
    <3>7. ASSUME NEW q \in Proc, At(q, "lookup")', Allowed(req'[q].row), req'[q].left > 0
          PROVE  since'[req'[q].who] + req'[q].left <= Ttl
      <4>1. req'[q] = req[q] /\ At(q, "lookup") /\ req[q].left \in 0 .. Ttl
        BY <1>1, <3>1, <3>7 DEF At, Request
      <4>2. req[q].who \in Account /\ since[req[q].who] + req[q].left <= Ttl
        BY <3>7, <4>1, SMTT(30) DEF Fresh, At, Sound, Requests, Fits, Named, Tables
      <4> QED
        BY <1>1, <3>4, <4>1, <4>2
    <3> QED
      BY <3>1, <3>5, <3>6, <3>7 DEF Fresh, Created
  <2>2. CASE ~Fill(p)
    <3>1. cache' = cache
      BY <1>5, <2>2
         DEF Act, BeginRequestOtp, ClearCodes, IssueCode, BeginVerifyOtp, Claim, ReadExisting, Consume, SignIn,
             BeginRegister, Register, BeginSendReset, DropOpenLinks, IssueLink, BeginReset, ReadForReset,
             SetPassword, MarkUsed, DropOtherLinks, Authenticate, Leave, BeginProfile, SaveProfile,
             BeginDelete, Delete, BeginBan, BeginUnban, BeginToggle, ReadBan, SaveByAdmin, Abort
    <3>2. LooksUp(p)
      <4>1. CASE Consume(p) \/ SignIn(p) \/ SetPassword(p) \/ MarkUsed(p)
        BY <1>1, <4>1 DEF Consume, SignIn, SetPassword, MarkUsed, Goes, Ends, Idle, Request, LooksUp
      <4> QED
        BY <1>5, <4>1, StepsElsewhere
    <3>3. ASSUME NEW a \in Created, Authenticate(p, a), At(p, "lookup")'
          PROVE  /\ req'[p].who \in Created /\ req'[p].row = users[req'[p].who] /\ req'[p].left <= Ttl
                 /\ users' = users
      <4>2. \/ Starts(p, [Idle EXCEPT !.step = "in", !.who = a])
            \/ Starts(p, [Idle EXCEPT !.step = "lookup", !.who = a, !.row = users[a], !.left = Ttl])
        BY <3>3 DEF Authenticate
      <4>3. ~Starts(p, [Idle EXCEPT !.step = "in", !.who = a])
        BY <1>1, <3>3 DEF Starts, At, Idle
      <4>1. Starts(p, [Idle EXCEPT !.step = "lookup", !.who = a, !.row = users[a], !.left = Ttl])
        BY <4>2, <4>3
      <4> QED
        BY <1>1, <3>3, <4>1 DEF Authenticate, Starts, Idle
    <3>4. \A q \in Proc : At(q, "lookup")' /\ req'[q] # req[q] =>
             /\ req'[q].who \in Created /\ req'[q].row = users[req'[q].who] /\ req'[q].left <= Ttl
             /\ users' = users
      BY <3>2, <3>3 DEF LooksUp, At
    <3> QED
      BY <1>5, <3>1, <3>4, FreshUntimed
  <2> QED
    BY <2>1, <2>2
<1> QED
  BY <1>2, <1>3, <1>4, <1>5 DEF Next, Steps

\* What requests are let in by was true within the last ten seconds, however long the
\* lookup took whose answer is cached (validate).
THEOREM CacheHoldsBriefly == Spec => []CacheIsFresh
<1>1. Init => Sound /\ Fresh
  BY IdsAssumption, TtlAssumption
     DEF Init, Sound, Requests, Tables, Created, Fits, Named, Coded, Linked, Idle, Request, NoRow, Row,
         Fresh, CacheIsFresh, At
<1>2. Fresh => CacheIsFresh
  BY DEF Fresh
<1> QED
  BY <1>1, <1>2, SoundStep, FreshStep, PTL DEF Spec

-----------------------------------------------------------------------------
\* What LiftedOnlyBySave says of one step and one account.
Lifts(a) ==
    /\ users[a].banned /\ ~users'[a].banned =>
         \E p \in Proc : SavedBack(p, a) /\ (At(p, "unban") \/ ~req[p].row.banned)
    /\ users[a].deleted /\ ~users'[a].deleted =>
         \E p \in Proc : SavedBack(p, a) /\ ~req[p].row.deleted

\* A request that writes back the row it read lifts what that row does not have.
LEMMA SaveLifts ==
  ASSUME Sound, NEW p \in Proc, NEW r \in Row, users' = Saved(req[p].who, r) \/ users' = users,
         req[p].who \in Account,
         req[p].step \in {"signIn", "hashed", "profile", "ban", "unban", "role"}, req'[p] # req[p],
         r.deleted = req[p].row.deleted, r.banned = req[p].row.banned \/ At(p, "unban") \/ r.banned
  PROVE  \A a \in Created : Lifts(a)
<1> SUFFICES ASSUME NEW a \in Created PROVE Lifts(a)
  OBVIOUS
<1>1. users'[a] = users[a] \/ (a = req[p].who /\ users'[a] = r)
  BY SavedRows DEF Sound
<1>2. a = req[p].who => SavedBack(p, a)
  BY DEF SavedBack
<1>3. CASE users'[a] = users[a]
  BY <1>3 DEF Lifts
<1>4. CASE a = req[p].who /\ users'[a] = r
  BY <1>2, <1>4 DEF Lifts
<1> QED
  BY <1>1, <1>3, <1>4

\* A ban goes only by an unban or a late save, and a deleted account comes back only by a
\* late save of a row read before (setBan, anonymize and the saves of users.service).
THEOREM OnlySavesLift == Spec => LiftedOnlyBySave
<1>1. Init => Sound
  BY IdsAssumption, TtlAssumption
     DEF Init, Sound, Requests, Tables, Created, Fits, Named, Coded, Linked, Idle, Request, NoRow, Row
<1>2. Sound /\ [Next]_vars => [\A a \in Created : Lifts(a)]_vars
  <2> SUFFICES ASSUME Sound, Next PROVE \A a \in Created : Lifts(a)
    OBVIOUS
  <2>1. CASE UNCHANGED users
    BY <2>1 DEF Lifts
  <2>2. ASSUME NEW p \in Proc, Act(p) PROVE \A a \in Created : Lifts(a)
    <3>1. /\ req \in [Proc -> Request] /\ req[p] \in Request /\ req[p].row \in Row
          /\ req[p].step \in Named => req[p].who \in Created /\ req[p].who \in Account
          /\ req[p].who # None => req[p].who \in Account
      BY IdsAssumption DEF Sound, Requests, Fits, Tables, Request
    <3>2. Ends(p) /\ ~At(p, "idle") => req'[p] # req[p]
      BY <3>1 DEF Ends, At, Idle
    <3>3. CASE SignIn(p)
      <4>1. CASE req[p].who = None
        <5>1. users' = users \/ \E a \in Account \ Created : \E r : users' = Saved(a, r)
          BY <3>3, <4>1 DEF SignIn
        <5>2. \A x \in Created : users'[x] = users[x]
          BY <5>1 DEF Saved, Created
        <5> QED
          BY <5>2 DEF Lifts
      <4>2. CASE req[p].who # None
        <5> DEFINE r == [req[p].row EXCEPT !.verified = TRUE]
        <5>1. r \in Row /\ r.deleted = req[p].row.deleted /\ r.banned = req[p].row.banned
          BY <3>1 DEF Row
        <5>2. users' = Saved(req[p].who, r) \/ users' = users
          BY <3>3, <4>2 DEF SignIn
        <5>3. req[p].step = "signIn" /\ req'[p] # req[p]
          BY <3>2, <3>3 DEF SignIn, At
        <5> HIDE DEF r
        <5> QED
          BY <3>1, <4>2, <5>1, <5>2, <5>3, SaveLifts
      <4> QED
        BY <4>1, <4>2
    <3>4. CASE Register(p)
      <4>1. \E a \in Account \ Created : \E r : users' = Saved(a, r)
        BY <3>4 DEF Register
      <4>2. \A x \in Created : users'[x] = users[x]
        BY <4>1 DEF Saved, Created
      <4> QED
        BY <4>2 DEF Lifts
    <3>5. CASE SetPassword(p)
      <4> DEFINE r == [req[p].row EXCEPT !.password = "reset", !.verified = TRUE]
      <4>1. r \in Row /\ r.deleted = req[p].row.deleted /\ r.banned = req[p].row.banned
        BY <3>1 DEF Row
      <4>2. users' = Saved(req[p].who, r) /\ req[p].step = "hashed" /\ req'[p].step = "used"
        BY <3>1, <3>5 DEF SetPassword, At, Goes, Request
      <4> HIDE DEF r
      <4> QED
        BY <3>1, <4>1, <4>2, SaveLifts DEF Named
    <3>6. CASE SaveProfile(p)
      <4>1. users' = Saved(req[p].who, req[p].row) /\ req[p].step = "profile" /\ req'[p] # req[p]
        BY <3>2, <3>6 DEF SaveProfile, At
      <4> QED
        BY <3>1, <4>1, SaveLifts DEF Named
    <3>7. CASE SaveByAdmin(p)
      <4> DEFINE r == req[p].row
                 toggled == [r EXCEPT !.admin = ~@]
                 marked == [r EXCEPT !.banned = At(p, "ban")]
      <4>1. toggled \in Row /\ toggled.deleted = r.deleted /\ toggled.banned = r.banned
        BY <3>1 DEF Row
      <4>2. marked \in Row /\ marked.deleted = r.deleted /\ marked.banned = At(p, "ban")
        BY <3>1 DEF Row, At
      <4>3. users' = Saved(req[p].who, IF At(p, "role") THEN toggled ELSE marked)
        BY <3>7 DEF SaveByAdmin
      <4>4. req[p].step \in {"ban", "unban", "role"} /\ req'[p] # req[p]
        BY <3>2, <3>7 DEF SaveByAdmin, At
      <4>5. At(p, "ban") \/ At(p, "unban") \/ At(p, "role")
        BY <4>4 DEF At
      <4> HIDE DEF toggled, marked
      <4>6. req[p].who \in Account
        BY <3>1, <4>4 DEF Named
      <4>7. CASE At(p, "role")
        BY <4>1, <4>3, <4>4, <4>6, <4>7, SaveLifts
      <4>8. CASE ~At(p, "role")
        BY <4>2, <4>3, <4>4, <4>5, <4>6, <4>8, SaveLifts
      <4> QED
        BY <4>7, <4>8
    <3>8. CASE Delete(p)
      <4>1. users' = [users EXCEPT ![req[p].who] = Anonymized(@)]
        BY <3>8 DEF Delete
      <4>2. \A r \in Row : Anonymized(r).banned = r.banned /\ Anonymized(r).deleted
        BY DEF Anonymized, NoRow
      <4>3. \A a \in Created : users[a] \in Row
        BY DEF Sound, Tables
      <4> QED
        BY <4>1, <4>2, <4>3 DEF Lifts, Created
    <3> QED
      BY <2>1, <2>2, <3>3, <3>4, <3>5, <3>6, <3>7, <3>8, UsersWritten
  <2> QED
    BY <2>1, <2>2 DEF Next, Steps, Ages, Tick
<1>3. ASSUME [\A a \in Created : Lifts(a)]_vars
      PROVE  [\A a \in Created :
               /\ users[a].banned /\ ~users'[a].banned =>
                    \E p \in Proc : SavedBack(p, a) /\ (At(p, "unban") \/ ~req[p].row.banned)
               /\ users[a].deleted /\ ~users'[a].deleted =>
                    \E p \in Proc : SavedBack(p, a) /\ ~req[p].row.deleted]_vars
  BY <1>3 DEF Lifts
<1> QED
  BY <1>1, <1>2, <1>3, SoundStep, PTL DEF Spec, LiftedOnlyBySave

-----------------------------------------------------------------------------
(* Sessions.  As long as no cause is noted for a tab, the token is still   *)
(* that of its session: what the tab shows or is about to publish, and     *)
(* what every answer of this session says, is about the token's account    *)
(* (Clean).  Whatever else befell it, a guarded page stands only in a tab  *)
(* that is ready, and a tab that is not hydrated has asked for nothing but *)
(* its session (Orderly).                                                  *)
User == [who : People, pref : S!Locale]
Pages == {"none", "list", "login", "register", "reset"} \cup S!Guarded
Window == [user : User \cup {None}, pending : User \cup {None}, hydrated : BOOLEAN, ready : BOOLEAN, page : Pages,
           goal : S!Guarded \cup {None}, view : {"email", "password", "forgot", "otp"}, busy : BOOLEAN,
           form : People \cup {None}, badge : People \cup {None}, reload : BOOLEAN, locale : S!Locale]
Call == [tab : Tabs, kind : {"me", "unread", "otp", "forgot", "session", "save", "name", "lang", "delete"},
         as : People \cup {None}, me : User \cup [who : {None}, pref : S!Locale] \cup {None},
         in : BOOLEAN, late : BOOLEAN, gone : BOOLEAN]
Telling == {"me", "session", "save", "name", "lang"}

\* Answers that tell of an account.
Told(calls) == calls \subseteq Call /\ \A r \in calls : r.kind \in Telling /\ r.in => r.me \in User

Orderly(t, w, calls) ==
    /\ w \in Window
    /\ w.page \in S!Guarded => w.ready /\ w.hydrated
    /\ w.page = "none" => w.goal \in S!Guarded
    /\ ~w.hydrated => w.user = None /\ w.badge = None /\ \A r \in calls : r.tab = t => r.kind = "me"
    /\ \A r \in calls : r.tab = t /\ r.kind = "me" => ~w.ready
    /\ \A q, r \in calls : q.tab = t /\ r.tab = t /\ q.kind = "me" /\ r.kind = "me" => q = r
    /\ "badge" \notin mix => w.badge = None /\ \A r \in calls : r.tab = t => r.kind # "unread"

Mine(t, w, bearer, calls) ==
    /\ w.pending # None => w.pending.who = bearer
    /\ w.user # None => w.user.who = bearer
    /\ w.ready => IF w.hydrated THEN w.user = None => bearer = None ELSE w.pending = None => bearer = None
    /\ w.page \in S!Guarded => w.user # None
    /\ w.page = "admin" => w.user.who \in Admins
    /\ w.page = "profile" => w.form = bearer
    /\ \A r \in calls : r.tab = t /\ ~r.late =>
           /\ r.kind \in {"me", "save", "name", "lang"} /\ r.in => r.me.who = bearer
           /\ r.kind = "unread" => w.user # None /\ r.as = bearer

Clean(t, w, bearer, calls) ==
    /\ Mine(t, w, bearer, calls)
    /\ \/ w.badge = None
       \/ w.user # None /\ w.badge = bearer
       \/ \E r \in calls : r.tab = t /\ r.kind = "unread" /\ ~r.late

SessionInv ==
    /\ tab \in [Tabs -> Window \cup {None}] /\ token \in People \cup {None}
    /\ status \in [People -> {"new", "live", "gone"}] /\ pref \in [People -> S!Locale]
    /\ stored \in S!Locale \cup {None} /\ DOMAIN cause = Tabs /\ Told(net)
    /\ \A t \in Tabs : tab[t] # None => /\ Orderly(t, tab[t], net)
                                        /\ cause[t] = {} => Clean(t, tab[t], token, net)

\* A request of t tells the same as another one.
Like(r, q) == r \in Call /\ r.tab = q.tab /\ r.kind = q.kind /\ r.as = q.as /\ r.me = q.me /\ r.in = q.in

\* What a navigation and the end of a session make of the requests under way.
LEMMA LeftCalls ==
  ASSUME NEW t, NEW page, NEW calls, Told(calls), NEW left, left = S!Left(t, page, calls)
  PROVE  /\ Told(left)
         /\ \A r : r.tab # t => (r \in left <=> r \in calls)
         /\ \A r \in left : r.tab = t => \E q \in calls : Like(r, q) /\ r.late = q.late
         /\ \A q \in calls : q.tab = t => \E r \in left : Like(r, q) /\ r.late = q.late
         /\ (\A q, r \in calls : q.tab = t /\ r.tab = t /\ q.kind = "me" /\ r.kind = "me" => q = r)
              => \A q, r \in left : q.tab = t /\ r.tab = t /\ q.kind = "me" /\ r.kind = "me" => q = r
<1> DEFINE F(r) == IF r.tab = t /\ tab[t].page # page THEN [r EXCEPT !.gone = TRUE] ELSE r
<1>1. left = {F(r) : r \in calls}
  BY DEF S!Left
<1>2. \A r \in calls : Like(F(r), r) /\ F(r).late = r.late /\ (r.tab # t => F(r) = r)
  BY DEF Told, Like, Call
<1> HIDE DEF F
<1>3. \A q, r \in calls : q.tab # t /\ F(r) = q => r = q
  BY <1>2 DEF Like
<1>4. Told(left)
  BY <1>1, <1>2 DEF Told, Like
<1> QED BY <1>1, <1>2, <1>3, <1>4 DEF Like

LEMMA LateCalls ==
  ASSUME NEW t, NEW calls, Told(calls), NEW late, late = S!Late(t, calls)
  PROVE  /\ Told(late)
         /\ \A r : r.tab # t => (r \in late <=> r \in calls)
         /\ \A r \in late : r.tab = t => r.late /\ \E q \in calls : Like(r, q)
         /\ (\A q, r \in calls : q.tab = t /\ r.tab = t /\ q.kind = "me" /\ r.kind = "me" => q = r)
              => \A q, r \in late : q.tab = t /\ r.tab = t /\ q.kind = "me" /\ r.kind = "me" => q = r
<1> DEFINE F(r) == IF r.tab = t THEN [r EXCEPT !.late = TRUE] ELSE r
<1>1. late = {F(r) : r \in calls}
  BY DEF S!Late
<1>2. \A r \in calls : Like(F(r), r) /\ (r.tab = t => F(r).late) /\ (r.tab # t => F(r) = r)
  BY DEF Told, Like, Call
<1> HIDE DEF F
<1>3. \A q, r \in calls : q.tab # t /\ F(r) = q => r = q
  BY <1>2 DEF Like
<1>4. Told(late)
  BY <1>1, <1>2 DEF Told, Like
<1> QED BY <1>1, <1>2, <1>3, <1>4 DEF Like

\* A step of one tab.
LEMMA OneTab ==
  ASSUME SessionInv, NEW t \in Tabs, NEW w, NEW calls, NEW bearer, tab' = [tab EXCEPT ![t] = w], net' = calls, token' = bearer,
         Told(calls), \A r : r.tab # t => (r \in calls <=> r \in net), bearer \in People \cup {None},
         pref' \in [People -> S!Locale], status' \in [People -> {"new", "live", "gone"}],
         stored' \in S!Locale \cup {None}, mix' = mix,
         DOMAIN cause' = Tabs,
         \A s \in Tabs \ {t} : cause'[s] = {} => cause[s] = {} /\ (tab[s] = None \/ bearer = token),
         Orderly(t, w, calls), cause'[t] = {} => Clean(t, w, bearer, calls)
  PROVE  SessionInv'
<1>1. tab' \in [Tabs -> Window \cup {None}] /\ Told(net)'
  BY DEF SessionInv, Orderly, Told
<1>2. ASSUME NEW s \in Tabs, tab'[s] # None
      PROVE  Orderly(s, tab[s], net)' /\ (cause'[s] = {} => Clean(s, tab[s], token, net)')
  <2>1. CASE s = t
    <3>1. tab'[s] = w
      BY <2>1 DEF SessionInv
    <3> QED BY <2>1, <3>1 DEF Orderly, Clean, Mine
  <2>2. CASE s # t
    <3>1. tab'[s] = tab[s] /\ Orderly(s, tab[s], net) /\ (cause'[s] = {} => Clean(s, tab[s], token, net) /\ bearer = token)
      BY <1>2, <2>2 DEF SessionInv
    <3>2. \A r : r.tab = s => (r \in net' <=> r \in net)
      BY <2>2
    <3>3. Orderly(s, tab[s], net)'
      BY <3>1, <3>2 DEF Orderly
    <3>4. ASSUME cause'[s] = {} PROVE Clean(s, tab[s], token, net)'
      BY <3>1, <3>2, <3>4 DEF Clean, Mine
    <3> QED BY <3>3, <3>4
  <2> QED BY <2>1, <2>2
<1> QED BY <1>1, <1>2 DEF SessionInv

\* Requests that come from those there were.
Follows(t, calls) ==
    /\ Told(calls)
    /\ \A r : r.tab # t => (r \in calls <=> r \in net)
    /\ \A r \in calls : r.tab = t => \E q \in net : Like(r, q) /\ (q.late => r.late)
    /\ \A q, r \in calls : q.tab = t /\ r.tab = t /\ q.kind = "me" /\ r.kind = "me" => q = r

LEMMA FollowedBy ==
  ASSUME NEW t, NEW page, NEW calls, Follows(t, calls)
  PROVE  /\ Follows(t, S!Left(t, page, calls))
         /\ Follows(t, S!Late(t, calls)) /\ \A r \in S!Late(t, calls) : r.tab = t => r.late
<1>1. Follows(t, S!Left(t, page, calls))
  <2> PICK left : left = S!Left(t, page, calls)
    OBVIOUS
  <2> QED BY LeftCalls DEF Follows, Like
<1>2. Follows(t, S!Late(t, calls)) /\ \A r \in S!Late(t, calls) : r.tab = t => r.late
  <2> PICK late : late = S!Late(t, calls)
    OBVIOUS
  <2>1. /\ Told(late)
        /\ \A r : r.tab # t => (r \in late <=> r \in calls)
        /\ \A r \in late : r.tab = t => r.late /\ \E q \in calls : Like(r, q)
        /\ (\A q, r \in calls : q.tab = t /\ r.tab = t /\ q.kind = "me" /\ r.kind = "me" => q = r)
              => \A q, r \in late : q.tab = t /\ r.tab = t /\ q.kind = "me" /\ r.kind = "me" => q = r
    BY LateCalls DEF Follows
  <2> QED BY <2>1 DEF Follows, Like
<1> QED BY <1>1, <1>2

LEMMA TheTab ==
  ASSUME SessionInv, NEW t \in S!Opened
  PROVE  /\ t \in Tabs /\ tab[t] \in Window /\ Orderly(t, tab[t], net)
         /\ cause[t] = {} => Clean(t, tab[t], token, net) /\ Mine(t, tab[t], token, net)
         /\ token \in People \cup {None} /\ Told(net) /\ Follows(t, net)
         /\ \A r : r.tab = t => Follows(t, net \ {r})
<1>1. /\ t \in Tabs /\ Orderly(t, tab[t], net) /\ (cause[t] = {} => Clean(t, tab[t], token, net)) /\ Told(net)
      /\ token \in People \cup {None}
  BY DEF SessionInv, S!Opened
<1>2. \A r \in net : Like(r, r)
  BY <1>1 DEF Like, Told
<1>3. Follows(t, net)
  BY <1>1, <1>2 DEF Follows, Orderly
<1>4. ASSUME NEW r, r.tab = t PROVE Follows(t, net \ {r})
  <2>1. Told(net \ {r})
    BY <1>1 DEF Told
  <2> QED BY <1>3, <1>4, <2>1 DEF Follows
<1> QED BY <1>1, <1>3, <1>4 DEF Orderly, Clean

\* The badge is asked for when somebody is shown.
LEMMA UnreadCalls ==
  ASSUME NEW t \in Tabs, NEW w \in Window, NEW bearer \in People \cup {None}, NEW new, new = S!Unread(t, w, bearer),
         status \in [People -> {"new", "live", "gone"}]
  PROVE  /\ Told(new)
         /\ \A r \in new : r.tab = t /\ r.kind = "unread" /\ r.as = bearer /\ ~r.late /\ w.user # None /\ "badge" \in mix
         /\ w.user = None \/ "badge" \notin mix \/ \E r \in new : r.tab = t /\ r.kind = "unread" /\ ~r.late
         /\ S!Badge(w) \in Window
         /\ \A x \in DOMAIN w \ {"badge"} : S!Badge(w)[x] = w[x]
         /\ S!Badge(w).badge = IF w.user = None THEN None ELSE w.badge
<1>1. S!Live(bearer) \in BOOLEAN
  BY DEF S!Live
<1>2. \A r \in new : r \in Call /\ r.tab = t /\ r.kind = "unread" /\ r.as = bearer /\ ~r.late /\ w.user # None /\ "badge" \in mix
  <2>1. S!Request(t, "unread", bearer, None) \in Call
    BY <1>1 DEF S!Request, Call
  <2>2. PICK r0 : r0 = S!Request(t, "unread", bearer, None)
    OBVIOUS
  <2>3. r0.tab = t /\ r0.kind = "unread" /\ r0.as = bearer /\ ~r0.late
    BY <2>2 DEF S!Request
  <2> QED BY <2>1, <2>2, <2>3 DEF S!Unread
<1>3. Told(new)
  BY <1>2 DEF Told, Telling
<1>4. w.user = None \/ "badge" \notin mix \/ \E r \in new : r.tab = t /\ r.kind = "unread" /\ ~r.late
  BY DEF S!Unread, S!Request
<1>5. /\ S!Badge(w) \in Window
      /\ \A x \in DOMAIN w \ {"badge"} : S!Badge(w)[x] = w[x]
      /\ S!Badge(w).badge = IF w.user = None THEN None ELSE w.badge
  BY DEF S!Badge, Window
<1> QED BY <1>2, <1>3, <1>4, <1>5

\* A tab comes to show somebody, or nobody.
LEMMA Settles ==
  ASSUME SessionInv, NEW t \in Tabs, NEW w, NEW calls, NEW bearer, Follows(t, calls), Orderly(t, w, calls),
         tab' = [tab EXCEPT ![t] = S!Badge(w)], net' = calls \cup S!Unread(t, w, bearer), token' = bearer,
         bearer \in People \cup {None},
         UNCHANGED <<status, pref, mix>>, stored' \in S!Locale \cup {None}, DOMAIN cause' = Tabs,
         \A s \in Tabs \ {t} : cause'[s] = {} => cause[s] = {} /\ (tab[s] = None \/ bearer = token),
         cause'[t] = {} => Mine(t, w, bearer, calls)
  PROVE  SessionInv'
<1> DEFINE new == S!Unread(t, w, bearer)
           shown == S!Badge(w)
<1>1. w \in Window /\ pref \in [People -> S!Locale] /\ status \in [People -> {"new", "live", "gone"}]
  BY DEF Orderly, SessionInv
<1>2. /\ Told(new)
      /\ \A r \in new : r.tab = t /\ r.kind = "unread" /\ r.as = bearer /\ ~r.late /\ w.user # None /\ "badge" \in mix
      /\ w.user = None \/ "badge" \notin mix \/ \E r \in new : r.tab = t /\ r.kind = "unread" /\ ~r.late
      /\ shown \in Window
      /\ \A x \in DOMAIN w \ {"badge"} : shown[x] = w[x]
      /\ shown.badge = IF w.user = None THEN None ELSE w.badge
  BY <1>1, UnreadCalls
<1> HIDE DEF new, shown
<1>3. /\ shown.user = w.user /\ shown.pending = w.pending /\ shown.hydrated = w.hydrated /\ shown.ready = w.ready
      /\ shown.page = w.page /\ shown.goal = w.goal /\ shown.form = w.form
  BY <1>1, <1>2 DEF Window
<1>4. Told(calls \cup new) /\ \A r : r.tab # t => (r \in calls \cup new <=> r \in net)
  BY <1>2 DEF Follows, Told
<1>5. Orderly(t, shown, calls \cup new)
  BY <1>2, <1>3 DEF Orderly
<1>6. ASSUME cause'[t] = {} PROVE Clean(t, shown, bearer, calls \cup new)
  <2>1. Mine(t, shown, bearer, calls \cup new)
    BY <1>2, <1>3, <1>6 DEF Mine
  <2>2. \/ shown.badge = None
        \/ \E r \in calls \cup new : r.tab = t /\ r.kind = "unread" /\ ~r.late
    BY <1>2 DEF Orderly
  <2> QED BY <2>1, <2>2 DEF Clean
<1>7. tab' = [tab EXCEPT ![t] = shown] /\ net' = calls \cup new
  BY DEF shown, new
<1> QED BY <1>1, <1>4, <1>5, <1>6, <1>7, OneTab

\* What the requests of an opened tab say, and those that come from them.
Expected(t, w, calls) ==
    /\ ~w.hydrated => \A r \in calls : r.tab = t => r.kind = "me"
    /\ \A r \in calls : r.tab = t /\ r.kind = "me" => ~w.ready
    /\ \A q, r \in calls : q.tab = t /\ r.tab = t /\ q.kind = "me" /\ r.kind = "me" => q = r
    /\ "badge" \notin mix => \A r \in calls : r.tab = t => r.kind # "unread"
    /\ cause[t] = {} => \A r \in calls : r.tab = t /\ ~r.late =>
           /\ r.kind \in {"me", "save", "name", "lang"} /\ r.in => r.me.who = token
           /\ r.kind = "unread" => w.user # None /\ r.as = token

LEMMA Fitting ==
  ASSUME SessionInv, NEW t \in S!Opened, NEW calls, Follows(t, calls)
  PROVE  Expected(t, tab[t], calls)
<1>1. Orderly(t, tab[t], net) /\ (cause[t] = {} => Mine(t, tab[t], token, net))
  BY TheTab
<1>2. \A r \in calls : r.tab = t => \E q \in net : q.tab = t /\ Like(r, q) /\ (q.late => r.late) /\ r.late \in BOOLEAN
  BY DEF Follows, Like, Call
<1>3. \A q, r \in calls : q.tab = t /\ r.tab = t /\ q.kind = "me" /\ r.kind = "me" => q = r
  BY DEF Follows
<1>4. /\ ~tab[t].hydrated => \A r \in calls : r.tab = t => r.kind = "me"
      /\ \A r \in calls : r.tab = t /\ r.kind = "me" => ~tab[t].ready
      /\ "badge" \notin mix => \A r \in calls : r.tab = t => r.kind # "unread"
  BY <1>1, <1>2 DEF Orderly, Like
<1>5. ASSUME cause[t] = {}
      PROVE  \A r \in calls : r.tab = t /\ ~r.late =>
                 /\ r.kind \in {"me", "save", "name", "lang"} /\ r.in => r.me.who = token
                 /\ r.kind = "unread" => tab[t].user # None /\ r.as = token
  BY <1>1, <1>2, <1>5 DEF Mine, Like
<1> QED BY <1>3, <1>4, <1>5 DEF Expected

\* The session of a tab ends.
LEMMA LogsOut ==
  ASSUME SessionInv, NEW t \in S!Opened, NEW asked, Follows(t, asked), NEW row, Orderly(t, row, asked),
         row.page \notin S!Guarded, S!Logout(t, asked, row), UNCHANGED <<status, pref, mix>>
  PROVE  SessionInv'
<1> DEFINE w == [row EXCEPT !.user = None, !.pending = None]
           late == S!Late(t, asked)
           shown == S!Badge(w)
<1>1. Follows(t, late) /\ \A r \in late : r.tab = t => r.late
  BY FollowedBy
<1>2. t \in Tabs /\ tab[t] # None /\ token \in People \cup {None} /\ row \in Window
  BY TheTab DEF S!Opened, Orderly
<1>3. /\ shown \in Window /\ shown.user = None /\ shown.pending = None /\ shown.badge = None
      /\ shown.ready = row.ready /\ shown.hydrated = row.hydrated /\ shown.page = row.page /\ shown.goal = row.goal
  BY <1>2 DEF S!Badge, Window, User
<1>4. \A r \in late : r.tab = t => \E q \in asked : Like(r, q)
  <2> PICK l : l = S!Late(t, asked)
    OBVIOUS
  <2> QED BY LateCalls DEF Follows
<1> HIDE DEF w, late, shown
<1>5. Orderly(t, shown, late)
  BY <1>1, <1>3, <1>4 DEF Orderly, Follows, Like
<1>6. Clean(t, shown, None, late)
  BY <1>1, <1>3 DEF Clean, Mine, S!Guarded
<1>7. /\ tab' = [tab EXCEPT ![t] = shown] /\ net' = late /\ token' = None /\ stored' = stored
      /\ cause' = [S!Others(t, None) EXCEPT ![t] = {}]
  BY DEF S!Logout, shown, late, w
<1>8. DOMAIN cause' = Tabs /\ \A s \in Tabs \ {t} : cause'[s] = {} => cause[s] = {} /\ (tab[s] = None \/ None = token)
  BY <1>7 DEF S!Others, S!Opened
<1>9. /\ Told(late) /\ \A r : r.tab # t => (r \in late <=> r \in net)
      /\ pref' \in [People -> S!Locale] /\ status' \in [People -> {"new", "live", "gone"}] /\ stored \in S!Locale \cup {None}
  BY <1>1 DEF Follows, SessionInv
<1> QED BY <1>2, <1>5, <1>6, <1>7, <1>8, <1>9, OneTab

\* A page comes to be shown.
LEMMA Going ==
  ASSUME NEW row \in Window, NEW page \in Pages \ {"none"}, NEW w, w = S!Goes(row, page)
  PROVE  /\ w \in Window /\ w.page = page
         /\ w.user = row.user /\ w.pending = row.pending /\ w.hydrated = row.hydrated /\ w.ready = row.ready
         /\ w.badge = row.badge /\ w.reload = row.reload /\ w.locale = row.locale
         /\ w.form = IF row.page = page THEN row.form ELSE IF page = "profile" /\ row.user # None THEN row.user.who ELSE None
<1>1. row.user # None => row.user.who \in People
  BY DEF Window, User
<1>2. CASE row.page = page
  BY <1>2 DEF S!Goes, Window
<1>3. CASE row.page # page
  <2> DEFINE form == IF page = "profile" /\ row.user # None THEN row.user.who ELSE None
  <2>1. form \in People \cup {None}
    BY <1>1
  <2> HIDE DEF form
  <2>2. w = [row EXCEPT !.page = page, !.goal = None, !.view = "email", !.busy = FALSE, !.form = form]
    BY <1>3 DEF S!Goes, form
  <2>3. w \in Window /\ w.form = form
    <3> DEFINE w1 == [row EXCEPT !.page = page, !.goal = None]
               w2 == [w1 EXCEPT !.view = "email", !.busy = FALSE]
    <3>1. w1 \in Window
      BY DEF Window
    <3>2. w = [w2 EXCEPT !.form = form]
      BY <2>2 DEF Window
    <3> HIDE DEF w1
    <3>3. w2 \in Window
      BY <3>1 DEF Window
    <3> HIDE DEF w2
    <3> QED BY <2>1, <3>2, <3>3 DEF Window
  <2> QED BY <1>3, <2>2, <2>3 DEF Window, form
<1> QED BY <1>2, <1>3

LEMMA Arrives ==
  ASSUME SessionInv, NEW t \in S!Opened, NEW page \in Pages \ {"none"}, NEW calls, Follows(t, calls),
         page \in S!Guarded => /\ tab[t].ready /\ tab[t].hydrated /\ tab[t].user # None
                               /\ page = "admin" => tab[t].user.who \in Admins,
         S!Shows(t, S!Goes(tab[t], page), calls), UNCHANGED <<token, stored, status, pref, cause, mix>>
  PROVE  SessionInv'
<1> DEFINE w == S!Goes(tab[t], page)
<1>1. /\ t \in Tabs /\ tab[t] \in Window /\ Orderly(t, tab[t], net)
      /\ (cause[t] = {} => Mine(t, tab[t], token, net)) /\ token \in People \cup {None}
  BY TheTab
<1>2. /\ w \in Window /\ w.page = page
      /\ w.user = tab[t].user /\ w.pending = tab[t].pending /\ w.hydrated = tab[t].hydrated /\ w.ready = tab[t].ready
      /\ w.badge = tab[t].badge
      /\ w.form = IF tab[t].page = page THEN tab[t].form
                  ELSE IF page = "profile" /\ tab[t].user # None THEN tab[t].user.who ELSE None
  BY <1>1, Going
<1>3. /\ tab' = [tab EXCEPT ![t] = S!Badge(w)] /\ net' = calls \cup S!Unread(t, w, token)
  <2>1. tab[t].hydrated \/ w.user = None
    BY <1>1, <1>2 DEF Orderly
  <2> QED BY <2>1 DEF S!Shows, S!Bearer, S!Unread
<1> HIDE DEF w
<1>4. Expected(t, tab[t], calls)
  BY Fitting
<1>5. Orderly(t, w, calls)
  BY <1>1, <1>2, <1>4 DEF Orderly, Expected
<1>6. ASSUME cause[t] = {} PROVE Mine(t, w, token, calls)
  <2>1. page = "profile" => w.form = token
    BY <1>1, <1>2, <1>6 DEF Mine, S!Guarded
  <2>2. \A r \in calls : r.tab = t /\ ~r.late =>
           /\ r.kind \in {"me", "save", "name", "lang"} /\ r.in => r.me.who = token
           /\ r.kind = "unread" => w.user # None /\ r.as = token
    BY <1>2, <1>4, <1>6 DEF Expected
  <2> QED BY <1>1, <1>2, <1>6, <2>1, <2>2 DEF Mine, S!Guarded
<1>7. DOMAIN cause' = Tabs /\ stored' \in S!Locale \cup {None}
  BY DEF SessionInv
<1> QED BY <1>1, <1>3, <1>5, <1>6, <1>7, Settles

\* A tab that shows and awaits what it did.
Same(w, v) ==
    /\ w \in Window
    /\ w.user = v.user /\ w.pending = v.pending /\ w.hydrated = v.hydrated /\ w.ready = v.ready
    /\ w.page = v.page /\ w.goal = v.goal /\ w.form = v.form /\ w.badge = v.badge

LEMMA Stays ==
  ASSUME SessionInv, NEW t \in S!Opened, NEW w, Same(w, tab[t]), NEW calls, Follows(t, calls),
         \A r \in net : r.tab = t /\ r.kind = "unread" => r \in calls,
         tab' = [tab EXCEPT ![t] = w], net' = calls, UNCHANGED <<token, stored, status, pref, cause, mix>>
  PROVE  SessionInv'
<1>1. /\ t \in Tabs /\ Orderly(t, tab[t], net) /\ (cause[t] = {} => Clean(t, tab[t], token, net))
      /\ token \in People \cup {None} /\ Told(calls) /\ \A r : r.tab # t => (r \in calls <=> r \in net)
  BY TheTab DEF Follows
<1>2. Expected(t, tab[t], calls)
  BY Fitting
<1>3. Orderly(t, w, calls)
  BY <1>1, <1>2 DEF Orderly, Expected, Same
<1>4. ASSUME cause[t] = {} PROVE Clean(t, w, token, calls)
  BY <1>1, <1>2, <1>4 DEF Clean, Mine, Expected, Same
<1>5. /\ DOMAIN cause = Tabs /\ stored \in S!Locale \cup {None}
      /\ pref' \in [People -> S!Locale] /\ status' \in [People -> {"new", "live", "gone"}]
  BY DEF SessionInv
<1> QED BY <1>1, <1>3, <1>4, <1>5, OneTab

\* A tab asks for something.
LEMMA Sending ==
  ASSUME SessionInv, NEW t \in S!Opened, NEW w, Same(w, tab[t]), w.hydrated,
         NEW kind \in {"otp", "forgot", "session", "save", "name", "lang", "delete"}, NEW p \in People \cup {None},
         NEW me \in User \cup [who : {None}, pref : S!Locale] \cup {None},
         kind \in Telling /\ p # None => me \in User,
         kind \in {"save", "name", "lang"} /\ p # None => me.who = token,
         tab' = [tab EXCEPT ![t] = w], net' = net \cup {S!Request(t, kind, p, me)},
         UNCHANGED <<token, stored, cause, mix>>,
         pref' \in [People -> S!Locale], status' \in [People -> {"new", "live", "gone"}]
  PROVE  SessionInv'
<1> DEFINE new == S!Request(t, kind, p, me)
<1>1. /\ t \in Tabs /\ Orderly(t, tab[t], net) /\ (cause[t] = {} => Clean(t, tab[t], token, net))
      /\ token \in People \cup {None} /\ Told(net)
  BY TheTab
<1>2. /\ S!Live(p) \in BOOLEAN /\ (S!Live(p) => p # None)
  BY DEF S!Live
<1>3. new \in Call /\ new.tab = t /\ new.kind = kind /\ new.me = me /\ (new.in => p # None)
  BY <1>1, <1>2 DEF S!Request, Call
<1>4. net' = net \cup {new}
  OBVIOUS
<1> HIDE DEF new
<1>5. Told(net \cup {new})
  BY <1>1, <1>3 DEF Told
<1>6. Orderly(t, w, net \cup {new})
  BY <1>1, <1>3 DEF Orderly, Same
<1>7. ASSUME cause[t] = {} PROVE Clean(t, w, token, net \cup {new})
  BY <1>1, <1>3, <1>7 DEF Clean, Mine, Same
<1>8. DOMAIN cause = Tabs /\ stored \in S!Locale \cup {None} /\ \A r : r.tab # t => (r \in net \cup {new} <=> r \in net)
  BY <1>3, SMTT(30) DEF SessionInv
<1> QED BY <1>1, <1>4, <1>5, <1>6, <1>7, <1>8, OneTab

LEMMA SameTab ==
  ASSUME SessionInv, NEW t \in S!Opened
  PROVE  /\ Same(tab[t], tab[t]) /\ tab = [tab EXCEPT ![t] = tab[t]]
         /\ \A busy \in BOOLEAN, view \in {"email", "password", "forgot", "otp"} :
              Same([tab[t] EXCEPT !.busy = busy, !.view = view], tab[t])
         /\ \A busy \in BOOLEAN : Same([tab[t] EXCEPT !.busy = busy], tab[t])
         /\ \A view \in {"email", "password", "forgot", "otp"} : Same([tab[t] EXCEPT !.view = view], tab[t])
<1>1. tab[t] \in Window /\ tab = [tab EXCEPT ![t] = tab[t]]
  BY TheTab DEF SessionInv
<1>2. PICK v \in Window : v = tab[t]
  BY <1>1
<1>3. \A busy \in BOOLEAN, view \in {"email", "password", "forgot", "otp"} : Same([v EXCEPT !.busy = busy, !.view = view], v)
  BY ZenonT(40) DEF Window, Same
<1>4. \A busy \in BOOLEAN : Same([v EXCEPT !.busy = busy], v)
  BY DEF Window, Same
<1>5. \A view \in {"email", "password", "forgot", "otp"} : Same([v EXCEPT !.view = view], v)
  BY DEF Window, Same
<1>6. Same(v, v)
  BY DEF Same
<1> QED BY <1>1, <1>2, <1>3, <1>4, <1>5, <1>6

\* Every action keeps the invariant.
LEMMA KeptHydrate ==
  ASSUME SessionInv, NEW t \in S!Opened, S!Hydrate(t), mix' = mix
  PROVE  SessionInv'
<1> DEFINE w == [tab[t] EXCEPT !.hydrated = TRUE, !.user = S!Published(tab[t])]
<1>1. /\ t \in Tabs /\ tab[t] \in Window /\ Orderly(t, tab[t], net) /\ (cause[t] = {} => Mine(t, tab[t], token, net))
      /\ token \in People \cup {None} /\ Follows(t, net) /\ ~tab[t].hydrated
  BY TheTab DEF S!Hydrate
<1>2. /\ w \in Window /\ w.hydrated /\ w.user = S!Published(tab[t]) /\ w.pending = tab[t].pending
      /\ w.ready = tab[t].ready /\ w.page = tab[t].page /\ w.goal = tab[t].goal /\ w.form = tab[t].form /\ w.badge = tab[t].badge
  BY <1>1 DEF Window, S!Published
<1>3. tab' = [tab EXCEPT ![t] = S!Badge(w)] /\ net' = net \cup S!Unread(t, w, token) /\ UNCHANGED <<token, stored, status, pref, cause>>
  BY DEF S!Hydrate
<1> HIDE DEF w
<1>4. Orderly(t, w, net)
  BY <1>1, <1>2 DEF Orderly
<1>5. ASSUME cause[t] = {} PROVE Mine(t, w, token, net)
  BY <1>1, <1>2, <1>5 DEF Mine, Orderly, S!Published, S!Guarded
<1>6. DOMAIN cause = Tabs /\ stored \in S!Locale \cup {None}
  BY DEF SessionInv
<1> QED BY <1>1, <1>3, <1>4, <1>5, <1>6, Settles

LEMMA KeptReloaded ==
  ASSUME SessionInv, NEW t \in Tabs, NEW at \in Pages \ {"none"}, S!Reloaded(t, at), mix' = mix
  PROVE  SessionInv'
<1> USE PeopleAssumption
<1> DEFINE w == S!Bootstrap(at)
           new == IF token = None THEN {} ELSE {S!Request(t, "me", token, S!Me(token))}
           calls == (net \ S!Asked(t)) \cup new
<1>1. token \in People \cup {None} /\ stored \in S!Locale \cup {None} /\ pref \in [People -> S!Locale] /\ Told(net)
      /\ DOMAIN cause = Tabs /\ status \in [People -> {"new", "live", "gone"}]
  BY DEF SessionInv
<1>2. /\ w \in Window /\ w.user = None /\ w.pending = None /\ ~w.hydrated /\ (w.ready <=> token = None) /\ w.badge = None
      /\ w.page \notin S!Guarded /\ (w.page = "none" => w.goal \in S!Guarded)
  BY DEF S!Bootstrap, Window, Pages, S!Guarded, S!Locale
<1>3. token # None => S!Me(token) \in User /\ S!Me(token).who = token /\ S!Live(token) \in BOOLEAN
  BY <1>1 DEF S!Me, User, S!Live
<1>4. \A r \in new : r \in Call /\ r.tab = t /\ r.kind = "me" /\ r.me \in User /\ r.me.who = token /\ token # None
  <2> PICK me : me = S!Me(token)
    OBVIOUS
  <2> DEFINE r0 == S!Request(t, "me", token, me)
  <2>1. ASSUME token # None PROVE r0 \in Call /\ r0.tab = t /\ r0.kind = "me" /\ r0.me = me
    BY <1>1, <1>3, <2>1 DEF S!Request, Call
  <2> HIDE DEF r0
  <2>2. \A r \in new : token # None /\ r = r0
    BY DEF r0
  <2> QED BY <1>3, <2>1, <2>2
<1>5. \A q, r \in new : q = r
  OBVIOUS
<1>6. /\ tab' = [tab EXCEPT ![t] = w] /\ net' = calls /\ cause' = [cause EXCEPT ![t] = {}]
      /\ UNCHANGED <<token, stored, status, pref>>
  BY DEF S!Reloaded
<1> HIDE DEF w, new
<1>7. /\ \A r \in calls : r.tab = t => r \in new
      /\ \A r : r.tab # t => (r \in calls <=> r \in net)
      /\ Told(calls)
  BY <1>1, <1>4 DEF S!Asked, Told
<1> HIDE DEF calls
<1>8. Orderly(t, w, calls)
  BY <1>2, <1>4, <1>5, <1>7 DEF Orderly
<1>9. Clean(t, w, token, calls)
  BY <1>2, <1>4, <1>7 DEF Clean, Mine, S!Guarded
<1>10. \A s \in Tabs \ {t} : cause'[s] = {} => cause[s] = {}
  BY <1>1, <1>6
<1>11. DOMAIN cause' = Tabs
  BY <1>1, <1>6
<1> QED BY <1>1, <1>6, <1>7, <1>8, <1>9, <1>10, <1>11, OneTab

LEMMA KeptRestored ==
  ASSUME SessionInv, NEW t \in S!Opened, NEW r \in net, S!Restored(t, r), mix' = mix
  PROVE  SessionInv'
<1> USE PeopleAssumption
<1>1. /\ t \in Tabs /\ tab[t] \in Window /\ Orderly(t, tab[t], net) /\ (cause[t] = {} => Mine(t, tab[t], token, net))
      /\ token \in People \cup {None} /\ Told(net) /\ r.tab = t /\ r.kind = "me" /\ Follows(t, net \ {r})
      /\ UNCHANGED <<status, pref>> /\ r \in Call
  BY TheTab DEF S!Restored, Told
<1>2. /\ ~tab[t].ready /\ tab[t].page \notin S!Guarded
      /\ \A q \in net \ {r} : q.tab = t => q.kind # "me"
  BY <1>1 DEF Orderly
<1>3. Expected(t, tab[t], net \ {r})
  BY <1>1, Fitting
<1>4. CASE S!Logout(t, net \ {r}, [tab[t] EXCEPT !.ready = TRUE])
  <2> DEFINE w == [tab[t] EXCEPT !.ready = TRUE]
  <2>1. /\ w \in Window /\ w.user = tab[t].user /\ w.page = tab[t].page /\ w.goal = tab[t].goal
        /\ w.hydrated = tab[t].hydrated /\ w.badge = tab[t].badge
    BY <1>1 DEF Window
  <2> HIDE DEF w
  <2>2. Orderly(t, w, net \ {r})
    BY <1>1, <1>2, <1>3, <2>1 DEF Orderly, Expected
  <2>3. S!Logout(t, net \ {r}, w) /\ w.page \notin S!Guarded
    BY <1>2, <1>4, <2>1 DEF w
  <2> QED BY <1>1, <2>2, <2>3, LogsOut
<1>5. CASE /\ r.in /\ stored' = r.me.pref /\ UNCHANGED token
           /\ cause' = [cause EXCEPT ![t] = @ \cup (IF r.late THEN {"late"} ELSE {})]
           /\ \E reload \in BOOLEAN :
                LET row == [tab[t] EXCEPT !.pending = r.me, !.ready = TRUE,
                                          !.user = IF tab[t].hydrated THEN r.me ELSE @, !.reload = reload]
                IN  IF tab[t].hydrated THEN S!Shows(t, row, net \ {r})
                    ELSE tab' = [tab EXCEPT ![t] = row] /\ net' = net \ {r}
  <2>1. PICK reload \in BOOLEAN :
          LET row == [tab[t] EXCEPT !.pending = r.me, !.ready = TRUE,
                                    !.user = IF tab[t].hydrated THEN r.me ELSE @, !.reload = reload]
          IN  IF tab[t].hydrated THEN S!Shows(t, row, net \ {r})
              ELSE tab' = [tab EXCEPT ![t] = row] /\ net' = net \ {r}
    BY <1>5
  <2>2. r.me \in User /\ r.me # None /\ r.me.who \in People /\ r.me.pref \in S!Locale /\ r.me.who # None
    BY <1>1, <1>5 DEF Told, Telling, User
  <2> DEFINE w == [tab[t] EXCEPT !.pending = r.me, !.ready = TRUE,
                                 !.user = IF tab[t].hydrated THEN r.me ELSE @, !.reload = reload]
  <2>3. /\ w \in Window /\ w.user = (IF tab[t].hydrated THEN r.me ELSE tab[t].user) /\ w.pending = r.me
        /\ w.ready /\ w.hydrated = tab[t].hydrated /\ w.page = tab[t].page /\ w.goal = tab[t].goal
        /\ w.form = tab[t].form /\ w.badge = tab[t].badge
    <3> DEFINE user == IF tab[t].hydrated THEN r.me ELSE tab[t].user
               v == [tab[t] EXCEPT !.pending = r.me, !.ready = TRUE]
    <3>1. user \in User \cup {None} /\ v \in Window
      BY <1>1, <2>2 DEF Window
    <3>2. w = [v EXCEPT !.user = user, !.reload = reload]
      BY <1>1 DEF Window
    <3>3. /\ v.pending = r.me /\ v.ready /\ v.hydrated = tab[t].hydrated /\ v.page = tab[t].page
          /\ v.goal = tab[t].goal /\ v.form = tab[t].form /\ v.badge = tab[t].badge
      BY <1>1 DEF Window
    <3> HIDE DEF v, w, user
    <3>4. w \in Window /\ w.user = user
      BY <3>1, <3>2 DEF Window
    <3>5. /\ w.pending = v.pending /\ w.ready = v.ready /\ w.hydrated = v.hydrated /\ w.page = v.page
          /\ w.goal = v.goal /\ w.form = v.form /\ w.badge = v.badge
      BY <3>1, <3>2 DEF Window
    <3> QED BY <3>3, <3>4, <3>5 DEF user
  <2>4. IF tab[t].hydrated THEN S!Shows(t, w, net \ {r}) ELSE tab' = [tab EXCEPT ![t] = w] /\ net' = net \ {r}
    BY <2>1
  <2> HIDE DEF w
  <2>5. Orderly(t, w, net \ {r})
    BY <1>1, <1>2, <1>3, <2>3 DEF Orderly, Expected
  <2>6. DOMAIN cause' = Tabs /\ stored' \in S!Locale \cup {None} /\ (\A s \in Tabs \ {t} : cause'[s] = cause[s])
        /\ (cause'[t] = {} => cause[t] = {} /\ ~r.late)
        /\ pref' \in [People -> S!Locale] /\ status' \in [People -> {"new", "live", "gone"}]
    BY <1>1, <1>5, <2>2 DEF SessionInv
  <2>7. ASSUME cause'[t] = {} PROVE Mine(t, w, token, net \ {r})
    <3>1. r.me.who = token
      BY <1>1, <1>5, <2>6, <2>7 DEF Mine
    <3>2. \A q \in net \ {r} : q.tab = t /\ ~q.late =>
             /\ q.kind \in {"me", "save", "name", "lang"} /\ q.in => q.me.who = token
             /\ q.kind = "unread" => w.user # None /\ q.as = token
      BY <1>3, <2>2, <2>3, <2>6, <2>7 DEF Expected
    <3>3. tab[t].hydrated \/ tab[t].user = None
      BY <1>1 DEF Orderly
    <3> QED BY <1>2, <2>2, <2>3, <3>1, <3>2, <3>3 DEF Mine, S!Guarded
  <2>8. CASE tab[t].hydrated
    BY <1>1, <1>5, <2>4, <2>5, <2>6, <2>7, <2>8, Settles, SMTT(30) DEF S!Shows, S!Bearer
  <2>9. CASE ~tab[t].hydrated
    <3>1. w.badge = None
      BY <1>1, <2>3, <2>9 DEF Orderly
    <3>2. cause'[t] = {} => Clean(t, w, token, net \ {r})
      BY <2>7, <3>1 DEF Clean
    <3>3. Told(net \ {r}) /\ \A q : q.tab # t => (q \in net \ {r} <=> q \in net)
      BY <1>1 DEF Follows
    <3>4. tab' = [tab EXCEPT ![t] = w] /\ net' = net \ {r} /\ token' = token
      BY <1>5, <2>4, <2>9
    <3>5. \A s \in Tabs \ {t} : cause'[s] = {} => cause[s] = {} /\ (tab[s] = None \/ token = token)
      BY <2>6
    <3> QED BY <1>1, <2>5, <2>6, <3>2, <3>3, <3>4, <3>5, OneTab
  <2> QED BY <2>8, <2>9
<1>6. tab[t].reload \in BOOLEAN
  BY <1>1 DEF Window
<1> QED BY <1>4, <1>5, <1>6 DEF S!Restored

LEMMA KeptNavigate ==
  ASSUME SessionInv, NEW t \in S!Opened, NEW page \in {"list", "login", "register", "reset"} \cup S!Guarded,
         S!Navigate(t, page), mix' = mix
  PROVE  SessionInv'
<1>1. /\ t \in Tabs /\ tab[t] \in Window /\ Orderly(t, tab[t], net) /\ (cause[t] = {} => Clean(t, tab[t], token, net))
      /\ token \in People \cup {None} /\ Told(net) /\ Follows(t, net) /\ UNCHANGED <<token, stored, status, pref, cause>>
  BY TheTab DEF S!Navigate
<1>2. CASE page \in S!Guarded
  <2> DEFINE w == [tab[t] EXCEPT !.goal = page]
  <2>1. /\ w \in Window /\ w.user = tab[t].user /\ w.pending = tab[t].pending /\ w.hydrated = tab[t].hydrated
        /\ w.ready = tab[t].ready /\ w.page = tab[t].page /\ w.goal = page /\ w.form = tab[t].form /\ w.badge = tab[t].badge
    BY <1>1, <1>2 DEF Window
  <2>2. tab' = [tab EXCEPT ![t] = w] /\ net' = net
    BY <1>2 DEF S!Navigate
  <2> HIDE DEF w
  <2>3. Orderly(t, w, net)
    BY <1>1, <1>2, <2>1 DEF Orderly
  <2>4. cause[t] = {} => Clean(t, w, token, net)
    BY <1>1, <2>1 DEF Clean, Mine
  <2>5. /\ DOMAIN cause = Tabs /\ stored \in S!Locale \cup {None}
        /\ pref' \in [People -> S!Locale] /\ status' \in [People -> {"new", "live", "gone"}]
    BY <1>1 DEF SessionInv
  <2> QED BY <1>1, <2>2, <2>3, <2>4, <2>5, OneTab
<1>3. CASE page \notin S!Guarded
  <2>1. page \in Pages \ {"none"} /\ Follows(t, S!Left(t, page, net))
    BY <1>1, FollowedBy DEF Pages, S!Guarded
  <2>2. S!Shows(t, S!Goes(tab[t], page), S!Left(t, page, net))
    BY <1>3 DEF S!Navigate
  <2> QED BY <1>1, <1>3, <2>1, <2>2, Arrives
<1> QED BY <1>2, <1>3

LEMMA KeptGuard ==
  ASSUME SessionInv, NEW t \in S!Opened, S!Guard(t), mix' = mix
  PROVE  SessionInv'
<1>1. tab[t].ready /\ tab[t].hydrated /\ UNCHANGED <<token, stored, status, pref, cause>>
  BY DEF S!Guard, S!Interactive
<1>2. PICK to : /\ to \in {"login", "list", "admin", "profile"}
                /\ to \in {"admin", "profile"} => tab[t].user # None /\ (to = "admin" => tab[t].user.who \in Admins)
                /\ S!Shows(t, S!Goes(tab[t], to), S!Left(t, to, net))
  <2> DEFINE to == IF tab[t].goal = "admin" THEN S!AdminGuard(tab[t].user) ELSE S!AuthGuard(tab[t].user)
  <2>1. /\ to \in {"login", "list", "admin", "profile"}
        /\ to \in {"admin", "profile"} => tab[t].user # None /\ (to = "admin" => tab[t].user.who \in Admins)
    BY DEF S!AdminGuard, S!AuthGuard
  <2>2. S!Shows(t, S!Goes(tab[t], to), S!Left(t, to, net))
    BY DEF S!Guard
  <2> HIDE DEF to
  <2> QED BY <2>1, <2>2
<1>3. to \in Pages \ {"none"} /\ Follows(t, S!Left(t, to, net))
  BY <1>2, TheTab, FollowedBy DEF Pages, S!Guarded
<1> QED BY <1>1, <1>2, <1>3, Arrives DEF S!Guarded

LEMMA KeptShow ==
  ASSUME SessionInv, NEW t \in S!Opened, NEW view \in {"email", "password", "forgot"}, S!Show(t, view), mix' = mix
  PROVE  SessionInv'
<1> DEFINE w == [tab[t] EXCEPT !.view = view]
<1>1. Same(w, tab[t]) /\ Follows(t, net)
  BY SameTab, TheTab
<1>2. tab' = [tab EXCEPT ![t] = w] /\ UNCHANGED <<token, stored, status, pref, net, cause>>
  BY DEF S!Show
<1> HIDE DEF w
<1> QED BY <1>1, <1>2, Stays

LEMMA KeptSubmit ==
  ASSUME SessionInv, NEW t \in S!Opened, NEW page, NEW kind \in {"otp", "forgot", "session"}, NEW p \in People,
         NEW me \in User \cup {None}, kind = "session" => me \in User, S!Submit(t, page, kind, p, me),
         status' \in [People -> {"new", "live", "gone"}], mix' = mix
  PROVE  SessionInv'
<1> DEFINE w == [tab[t] EXCEPT !.busy = TRUE]
<1>1. Same(w, tab[t]) /\ tab[t].hydrated
  BY SameTab DEF S!Submit
<1>2. /\ tab' = [tab EXCEPT ![t] = w] /\ net' = net \cup {S!Request(t, kind, p, me)}
      /\ UNCHANGED <<token, stored, pref, cause>>
  BY DEF S!Submit
<1>3. pref' \in [People -> S!Locale] /\ w.hydrated
  BY <1>1, <1>2 DEF SessionInv, Same
<1> HIDE DEF w
<1>4. p \in People \cup {None} /\ me \in User \cup [who : {None}, pref : S!Locale] \cup {None}
      /\ kind \in {"otp", "forgot", "session", "save", "name", "lang", "delete"}
      /\ (kind \in Telling => kind = "session") /\ kind \notin {"save", "name", "lang"}
  BY DEF Telling
<1> QED BY <1>1, <1>2, <1>3, <1>4, Sending

LEMMA KeptSubmits ==
  ASSUME SessionInv, NEW t \in S!Opened, NEW p \in People, mix' = mix,
         S!SendOtp(t, p) \/ S!SubmitForgot(t, p) \/ S!VerifyOtp(t, p) \/ S!Login(t, p) \/ S!Register(t, p)
            \/ S!ResetPassword(t, p)
  PROVE  SessionInv'
<1>1. S!Me(p) \in User /\ status' \in [People -> {"new", "live", "gone"}]
  BY DEF S!Me, User, SessionInv, S!SendOtp, S!SubmitForgot, S!VerifyOtp, S!Login, S!Register, S!ResetPassword
<1>2. \/ S!Submit(t, "login", "otp", p, None) \/ S!Submit(t, "login", "forgot", p, None)
      \/ \E page \in {"login", "register", "reset"} : S!Submit(t, page, "session", p, S!Me(p))
  BY DEF S!SendOtp, S!SubmitForgot, S!VerifyOtp, S!Login, S!Register, S!ResetPassword
<1>3. None \in User \cup {None}
  OBVIOUS
<1>4. CASE S!Submit(t, "login", "otp", p, None)
  BY <1>1, <1>3, <1>4, KeptSubmit
<1>5. CASE S!Submit(t, "login", "forgot", p, None)
  BY <1>1, <1>3, <1>5, KeptSubmit
<1>6. CASE \E page \in {"login", "register", "reset"} : S!Submit(t, page, "session", p, S!Me(p))
  BY <1>1, <1>6, KeptSubmit, SMTT(30)
<1> QED BY <1>2, <1>4, <1>5, <1>6

\* An answer that leaves whom the tab shows.
LEMMA KeptAnswered ==
  ASSUME SessionInv, NEW t \in S!Opened, NEW r \in net, r.tab = t, r.kind # "unread", mix' = mix,
         NEW w, Same(w, tab[t]), tab' = [tab EXCEPT ![t] = w],
         net' = net \ {r}, UNCHANGED <<token, stored, status, pref, cause>>
  PROVE  SessionInv'
<1>1. Follows(t, net \ {r})
  BY ONLY SessionInv, t \in S!Opened, r.tab = t, TheTab
<1>2. \A q \in net : q.tab = t /\ q.kind = "unread" => q \in net \ {r}
  OBVIOUS
<1>3. /\ net' = net \ {r} /\ UNCHANGED <<token, stored, status, pref, cause, mix>>
      /\ Same(w, tab[t]) /\ tab' = [tab EXCEPT ![t] = w]
  OBVIOUS
<1> QED BY ONLY SessionInv, t \in S!Opened, <1>1, <1>2, <1>3, Stays

LEMMA KeptOtpSent ==
  ASSUME SessionInv, NEW t \in S!Opened, NEW r \in net, S!OtpSent(t, r) \/ S!Fails(t, r), mix' = mix
  PROVE  SessionInv'
<1>1. tab[t] \in Window
  BY TheTab
<1>2. /\ r.tab = t /\ r.kind # "unread" /\ net' = net \ {r} /\ UNCHANGED <<token, stored, status, pref, cause, mix>>
  BY DEF S!OtpSent, S!Fails
<1>3. CASE tab' = tab
  <2>1. Same(tab[t], tab[t]) /\ tab' = [tab EXCEPT ![t] = tab[t]]
    BY <1>3, SameTab
  <2> QED BY ONLY SessionInv, t \in S!Opened, r \in net, <1>2, <2>1, KeptAnswered
<1>4. CASE S!OtpSent(t, r) /\ ~r.gone
  <2>1. PICK view \in {tab[t].view} \cup (IF r.kind = "otp" THEN {"otp"} ELSE {}) :
          tab' = [tab EXCEPT ![t].busy = FALSE, ![t].view = view]
    BY <1>4 DEF S!OtpSent
  <2>2. view \in {"email", "password", "forgot", "otp"}
    BY <1>1 DEF Window
  <2> PICK w : w = [tab[t] EXCEPT !.busy = FALSE, !.view = view]
    OBVIOUS
  <2>3. Same(w, tab[t]) /\ tab' = [tab EXCEPT ![t] = w]
    BY <2>1, <2>2, SameTab, TheTab DEF SessionInv
  <2> QED BY ONLY SessionInv, t \in S!Opened, r \in net, <1>2, <2>3, KeptAnswered
<1> QED BY <1>3, <1>4 DEF S!OtpSent, S!Fails

LEMMA KeptSignedIn ==
  ASSUME SessionInv, NEW t \in S!Opened, NEW r \in net, S!SignedIn(t, r), mix' = mix
  PROVE  SessionInv'
<1> USE PeopleAssumption
<1>1. /\ t \in Tabs /\ tab[t] \in Window /\ tab[t] # None /\ Orderly(t, tab[t], net) /\ Told(net) /\ Follows(t, net \ {r}) /\ r \in Call
      /\ r.tab = t /\ r.kind = "session" /\ UNCHANGED <<status, pref>> /\ DOMAIN cause = Tabs
  BY TheTab DEF S!SignedIn, Told, SessionInv, S!Opened
<1>2. tab[t].hydrated
  BY <1>1 DEF Orderly
<1>3. CASE r.in /\ S!SetSession(t, r.me, S!Left(t, "list", net \ {r}), S!Goes(tab[t], "list"))
  <2>1. r.me \in User /\ r.me # None /\ r.me.who \in People /\ r.me.pref \in S!Locale /\ r.me.who # None
    BY <1>1, <1>3 DEF Told, Telling, User
  <2> DEFINE left == S!Left(t, "list", net \ {r})
             calls == S!Late(t, left)
             row == S!Goes(tab[t], "list")
             w == [row EXCEPT !.user = r.me, !.pending = r.me, !.reload = @ \/ S!LocaleChanges(r.me)]
  <2>2. /\ row \in Window /\ row.page = "list" /\ row.hydrated /\ row.ready = tab[t].ready /\ row.badge = tab[t].badge
    BY <1>1, <1>2, Going DEF Pages
  <2>3. Follows(t, left) /\ Follows(t, calls) /\ (\A q \in calls : q.tab = t => q.late)
    BY <1>1, FollowedBy
  <2>4. Expected(t, tab[t], calls)
    BY <2>3, Fitting
  <2>5. /\ token' = r.me.who /\ stored' = r.me.pref /\ cause' = [S!Others(t, r.me.who) EXCEPT ![t] = {}]
        /\ tab' = [tab EXCEPT ![t] = w] /\ net' = calls \cup S!Unread(t, w, r.me.who)
    BY <1>3 DEF S!SetSession
  <2> HIDE DEF row, calls, left
  <2>6. S!LocaleChanges(r.me) \in BOOLEAN
    BY DEF S!LocaleChanges
  <2>7. w \in Window /\ w.user = r.me /\ w.pending = r.me /\ w.page = "list" /\ w.hydrated /\ w.ready = row.ready /\ w.badge = row.badge
    BY <2>1, <2>2, <2>6 DEF Window
  <2> HIDE DEF w
  <2>8. S!Badge(w) = w
    BY <2>1, <2>7 DEF S!Badge
  <2>9. Orderly(t, w, calls)
    BY <1>1, <2>2, <2>4, <2>7 DEF Orderly, Expected, S!Guarded
  <2>10. Mine(t, w, r.me.who, calls)
    BY <2>1, <2>3, <2>7 DEF Mine, S!Guarded
  <2>11. DOMAIN cause' = Tabs /\ \A s \in Tabs \ {t} : cause'[s] = {} => cause[s] = {} /\ (tab[s] = None \/ r.me.who = token)
    BY <2>5 DEF S!Others, S!Opened
  <2>12. /\ tab' = [tab EXCEPT ![t] = S!Badge(w)] /\ r.me.who \in People \cup {None} /\ stored' \in S!Locale \cup {None}
         /\ UNCHANGED <<status, pref, mix>>
    BY <1>1, <2>1, <2>5, <2>8
  <2> PICK bearer \in People \cup {None} : bearer = r.me.who
    BY <2>12
  <2>13. /\ t \in Tabs /\ Follows(t, calls) /\ Orderly(t, w, calls) /\ Mine(t, w, bearer, calls)
         /\ tab' = [tab EXCEPT ![t] = S!Badge(w)] /\ net' = calls \cup S!Unread(t, w, bearer) /\ token' = bearer
         /\ UNCHANGED <<status, pref>> /\ stored' \in S!Locale \cup {None} /\ DOMAIN cause' = Tabs
         /\ \A s \in Tabs \ {t} : cause'[s] = {} => cause[s] = {} /\ (tab[s] = None \/ bearer = token)
    BY <1>1, <2>3, <2>5, <2>9, <2>10, <2>11, <2>12
  <2> QED BY ONLY SessionInv, <2>13, mix' = mix, bearer \in People \cup {None}, Settles
<1>4. CASE /\ tab' = IF r.gone THEN tab ELSE [tab EXCEPT ![t].busy = FALSE]
           /\ net' = net \ {r} /\ UNCHANGED <<token, stored, cause>>
  <2>1. r.kind # "unread" /\ mix' = mix /\ net' = net \ {r} /\ r.tab = t /\ UNCHANGED <<token, stored, status, pref, cause>>
    BY <1>1, <1>4
  <2>2. PICK w : w = IF r.gone THEN tab[t] ELSE [tab[t] EXCEPT !.busy = FALSE]
    OBVIOUS
  <2>3. tab' = [tab EXCEPT ![t] = w]
    <3>1. CASE r.gone
      BY <1>4, <2>2, <3>1, SameTab
    <3>2. CASE ~r.gone
      BY ONLY <1>4, <2>2, <3>2
    <3> QED BY <3>1, <3>2
  <2>4. Same(w, tab[t])
    <3> PICK v \in Window : v = tab[t]
      BY <1>1
    <3>1. Same([v EXCEPT !.busy = FALSE], v) /\ Same(v, v)
      BY DEF Window, Same
    <3> QED BY <2>2, <3>1
  <2> QED BY ONLY SessionInv, t \in S!Opened, r \in net, <2>1, <2>3, <2>4, KeptAnswered
<1> QED BY <1>3, <1>4 DEF S!SignedIn

\* Whoever is signed out is led to a page anybody may see.
LEMMA KeptLeaving ==
  ASSUME SessionInv, NEW t \in S!Opened, NEW page \in {"list", "login"}, NEW calls, Follows(t, calls),
         S!Logout(t, S!Left(t, page, calls), S!Goes(tab[t], page)), UNCHANGED <<status, pref, mix>>
  PROVE  SessionInv'
<1> DEFINE left == S!Left(t, page, calls)
           row == S!Goes(tab[t], page)
<1>1. tab[t] \in Window /\ Orderly(t, tab[t], net) /\ Follows(t, left)
  BY TheTab, FollowedBy
<1>2. /\ row \in Window /\ row.page = page /\ row.user = tab[t].user /\ row.hydrated = tab[t].hydrated
      /\ row.ready = tab[t].ready /\ row.badge = tab[t].badge
  BY <1>1, Going DEF Pages
<1>3. S!Logout(t, left, row)
  OBVIOUS
<1> HIDE DEF left, row
<1>4. Expected(t, tab[t], left)
  BY <1>1, Fitting
<1>5. Orderly(t, row, left) /\ row.page \notin S!Guarded
  BY <1>1, <1>2, <1>4 DEF Orderly, Expected, S!Guarded
<1> QED BY <1>1, <1>3, <1>5, LogsOut

LEMMA KeptSignedOut ==
  ASSUME SessionInv, NEW t \in S!Opened, mix' = mix,
         S!SignOut(t) \/ \E r \in net : S!Deleted(t, r) \/ S!Refused(t, r)
  PROVE  SessionInv'
<1>1. Follows(t, net) /\ \A r : r.tab = t => Follows(t, net \ {r})
  BY TheTab
<1>2. CASE S!SignOut(t)
  BY <1>1, <1>2, KeptLeaving DEF S!SignOut
<1>3. ASSUME NEW r \in net, S!Deleted(t, r) \/ S!Refused(t, r) PROVE SessionInv'
  <2>1. Follows(t, net \ {r})
    BY <1>1, <1>3 DEF S!Deleted, S!Refused
  <2> QED BY <1>3, <2>1, KeptLeaving DEF S!Deleted, S!Refused
<1> QED BY <1>2, <1>3

LEMMA KeptSends ==
  ASSUME SessionInv, NEW t \in S!Opened, NEW kind \in {"save", "name", "lang", "delete"},
         NEW me \in User \cup [who : {None}, pref : S!Locale] \cup {None},
         kind # "delete" /\ token # None => me \in User /\ me.who = token, tab[t].hydrated,
         S!Sends(t, kind, me), UNCHANGED <<tab, token, stored, cause, mix>>,
         pref' \in [People -> S!Locale], status' \in [People -> {"new", "live", "gone"}]
  PROVE  SessionInv'
<1>1. Same(tab[t], tab[t]) /\ tab' = [tab EXCEPT ![t] = tab[t]] /\ token \in People \cup {None}
  BY SameTab, TheTab
<1>2. net' = net \cup {S!Request(t, kind, token, me)}
  BY DEF S!Sends
<1>3. /\ kind \in {"otp", "forgot", "session", "save", "name", "lang", "delete"}
      /\ (kind \in Telling /\ token # None => me \in User)
      /\ (kind \in {"save", "name", "lang"} /\ token # None => me.who = token)
  BY DEF Telling
<1> QED BY <1>1, <1>2, <1>3, Sending

LEMMA KeptAsks ==
  ASSUME SessionInv, NEW t \in S!Opened, mix' = mix,
         \/ S!SaveName(t) \/ S!ToggleLang(t) \/ S!DeleteAccount(t)
         \/ \E locale \in S!Locale : S!OnSaveProfile(t, locale)
  PROVE  SessionInv'
<1> USE PeopleAssumption
<1>1. /\ tab[t] \in Window /\ Orderly(t, tab[t], net) /\ token \in People \cup {None}
      /\ pref \in [People -> S!Locale] /\ status \in [People -> {"new", "live", "gone"}]
  BY TheTab DEF SessionInv
<1>2. /\ S!MyRow \in User \cup {None} /\ (token # None => S!MyRow \in User /\ S!MyRow.who = token)
  BY <1>1 DEF S!MyRow, S!Me, User
<1>3. tab[t].user # None \/ tab[t].page \in S!Guarded => tab[t].hydrated
  BY <1>1 DEF Orderly
<1>4. CASE S!SaveName(t)
  BY <1>1, <1>2, <1>3, <1>4, KeptSends DEF S!SaveName
<1>5. CASE S!ToggleLang(t)
  BY <1>1, <1>2, <1>3, <1>5, KeptSends DEF S!ToggleLang
<1>6. CASE S!DeleteAccount(t)
  <2>1. tab[t].hydrated /\ tab[t].user \in User \cup {None}
    BY <1>1, <1>3, <1>6 DEF S!DeleteAccount, S!Guarded, Window
  <2>2. status' \in [People -> {"new", "live", "gone"}]
    BY <1>1, <1>6 DEF S!DeleteAccount
  <2> QED BY <1>1, <1>6, <2>1, <2>2, KeptSends DEF S!DeleteAccount
<1>7. ASSUME NEW locale \in S!Locale, S!OnSaveProfile(t, locale) PROVE SessionInv'
  <2> DEFINE me == [who |-> token, pref |-> locale]
  <2>1. tab[t].hydrated /\ pref' \in [People -> S!Locale]
    BY <1>1, <1>3, <1>7 DEF S!OnSaveProfile, S!Guarded
  <2>2. me \in User \cup [who : {None}, pref : S!Locale] \cup {None} /\ (token # None => me \in User /\ me.who = token)
    BY <1>1 DEF User
  <2>3. S!Sends(t, "save", me) /\ UNCHANGED <<tab, token, stored, status, cause>>
    BY <1>7 DEF S!OnSaveProfile
  <2> HIDE DEF me
  <2> QED BY <1>1, <2>1, <2>2, <2>3, KeptSends
<1> QED BY <1>4, <1>5, <1>6, <1>7

LEMMA KeptSaved ==
  ASSUME SessionInv, NEW t \in S!Opened, NEW r \in net, S!Saved(t, r), mix' = mix
  PROVE  SessionInv'
<1> USE PeopleAssumption
<1>1. /\ t \in Tabs /\ tab[t] \in Window /\ Orderly(t, tab[t], net) /\ (cause[t] = {} => Mine(t, tab[t], token, net))
      /\ token \in People \cup {None} /\ Told(net) /\ Follows(t, net \ {r}) /\ DOMAIN cause = Tabs /\ r \in Call
      /\ r.tab = t /\ r.kind \in {"save", "name", "lang"} /\ r.in /\ UNCHANGED <<token, status, pref>>
      /\ stored \in S!Locale \cup {None}
  BY TheTab DEF S!Saved, SessionInv, Told
<1>2. r.me \in User /\ r.me # None /\ r.me.who \in People /\ r.me.pref \in S!Locale /\ tab[t].hydrated
  BY <1>1 DEF Told, Telling, User, Orderly
<1>3. PICK goal \in {tab[t].goal, "profile"}, reload \in BOOLEAN :
        S!Shows(t, [tab[t] EXCEPT !.user = r.me, !.goal = goal, !.reload = reload], net \ {r})
  <2>1. tab[t].reload \in BOOLEAN
    BY <1>1 DEF Window
  <2> QED BY <2>1 DEF S!Saved
<1> DEFINE w == [tab[t] EXCEPT !.user = r.me, !.goal = goal, !.reload = reload]
<1>4. /\ w \in Window /\ w.user = r.me /\ w.pending = tab[t].pending /\ w.hydrated = tab[t].hydrated
      /\ w.ready = tab[t].ready /\ w.page = tab[t].page /\ w.goal = goal /\ w.form = tab[t].form /\ w.badge = tab[t].badge
  <2>1. goal \in S!Guarded \cup {None}
    BY <1>1 DEF Window, S!Guarded
  <2> QED BY <1>1, <1>2, <2>1 DEF Window
<1>5. tab' = [tab EXCEPT ![t] = S!Badge(w)] /\ net' = (net \ {r}) \cup S!Unread(t, w, token)
  BY <1>2, <1>3 DEF S!Shows, S!Bearer
<1> HIDE DEF w
<1>6. Expected(t, tab[t], net \ {r})
  BY <1>1, Fitting
<1>7. Orderly(t, w, net \ {r})
  BY <1>1, <1>2, <1>4, <1>6 DEF Orderly, Expected, S!Guarded
<1>8. /\ DOMAIN cause' = Tabs /\ stored' \in S!Locale \cup {None} /\ (\A s \in Tabs \ {t} : cause'[s] = cause[s])
      /\ (cause'[t] = {} => cause[t] = {} /\ ~r.late)
  BY <1>1, <1>2 DEF S!Saved
<1>9. ASSUME cause'[t] = {} PROVE Mine(t, w, token, net \ {r})
  <2>1. r.me.who = token
    BY <1>1, <1>8, <1>9 DEF Mine
  <2>2. \A q \in net \ {r} : q.tab = t /\ ~q.late =>
           /\ q.kind \in {"me", "save", "name", "lang"} /\ q.in => q.me.who = token
           /\ q.kind = "unread" => w.user # None /\ q.as = token
    BY <1>2, <1>4, <1>6, <1>8, <1>9 DEF Expected
  <2>3. w.page = "admin" => w.user.who \in Admins
    BY <1>1, <1>4, <1>8, <1>9, <2>1 DEF Mine, S!Guarded
  <2> QED BY <1>1, <1>2, <1>4, <1>8, <1>9, <2>1, <2>2, <2>3 DEF Mine
<1> QED BY <1>1, <1>5, <1>7, <1>8, <1>9, Settles

LEMMA KeptCounted ==
  ASSUME SessionInv, NEW t \in S!Opened, NEW r \in net, S!Counted(t, r), mix' = mix
  PROVE  SessionInv'
<1>1. /\ t \in Tabs /\ tab[t] \in Window /\ Orderly(t, tab[t], net) /\ (cause[t] = {} => Mine(t, tab[t], token, net))
      /\ token \in People \cup {None} /\ Follows(t, net \ {r}) /\ DOMAIN cause = Tabs /\ r \in Call
      /\ r.tab = t /\ r.kind = "unread" /\ UNCHANGED <<token, stored, status, pref>> /\ net' = net \ {r}
      /\ stored \in S!Locale \cup {None}
      /\ pref' \in [People -> S!Locale] /\ status' \in [People -> {"new", "live", "gone"}]
  BY TheTab DEF S!Counted, SessionInv, Told
<1>2. PICK badge \in {r.as, None} :
        /\ tab' = [tab EXCEPT ![t] = [tab[t] EXCEPT !.badge = badge]]
        /\ \/ cause' = [cause EXCEPT ![t] = @ \cup (IF r.late THEN {"late"} ELSE {})]
           \/ badge = None /\ cause' = cause
  BY DEF S!Counted
<1> DEFINE w == [tab[t] EXCEPT !.badge = badge]
<1>3. /\ w \in Window /\ w.user = tab[t].user /\ w.pending = tab[t].pending /\ w.hydrated = tab[t].hydrated
      /\ w.ready = tab[t].ready /\ w.page = tab[t].page /\ w.goal = tab[t].goal /\ w.form = tab[t].form /\ w.badge = badge
  <2>1. badge \in People \cup {None}
    BY <1>1 DEF Call
  <2> QED BY <1>1, <2>1 DEF Window
<1>4. tab' = [tab EXCEPT ![t] = w]
  BY <1>2
<1> HIDE DEF w
<1>5. Expected(t, tab[t], net \ {r})
  BY <1>1, Fitting
<1>6. Orderly(t, w, net \ {r})
  BY <1>1, <1>3, <1>5 DEF Orderly, Expected
<1>7. /\ DOMAIN cause' = Tabs /\ (\A s \in Tabs \ {t} : cause'[s] = cause[s])
      /\ (cause'[t] = {} => cause[t] = {} /\ (~r.late \/ badge = None))
  BY <1>1, <1>2
<1>8. ASSUME cause'[t] = {} PROVE Clean(t, w, token, net \ {r})
  <2>1. Mine(t, w, token, net \ {r})
    BY <1>1, <1>3, <1>5, <1>7, <1>8 DEF Mine, Expected
  <2>2. badge = None \/ (tab[t].user # None /\ badge = token)
    BY <1>1, <1>2, <1>7, <1>8 DEF Mine
  <2> QED BY <1>3, <2>1, <2>2 DEF Clean
<1>9. Told(net \ {r}) /\ (\A q : q.tab # t => (q \in net \ {r} <=> q \in net))
      /\ \A s \in Tabs \ {t} : cause'[s] = {} => cause[s] = {} /\ (tab[s] = None \/ token = token)
  BY <1>1, <1>7 DEF Follows
<1> QED BY <1>1, <1>4, <1>6, <1>7, <1>8, <1>9, OneTab

LEMMA KeptBan ==
  ASSUME SessionInv, NEW p \in People, S!Ban(p), mix' = mix
  PROVE  SessionInv'
<1>1. UNCHANGED <<tab, token, stored, pref, net, cause, mix>> /\ status' \in [People -> {"new", "live", "gone"}]
  BY DEF S!Ban, SessionInv
<1> QED BY <1>1 DEF SessionInv, Orderly, Clean, Mine

LEMMA KeptReloads ==
  ASSUME SessionInv, mix' = mix,
         \/ \E t \in S!Opened : S!Reload(t) \/ S!Refresh(t)
         \/ \E t \in Tabs : S!Open(t)
  PROVE  SessionInv'
<1>1. \A t \in S!Opened : S!At(t) \in Pages \ {"none"}
  <2> TAKE t \in S!Opened
  <2>1. tab[t] \in Window /\ Orderly(t, tab[t], net)
    BY TheTab
  <2> QED BY <2>1 DEF S!At, Orderly, Window, Pages, S!Guarded
<1>2. S!Opened \subseteq Tabs
  BY DEF S!Opened
<1>3. "list" \in Pages \ {"none"}
  BY DEF Pages
<1> QED BY <1>1, <1>2, <1>3, KeptReloaded DEF S!Reload, S!Refresh, S!Open

LEMMA SessionKept ==
  ASSUME SessionInv, S!Next
  PROVE  SessionInv'
<1>1. mix' = mix
  BY DEF S!Next
<1>2. ASSUME NEW t \in S!Opened, S!Hydrate(t) \/ S!Reload(t) \/ S!Guard(t) PROVE SessionInv'
  BY <1>1, <1>2, KeptHydrate, KeptReloads, KeptGuard
<1>3. ASSUME NEW t \in S!Opened, S!Answer(t) PROVE SessionInv'
  <2>1. PICK r \in net :
          \/ S!Restored(t, r) \/ S!OtpSent(t, r) \/ S!SignedIn(t, r) \/ S!Saved(t, r)
          \/ S!Deleted(t, r) \/ S!Counted(t, r) \/ S!Refused(t, r) \/ S!Fails(t, r)
    BY <1>3 DEF S!Answer
  <2> QED BY <1>1, <2>1, KeptRestored, KeptOtpSent, KeptSignedIn, KeptSaved, KeptSignedOut, KeptCounted
<1>4. ASSUME NEW t \in S!Opened, S!Somebody(t) PROVE SessionInv'
  <2>1. ASSUME NEW page \in {"list", "login", "register", "reset"} \cup S!Guarded, S!Navigate(t, page) PROVE SessionInv'
    BY <1>1, <2>1, KeptNavigate
  <2>2. ASSUME NEW view \in {"email", "password", "forgot"}, S!Show(t, view) PROVE SessionInv'
    BY <1>1, <2>2, KeptShow
  <2>3. ASSUME NEW p \in People,
               S!SendOtp(t, p) \/ S!SubmitForgot(t, p) \/ S!VerifyOtp(t, p) \/ S!Login(t, p) \/ S!Register(t, p)
                  \/ S!ResetPassword(t, p)
        PROVE SessionInv'
    BY <1>1, <2>3, KeptSubmits
  <2>4. CASE S!SignOut(t)
    BY <1>1, <2>4, KeptSignedOut
  <2>5. CASE S!SaveName(t) \/ S!ToggleLang(t) \/ S!DeleteAccount(t) \/ \E locale \in S!Locale : S!OnSaveProfile(t, locale)
    BY <1>1, <2>5, KeptAsks
  <2>6. CASE S!Refresh(t)
    BY <1>1, <2>6, KeptReloads
  <2> QED BY <1>4, <2>1, <2>2, <2>3, <2>4, <2>5, <2>6 DEF S!Somebody
<1>5. ASSUME NEW t \in Tabs, S!Open(t) PROVE SessionInv'
  BY <1>1, <1>5, KeptReloads
<1>6. ASSUME NEW p \in People, S!Ban(p) PROVE SessionInv'
  BY <1>1, <1>6, KeptBan
<1> QED BY <1>2, <1>3, <1>4, <1>5, <1>6 DEF S!Next

LEMMA SessionStart ==
  ASSUME S!Init
  PROVE  SessionInv
<1> USE PeopleAssumption
<1>1. /\ token \in People \cup {None} /\ status \in [People -> {"new", "live", "gone"}] /\ pref \in [People -> S!Locale]
      /\ DOMAIN cause = Tabs
  BY DEF S!Init
<1>2. stored \in S!Locale \cup {None}
  BY <1>1 DEF S!Init, S!Locale
<1>3. PICK first \in Tabs :
        /\ tab = [t \in Tabs |-> IF t = first THEN S!Bootstrap("list") ELSE None]
        /\ net = IF token = None THEN {} ELSE {S!Request(first, "me", token, S!Me(token))}
  BY DEF S!Init
<1> DEFINE w == S!Bootstrap("list")
<1>4. /\ w \in Window /\ w.user = None /\ w.pending = None /\ ~w.hydrated /\ (w.ready <=> token = None) /\ w.badge = None
      /\ w.page = "list"
  BY <1>2 DEF S!Bootstrap, Window, Pages, S!Guarded, S!Locale
<1>5. \A r \in net : /\ r \in Call /\ r.tab = first /\ r.kind = "me" /\ r.me \in User /\ r.me.who = token /\ token # None
  <2> PICK me : me = S!Me(token)
    OBVIOUS
  <2> DEFINE r0 == S!Request(first, "me", token, me)
  <2>1. ASSUME token # None PROVE S!Me(token) \in User /\ S!Me(token).who = token /\ S!Live(token) \in BOOLEAN
    BY <1>1, <2>1 DEF S!Me, User, S!Live
  <2>2. ASSUME token # None PROVE r0 \in Call /\ r0.tab = first /\ r0.kind = "me" /\ r0.me = me
    BY <1>1, <2>1, <2>2 DEF S!Request, Call
  <2> HIDE DEF r0
  <2>3. \A r \in net : token # None /\ r = r0
    BY <1>3 DEF r0
  <2> QED BY <2>1, <2>2, <2>3
<1>6. \A q, r \in net : q = r
  BY <1>3
<1> HIDE DEF w
<1>7. Told(net) /\ Orderly(first, w, net) /\ Clean(first, w, token, net)
  BY <1>4, <1>5, <1>6 DEF Told, Orderly, Clean, Mine, S!Guarded
<1>8. tab \in [Tabs -> Window \cup {None}] /\ \A t \in Tabs : tab[t] # None => t = first /\ tab[t] = w
  BY <1>3, <1>4 DEF w
<1> QED BY <1>1, <1>2, <1>7, <1>8 DEF SessionInv

\* Whom a tab shows is who it acts as, unless another tab signed somebody in or out or an
\* answer of an earlier session came late (restoreSession, setSession, logout,
\* updateCurrentUser, the guards and the badge).
THEOREM TabsShowWhoActs == HostSpec => []ShownIsActing
<1> USE PeopleAssumption
<1> DEFINE Inv == part = "session" => SessionInv
<1>1. HostInit => Inv
  BY SessionStart DEF HostInit, AccountsInit, SessionInit
<1>2. Inv /\ [AccountsStep \/ SessionStep]_all => Inv'
  <2> SUFFICES ASSUME Inv, [AccountsStep \/ SessionStep]_all, part' = "session" PROVE SessionInv'
    OBVIOUS
  <2>1. CASE AccountsStep
    BY <2>1 DEF AccountsStep
  <2>2. CASE SessionStep
    BY <2>2, SessionKept DEF SessionStep
  <2>3. CASE UNCHANGED all
    BY <2>3 DEF all, sessionVars, SessionInv, Orderly, Clean, Mine
  <2> QED BY <2>1, <2>2, <2>3
<1>3. Inv => ShownIsActing
  <2> SUFFICES ASSUME SessionInv, NEW t \in S!Opened, cause[t] = {}
               PROVE  LET w == tab[t]  who == IF w.user = None THEN None ELSE w.user.who IN
                      /\ S!Interactive(t) => who = token
                      /\ w.badge \in {None, who} \/ \E r \in S!Asked(t) : r.kind = "unread" /\ ~r.late
                      /\ w.page \in S!Guarded => who # None /\ (w.page = "admin" => who \in Admins)
                      /\ w.page = "profile" => w.form = token
    BY DEF ShownIsActing, S!ShownIsActing
  <2>1. tab[t] \in Window /\ Orderly(t, tab[t], net) /\ Clean(t, tab[t], token, net) /\ Mine(t, tab[t], token, net)
    BY TheTab
  <2>2. tab[t].user # None => tab[t].user.who \in People /\ tab[t].user.who # None
    BY <2>1 DEF Window, User
  <2>3. S!Interactive(t) => (IF tab[t].user = None THEN None ELSE tab[t].user.who) = token
    BY <2>1 DEF S!Interactive, Mine
  <2>4. \/ tab[t].badge \in {None, IF tab[t].user = None THEN None ELSE tab[t].user.who}
        \/ \E r \in S!Asked(t) : r.kind = "unread" /\ ~r.late
    BY <2>1 DEF Clean, Mine, S!Asked
  <2> QED BY <2>1, <2>2, <2>3, <2>4 DEF Mine
<1> QED BY <1>1, <1>2, <1>3, PTL DEF HostSpec
=============================================================================
