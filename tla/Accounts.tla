------------------------------ MODULE Accounts ------------------------------
(***************************************************************************)
(* The accounts of one address: auth/auth.service.ts, users.service.ts,    *)
(* the row of communities/account-deletion.service.ts and the cached       *)
(* account state of auth/jwt.strategy.ts.                                  *)
(*                                                                         *)
(* Signing in by a code claims an attempt in one UPDATE, and reads the     *)
(* account before it deletes the codes.  Profile, ban, role, password and  *)
(* verification save the whole row they read.  A deleted account stays as  *)
(* a shell under another address.  Requests pass on the account's state    *)
(* cached for some ticks.                                                  *)
(***************************************************************************)
EXTENDS Integers

CONSTANTS
    Account,     \* account ids, each handed out once
    Code,        \* one-time codes, each handed out once
    Link,        \* reset links, each handed out once
    Proc,        \* concurrent requests
    None,        \* no account, code or link
    MaxAttempts, \* OTP_MAX_ATTEMPTS
    Ttl,         \* AUTH_CACHE_MS in ticks
    Mixes        \* the mixes of operations of which a behaviour has one

ASSUME AttemptsAssumption == MaxAttempts \in Nat \ {0}
ASSUME TtlAssumption == Ttl \in Nat
ASSUME IdsAssumption == None \notin Account \cup Code \cup Link /\ Code \cap Link = {}

VARIABLES
    users,    \* rows of the users that were created
    codes,    \* rows of otp_tokens of the address: attempts and age
    latest,   \* the code created last
    links,    \* rows of password_reset_tokens: whose, and "open" or "used"
    cache,    \* the cached state of an account and for how many ticks it holds
    spent,    \* codes that have signed somebody in, links that have set a password
    guesses,  \* how often a code was compared with a guess
    since,    \* ticks since an account was last neither banned nor deleted
    issued,   \* codes and links handed out
    req,      \* what each request is doing
    ops       \* the operations in play

vars == <<users, codes, latest, links, cache, spent, guesses, since, issued, req, ops>>
tokens == <<codes, latest, links, spent, guesses, issued>>

Row == [verified: BOOLEAN, admin: BOOLEAN, banned: BOOLEAN, deleted: BOOLEAN,
        password: {"none", "first", "reset"}]
NoRow == [verified |-> FALSE, admin |-> FALSE, banned |-> FALSE, deleted |-> TRUE,
          password |-> "none"]
Age == {"fresh", "ripe", "expired"}
Step == {"clear", "issue", "claim", "existing", "consume", "signIn", "register",
         "lookup", "in", "profile", "target", "ban", "unban", "role", "delete",
         "dropLinks", "issueLink", "link", "hashed", "used", "others"}

\* A request: its account, the row it read, its code or link, whether a guess is
\* right, and the cached state a lookup is about to store.
Request == [step: Step \cup {"idle"}, who: Account \cup {None}, row: Row,
            token: Code \cup Link \cup {None}, right: BOOLEAN, left: 0 .. Ttl]
Idle == [step |-> "idle", who |-> None, row |-> NoRow, token |-> None,
         right |-> FALSE, left |-> 0]

-----------------------------------------------------------------------------
At(p, s) == req[p].step = s
Goes(p, s) == req' = [req EXCEPT ![p].step = s]
Ends(p) == req' = [req EXCEPT ![p] = Idle]
Starts(p, r) == At(p, "idle") /\ req' = [req EXCEPT ![p] = r]

Created == DOMAIN users
\* findByEmail: the address of a deleted account was replaced.
Holders == {a \in Created : ~users[a].deleted}
Allowed(r) == ~r.banned /\ ~r.deleted
RowOf(a) == IF a = None THEN NoRow ELSE users[a]

\* save of an entity: every column as it was read or set.  A second row with the
\* address breaks the unique key, and nothing is written.
Saved(a, r) ==
    IF ~r.deleted /\ Holders \ {a} # {} THEN users
    ELSE [x \in Created \cup {a} |-> IF x = a THEN r ELSE users[x]]

Less(n) == IF n = 0 THEN 0 ELSE n - 1
Live == {c \in DOMAIN codes : codes[c].age # "expired"}
Without(f, S) == [x \in DOMAIN f \ S |-> f[x]]

-----------------------------------------------------------------------------
Init ==
    /\ users = [a \in {} |-> NoRow]
    /\ codes = [c \in {} |-> [attempts |-> 0, age |-> "fresh"]]
    /\ latest = None
    /\ links = [l \in {} |-> [who |-> None, state |-> "open"]]
    /\ cache = [a \in Account |-> [ok |-> FALSE, left |-> 0]]
    /\ spent = {}
    /\ guesses = [c \in Code |-> 0]
    /\ since = [a \in Account |-> 0]
    /\ issued = {}
    /\ req = [p \in Proc |-> Idle]
    /\ ops \in Mixes

-----------------------------------------------------------------------------
\* Codes.

\* enforceOtpRateLimit, then the ban.  The hourly count never matters: the codes of
\* an address are deleted before the next one is stored.
BeginRequestOtp(p) ==
    /\ "otp" \in ops
    /\ \A c \in DOMAIN codes : codes[c].age # "fresh"
    /\ \A a \in Holders : ~users[a].banned
    /\ Starts(p, [Idle EXCEPT !.step = "clear"])
    /\ UNCHANGED <<users, cache, tokens>>

ClearCodes(p) ==
    /\ At(p, "clear")
    /\ codes' = Without(codes, DOMAIN codes)
    /\ Goes(p, "issue")
    /\ UNCHANGED <<users, latest, links, cache, spent, guesses, issued>>

IssueCode(p) ==
    /\ At(p, "issue")
    /\ \E c \in Code \ issued :
         /\ codes' = [x \in DOMAIN codes \cup {c} |->
                        IF x = c THEN [attempts |-> 0, age |-> "fresh"] ELSE codes[x]]
         /\ latest' = c
         /\ issued' = issued \cup {c}
    /\ Ends(p)
    /\ UNCHANGED <<users, links, cache, spent, guesses>>

\* The code verifyOtp finds: the latest that has not expired.
Current(c) ==
    /\ c \in Live
    /\ latest \in Live => c = latest

BeginVerifyOtp(p, c, right) ==
    /\ "otp" \in ops
    /\ Current(c)
    /\ Starts(p, [Idle EXCEPT !.step = "claim", !.token = c, !.right = right])
    /\ UNCHANGED <<users, cache, tokens>>

\* Fault: the limit is not part of the UPDATE.
Claimable_AsRead(c) == c \in DOMAIN codes

\* WHERE id = :id AND attempts < :max
Claimable(c) == c \in DOMAIN codes /\ codes[c].attempts < MaxAttempts

\* Claims an attempt and compares, or drops the code that has none left.
Claim(p) ==
    LET c == req[p].token IN
    /\ At(p, "claim")
    /\ IF Claimable(c)
       THEN /\ codes' = [codes EXCEPT ![c].attempts = @ + 1]
            /\ guesses' = [guesses EXCEPT ![c] = @ + 1]
            /\ IF req[p].right THEN Goes(p, "existing") ELSE Ends(p)
       ELSE /\ codes' = Without(codes, {c})
            /\ Ends(p)
            /\ UNCHANGED guesses
    /\ UNCHANGED <<users, latest, links, cache, spent, issued>>

\* findByEmail, and the ban.
ReadExisting(p) ==
    /\ At(p, "existing")
    /\ \E a \in IF Holders = {} THEN {None} ELSE Holders :
         IF a # None /\ users[a].banned THEN Ends(p)
         ELSE req' = [req EXCEPT ![p].step = "consume", ![p].who = a, ![p].row = RowOf(a)]
    /\ UNCHANGED <<users, cache, tokens>>

\* Fault: only expired codes are deleted.
Consumed_Expired == DOMAIN codes \ Live

Consumed == DOMAIN codes

Consume(p) ==
    /\ At(p, "consume")
    /\ codes' = Without(codes, Consumed)
    /\ Goes(p, "signIn")
    /\ UNCHANGED <<users, latest, links, cache, spent, guesses, issued>>

\* A new account, or the one found, verified.  A new one whose address was taken
\* meanwhile breaks the unique key and fails.
SignIn(p) ==
    /\ At(p, "signIn")
    /\ \/ /\ req[p].who = None
          /\ \/ \E a \in Account \ Created :
                  users' = Saved(a, [NoRow EXCEPT !.deleted = FALSE, !.verified = TRUE])
             \/ Account = Created /\ UNCHANGED users
       \/ /\ req[p].who # None
          /\ users' = IF req[p].row.verified THEN users
                      ELSE Saved(req[p].who, [req[p].row EXCEPT !.verified = TRUE])
    /\ spent' = spent \cup {req[p].token}
    /\ Ends(p)
    /\ UNCHANGED <<codes, latest, links, cache, guesses, issued>>

-----------------------------------------------------------------------------
\* Passwords.

BeginRegister(p) ==
    /\ "form" \in ops
    /\ Holders = {}
    /\ Starts(p, [Idle EXCEPT !.step = "register"])
    /\ UNCHANGED <<users, cache, tokens>>

Register(p) ==
    /\ At(p, "register")
    /\ \E a \in Account \ Created :
         users' = Saved(a, [NoRow EXCEPT !.deleted = FALSE, !.password = "first"])
    /\ Ends(p)
    /\ UNCHANGED <<cache, tokens>>

\* forgotPassword and changePassword: sendResetEmail deletes the open links of the
\* account, then stores and mails a new one.
BeginSendReset(p, a) ==
    /\ "links" \in ops
    /\ a \in Holders /\ ~users[a].banned
    /\ Starts(p, [Idle EXCEPT !.step = "dropLinks", !.who = a])
    /\ UNCHANGED <<users, cache, tokens>>

DropOpenLinks(p) ==
    /\ At(p, "dropLinks")
    /\ links' = Without(links, {l \in DOMAIN links : links[l] = [who |-> req[p].who, state |-> "open"]})
    /\ Goes(p, "issueLink")
    /\ UNCHANGED <<users, codes, latest, cache, spent, guesses, issued>>

IssueLink(p) ==
    /\ At(p, "issueLink")
    /\ \E l \in Link \ issued :
         /\ links' = [x \in DOMAIN links \cup {l} |->
                        IF x = l THEN [who |-> req[p].who, state |-> "open"] ELSE links[x]]
         /\ issued' = issued \cup {l}
    /\ Ends(p)
    /\ UNCHANGED <<users, codes, latest, cache, spent, guesses>>

BeginReset(p, l) ==
    /\ "links" \in ops
    /\ l \in DOMAIN links /\ links[l].state = "open"
    /\ Starts(p, [Idle EXCEPT !.step = "link", !.token = l, !.who = links[l].who])
    /\ UNCHANGED <<users, cache, tokens>>

\* findById after the hashing, and the ban.
ReadForReset(p) ==
    LET a == req[p].who IN
    /\ At(p, "link")
    /\ IF users[a].banned THEN Ends(p)
       ELSE req' = [req EXCEPT ![p].step = "hashed", ![p].row = users[a]]
    /\ UNCHANGED <<users, cache, tokens>>

SetPassword(p) ==
    /\ At(p, "hashed")
    /\ users' = Saved(req[p].who, [req[p].row EXCEPT !.password = "reset", !.verified = TRUE])
    /\ spent' = spent \cup {req[p].token}
    /\ Goes(p, "used")
    /\ UNCHANGED <<codes, latest, links, cache, guesses, issued>>

\* usedAt = now
Used == "used"

\* save of the link as it was read: a link deleted meanwhile is inserted again.
MarkUsed(p) ==
    /\ At(p, "used")
    /\ links' = [x \in DOMAIN links \cup {req[p].token} |->
                   IF x = req[p].token THEN [who |-> req[p].who, state |-> Used] ELSE links[x]]
    /\ Goes(p, "others")
    /\ UNCHANGED <<users, codes, latest, cache, spent, guesses, issued>>

DropOtherLinks(p) ==
    /\ At(p, "others")
    /\ links' = Without(links, {l \in DOMAIN links : links[l].who = req[p].who} \ {req[p].token})
    /\ Ends(p)
    /\ UNCHANGED <<users, codes, latest, cache, spent, guesses, issued>>

-----------------------------------------------------------------------------
\* Requests with a session.

\* Fault: the time is taken when the answer arrives.
Remaining_AtFill(p) == Ttl

\* until = now + AUTH_CACHE_MS, with the now of before the lookup.
Remaining(p) == req[p].left

\* validate: the cached state, or a lookup.
Authenticate(p, a) ==
    /\ "session" \in ops
    /\ a \in Created
    /\ IF cache[a].left > 0
       THEN cache[a].ok /\ Starts(p, [Idle EXCEPT !.step = "in", !.who = a])
       ELSE Starts(p, [Idle EXCEPT !.step = "lookup", !.who = a, !.row = users[a],
                                   !.left = Ttl])
    /\ UNCHANGED <<users, cache, tokens>>

\* The answer of the lookup is cached, and admits the request or refuses it.
Fill(p) ==
    LET ok == Allowed(req[p].row) IN
    /\ At(p, "lookup")
    /\ cache' = [cache EXCEPT ![req[p].who] = [ok |-> ok, left |-> Remaining(p)]]
    /\ IF ok THEN Goes(p, "in") ELSE Ends(p)
    /\ UNCHANGED <<users, tokens>>

\* Ten seconds are Ttl ticks.
Tick ==
    /\ "session" \in ops
    /\ cache' = [a \in Account |-> [cache[a] EXCEPT !.left = Less(@)]]
    /\ req' = [p \in Proc |-> [req[p] EXCEPT !.left = Less(@)]]
    /\ since' = [a \in Account |->
                   IF a \in Created /\ Allowed(users[a]) THEN 0
                   ELSE IF since[a] > Ttl THEN since[a] ELSE since[a] + 1]
    /\ UNCHANGED <<users, tokens>>

\* updateProfile reads the row and asks the geocoder.
BeginProfile(p) ==
    /\ At(p, "in")
    /\ req' = [req EXCEPT ![p].step = "profile", ![p].row = users[req[p].who]]
    /\ UNCHANGED <<users, cache, tokens>>

SaveProfile(p) ==
    /\ At(p, "profile")
    /\ users' = Saved(req[p].who, req[p].row)
    /\ Ends(p)
    /\ UNCHANGED <<cache, tokens>>

\* deleteAccount reads the row, which must be neither deleted nor an admin's.
BeginDelete(p) ==
    LET r == users[req[p].who] IN
    /\ At(p, "in") /\ "delete" \in ops
    /\ IF r.deleted \/ r.admin THEN Ends(p)
       ELSE req' = [req EXCEPT ![p].step = "delete", ![p].row = r]
    /\ UNCHANGED <<users, cache, tokens>>

\* Fault: the ban goes with the rest.
Anonymized_Unbanned(r) == [NoRow EXCEPT !.banned = FALSE]

\* anonymize; a ban stays.
Anonymized(r) == [NoRow EXCEPT !.banned = r.banned]

\* removePrivateData and anonymize, in a transaction that holds the row.
Delete(p) ==
    LET a == req[p].who IN
    /\ At(p, "delete")
    /\ users' = [users EXCEPT ![a] = Anonymized(@)]
    /\ codes' = Without(codes, DOMAIN codes)
    /\ links' = Without(links, {l \in DOMAIN links : links[l].who = a})
    /\ Ends(p)
    /\ UNCHANGED <<latest, cache, spent, guesses, issued>>

-----------------------------------------------------------------------------
\* The site's admins.

\* ban: the target is read, and must not be an admin.
BeginBan(p, a) ==
    /\ "ban" \in ops
    /\ a \in Created /\ ~users[a].admin
    /\ Starts(p, [Idle EXCEPT !.step = "target", !.who = a])
    /\ UNCHANGED <<users, cache, tokens>>

\* setBan reads the target again.
ReadBan(p) ==
    /\ At(p, "target")
    /\ req' = [req EXCEPT ![p].step = "ban", ![p].row = users[req[p].who]]
    /\ UNCHANGED <<users, cache, tokens>>

\* unban and toggleRole read the target, whatever it is.
BeginUnban(p, a) ==
    /\ "ban" \in ops
    /\ a \in Created
    /\ Starts(p, [Idle EXCEPT !.step = "unban", !.who = a, !.row = users[a]])
    /\ UNCHANGED <<users, cache, tokens>>

BeginToggle(p, a) ==
    /\ "role" \in ops
    /\ a \in Created
    /\ Starts(p, [Idle EXCEPT !.step = "role", !.who = a, !.row = users[a]])
    /\ UNCHANGED <<users, cache, tokens>>

SaveByAdmin(p) ==
    LET r == req[p].row IN
    /\ req[p].step \in {"ban", "unban", "role"}
    /\ users' = Saved(req[p].who, IF At(p, "role") THEN [r EXCEPT !.admin = ~@]
                                  ELSE [r EXCEPT !.banned = At(p, "ban")])
    /\ Ends(p)
    /\ UNCHANGED <<cache, tokens>>

-----------------------------------------------------------------------------
\* A minute, and ten, pass for the codes.
Ages(c) ==
    /\ codes[c].age # "expired"
    /\ codes' = [codes EXCEPT ![c].age = IF @ = "fresh" THEN "ripe" ELSE "expired"]
    /\ UNCHANGED <<users, latest, links, cache, spent, guesses, issued, req>>

\* A request fails between two statements, and what it has written stays.
Abort(p) ==
    /\ "abort" \in ops
    /\ ~At(p, "idle")
    /\ Ends(p)
    /\ UNCHANGED <<users, cache, tokens>>

\* A request that was let in and writes nothing here.
Leave(p) ==
    /\ At(p, "in")
    /\ Ends(p)
    /\ UNCHANGED <<users, cache, tokens>>

Act(p) ==
    \/ BeginRequestOtp(p) \/ ClearCodes(p) \/ IssueCode(p)
    \/ \E c \in DOMAIN codes, right \in BOOLEAN : BeginVerifyOtp(p, c, right)
    \/ Claim(p) \/ ReadExisting(p) \/ Consume(p) \/ SignIn(p)
    \/ BeginRegister(p) \/ Register(p)
    \/ \E a \in Created : BeginSendReset(p, a)
    \/ DropOpenLinks(p) \/ IssueLink(p)
    \/ \E l \in DOMAIN links : BeginReset(p, l)
    \/ ReadForReset(p) \/ SetPassword(p) \/ MarkUsed(p) \/ DropOtherLinks(p)
    \/ \E a \in Created : Authenticate(p, a)
    \/ Fill(p) \/ Leave(p) \/ BeginProfile(p) \/ SaveProfile(p)
    \/ BeginDelete(p) \/ Delete(p)
    \/ \E a \in Created : BeginBan(p, a) \/ BeginUnban(p, a) \/ BeginToggle(p, a)
    \/ ReadBan(p) \/ SaveByAdmin(p) \/ Abort(p)

Steps == (\E p \in Proc : Act(p)) \/ (\E c \in DOMAIN codes : Ages(c))

\* since is bookkeeping: nothing in the program holds it.
Since ==
    since' = [a \in Account |-> IF a \in DOMAIN users' /\ Allowed(users'[a]) THEN 0 ELSE since[a]]

Next == ((Steps /\ Since) \/ Tick) /\ UNCHANGED ops

Spec == Init /\ [][Next]_vars

-----------------------------------------------------------------------------
\* Every variable stays within its type.
TypeOK ==
    /\ Created \subseteq Account /\ \A a \in Created : users[a] \in Row
    /\ DOMAIN codes \subseteq Code
    /\ \A c \in DOMAIN codes : codes[c] \in [attempts : Nat, age : Age]
    /\ latest \in Code \cup {None}
    /\ DOMAIN links \subseteq Link
    /\ \A l \in DOMAIN links : links[l] \in [who : Account, state : {"open", "used"}]
    /\ cache \in [Account -> [ok : BOOLEAN, left : 0 .. Ttl]]
    /\ spent \subseteq Code \cup Link /\ issued \subseteq Code \cup Link
    /\ guesses \in [Code -> Nat] /\ since \in [Account -> 0 .. Ttl + 1]
    /\ req \in [Proc -> Request]

\* However many requests guess at once, a code is compared at most
\* OTP_MAX_ATTEMPTS times (the claim in verifyOtp).
AttemptsBounded == \A c \in Code : guesses[c] <= MaxAttempts

\* A code that has signed somebody in is gone: another request may have claimed it
\* before, and no request can afterwards (verifyOtp deletes before it signs in).
SpentCodesAreGone == spent \cap DOMAIN codes = {}

\* A link that has set a password is used or gone, unless a request that set it is
\* about to mark it, or failed before it could (resetPassword saves the account first).
SpentLinksAreUsed ==
    \A l \in spent \cap DOMAIN links :
        links[l].state = "open" =>
            "abort" \in ops \/ \E p \in Proc : At(p, "used") /\ req[p].token = l

\* What was spent once cannot be spent by a later request.
SpentStaysSpent == SpentCodesAreGone /\ SpentLinksAreUsed

\* What the cache says for an account that is banned or deleted meanwhile was true
\* within the last Ttl ticks, however late the lookup was answered (validate).
CacheIsFresh ==
    \A a \in Account : cache[a].ok /\ cache[a].left > 0 => since[a] + cache[a].left <= Ttl

\* The address belongs to one account at most: the unique key stops a second sign-up
\* by code or form, and a late save that would bring a deleted account back.
OneHolder == \A a, b \in Holders : a = b

\* The request whose step this was, if it wrote back a row it had read.
SavedBack(p, a) ==
    /\ req[p].who = a /\ req'[p] # req[p]
    /\ req[p].step \in {"signIn", "hashed", "profile", "ban", "unban", "role"}

\* A ban goes only by an unban, and a deleted account comes back only, when a request
\* saves a row it read before: nothing else lifts either (setBan, anonymize).
LiftedOnlyBySave ==
    [][\A a \in Created :
         /\ users[a].banned /\ ~users'[a].banned =>
              \E p \in Proc : SavedBack(p, a) /\ (At(p, "unban") \/ ~req[p].row.banned)
         /\ users[a].deleted /\ ~users'[a].deleted =>
              \E p \in Proc : SavedBack(p, a) /\ ~req[p].row.deleted]_vars

-----------------------------------------------------------------------------
\* What does not hold, in configurations of their own.

\* A ban stands until an unban starts.
BanStands ==
    [][\A a \in Created :
         users[a].banned /\ ~users'[a].banned => \E p \in Proc : At(p, "unban")]_vars

\* A deleted account stays deleted.
DeletedStays == [][\A a \in Created : users[a].deleted => users'[a].deleted]_vars

\* A banned account is not an admin's (ban asks for the role to go first).
NoBannedAdmin == \A a \in Created : ~(users[a].admin /\ users[a].banned)

\* An account has one open link at most.
OneOpenLink ==
    \A l, k \in DOMAIN links :
        links[l].state = "open" /\ links[k].state = "open" /\ links[l].who = links[k].who => l = k
=============================================================================
