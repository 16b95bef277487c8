------------------------------- MODULE Session -------------------------------
(***************************************************************************)
(* Who is signed in, in the tabs of one browser: core/services/            *)
(* auth.service.ts with the interceptors and guards around it, the shell   *)
(* with its badge, the sign-in pages and the profile.                      *)
(*                                                                         *)
(* The token lies in localStorage, which all tabs share; whom a tab shows  *)
(* is its own.  A tab restores its session from the token while the page   *)
(* is still being hydrated, and requests carry the token there is when     *)
(* they are sent.  The server does at once what it is asked; its answers   *)
(* come later, in any order, or not at all.                                *)
(***************************************************************************)
EXTENDS Naturals, FiniteSets

CONSTANTS
    Person,    \* accounts
    Admin,     \* those of them that are admins of the site
    Tab,       \* tabs of the browser
    None,      \* nobody, nothing
    MaxActs,   \* how often somebody does something
    Prefs,     \* which locales people prefer: functions from Person to Locale
    Mixes      \* what somebody does in a behaviour

VARIABLES
    tab,     \* what each tab holds
    token,   \* localStorage: whose token there is
    stored,  \* localStorage: the format locale
    status,  \* of the accounts at the server: "new" if there is none yet
    pref,    \* their preferredLocale
    net,     \* requests under way, with the answer each will get
    cause,   \* why a tab may show somebody else than it acts as: history
    wrote,   \* whose words were saved to whose account: history
    acts,    \* how often somebody did something
    mix      \* what

vars == <<tab, token, stored, status, pref, net, cause, wrote, acts, mix>>

Locale == {"de", "en"}
Guarded == {"profile", "admin"}

\* A page that starts, at an address: LOCALE_ID is read once.
Bootstrap(at) == [user |-> None, pending |-> None, hydrated |-> FALSE, ready |-> token = None,
              page |-> IF at \in Guarded THEN "none" ELSE at, goal |-> IF at \in Guarded THEN at ELSE None, view |-> "email", busy |-> FALSE, form |-> None, badge |-> None, reload |-> FALSE,
              locale |-> IF stored = "en" THEN "en" ELSE "de"]

Live(p) == p # None /\ status[p] = "live"
Me(p) == [who |-> p, pref |-> pref[p]]
Opened == {t \in Tab : tab[t] # None}
Asked(t) == {r \in net : r.tab = t}
Does(op) == op \in mix /\ acts < MaxActs /\ acts' = acts + 1

\* authInterceptor: no token before hydration.
Bearer(t) == IF tab[t].hydrated THEN token ELSE None

\* A request of t as p, and whether the server lets it in; me is what the answer says of p.
Request(t, kind, p, me) == [tab |-> t, kind |-> kind, as |-> p, me |-> me, in |-> Live(p), late |-> FALSE, gone |-> FALSE]

\* refreshUnread
Unread(t, row, bearer) == IF row.user = None \/ "badge" \notin mix THEN {} ELSE {Request(t, "unread", bearer, None)}
Badge(row) == IF row.user = None THEN [row EXCEPT !.badge = None] ELSE row

-----------------------------------------------------------------------------
(* What every change of a session comes to. *)

\* Answers still to come belong to an earlier session.
Late(t, asked) == {IF r.tab = t THEN [r EXCEPT !.late = TRUE] ELSE r : r \in asked}
Others(t, new) == [s \in Tab |-> IF s \in Opened \ {t} /\ new # token THEN cause[s] \cup {"other"} ELSE cause[s]]

\* A navigation ends: the page left is gone for the answers it waited for.
Goes(row, page) ==
    IF row.page = page THEN [row EXCEPT !.goal = None]
    ELSE [row EXCEPT !.page = page, !.goal = None, !.view = "email", !.busy = FALSE,
                     !.form = IF page = "profile" /\ row.user # None THEN row.user.who ELSE None]
Left(t, page, asked) == {IF r.tab = t /\ tab[t].page # page THEN [r EXCEPT !.gone = TRUE] ELSE r : r \in asked}

\* The shell asks for the badge when somebody is shown and when a navigation ends.
\* Without the token of its user a tab asks as whoever the token is of.
Shows(t, row, asked) ==
    /\ tab' = [tab EXCEPT ![t] = Badge(row)]
    /\ net' = asked \cup Unread(t, row, Bearer(t))

\* syncLocalePrefs: whether a locale that was stored is another one.
LocaleChanges(me) == stored # None /\ stored # me.pref

\* setSession
SetSession(t, me, asked, row) ==
    /\ token' = me.who /\ stored' = me.pref
    /\ cause' = [Others(t, me.who) EXCEPT ![t] = {}]
    /\ LET new == [row EXCEPT !.user = me, !.pending = me, !.reload = @ \/ LocaleChanges(me)]
       IN  tab' = [tab EXCEPT ![t] = new] /\ net' = Late(t, asked) \cup Unread(t, new, me.who)

\* logout
Logout(t, asked, row) ==
    /\ token' = None
    /\ cause' = [Others(t, None) EXCEPT ![t] = {}]
    /\ tab' = [tab EXCEPT ![t] = Badge([row EXCEPT !.user = None, !.pending = None])]
    /\ net' = Late(t, asked)
    /\ UNCHANGED stored

-----------------------------------------------------------------------------
(* A page starts. *)

\* Fault: the session restored before is not published.
Published_Late(row) == row.user
\* publishPendingUser
Published(row) == IF row.pending = None THEN row.user ELSE row.pending

\* afterNextRender
Hydrate(t) ==
    /\ ~tab[t].hydrated
    /\ LET row == [tab[t] EXCEPT !.hydrated = TRUE, !.user = Published(tab[t])]
       IN  tab' = [tab EXCEPT ![t] = Badge(row)] /\ net' = net \cup Unread(t, row, token)
    /\ UNCHANGED <<token, stored, status, pref, cause, wrote, acts>>

\* A tab is loaded again: what is not in localStorage is gone.
Reloaded(t, at) ==
    /\ tab' = [tab EXCEPT ![t] = Bootstrap(at)]
    /\ cause' = [cause EXCEPT ![t] = {}]
    /\ net' = (net \ Asked(t)) \cup (IF token = None THEN {} ELSE {Request(t, "me", token, Me(token))})
    /\ UNCHANGED <<token, stored, status, pref, wrote>>
At(t) == IF tab[t].page = "none" THEN tab[t].goal ELSE tab[t].page
Reload(t) == tab[t].reload /\ Reloaded(t, At(t)) /\ UNCHANGED acts
Refresh(t) == Does("refresh") /\ Reloaded(t, At(t))
\* A tab is opened.
Open(t) == tab[t] = None /\ Does("open") /\ Reloaded(t, "list")

\* restoreSession, and the initializer of the app, which waits for it.
Restored(t, r) ==
    /\ r.tab = t /\ r.kind = "me"
    /\ \/ /\ r.in /\ stored' = r.me.pref
          /\ LET row == [tab[t] EXCEPT !.pending = r.me, !.ready = TRUE,
                                         !.user = IF tab[t].hydrated THEN r.me ELSE @,
                                         !.reload = @ \/ (tab[t].user = None /\ r.me.pref # tab[t].locale)
                                                      \/ (tab[t].hydrated /\ r.me.pref # tab[t].locale)]
               IN  IF tab[t].hydrated THEN Shows(t, row, net \ {r})
                   ELSE tab' = [tab EXCEPT ![t] = row] /\ net' = net \ {r}
          /\ cause' = [cause EXCEPT ![t] = @ \cup (IF r.late THEN {"late"} ELSE {})]
          /\ UNCHANGED token
       \/ Logout(t, net \ {r}, [tab[t] EXCEPT !.ready = TRUE])
    /\ UNCHANGED <<status, pref, wrote, acts>>

-----------------------------------------------------------------------------
(* Somebody goes from page to page. *)
Navigate(t, page) ==
    /\ page \in mix /\ tab[t].page # page /\ tab[t].goal # page
    /\ IF page \in Guarded
       THEN tab' = [tab EXCEPT ![t].goal = page] /\ UNCHANGED net
       ELSE Shows(t, Goes(tab[t], page), Left(t, page, net))
    /\ UNCHANGED <<token, stored, status, pref, cause, wrote, acts>>

Interactive(t) == tab[t].ready /\ tab[t].hydrated

\* adminGuard
AdminGuard(user) == IF user = None THEN "login" ELSE IF user.who \in Admin THEN "admin" ELSE "list"
\* authGuard
AuthGuard(user) == IF user = None THEN "login" ELSE "profile"

\* A guard answers once the session is restored and the page hydrated.
Guard(t) ==
    /\ tab[t].goal # None /\ Interactive(t)
    /\ LET to == IF tab[t].goal = "admin" THEN AdminGuard(tab[t].user) ELSE AuthGuard(tab[t].user)
       IN  Shows(t, Goes(tab[t], to), Left(t, to, net))
    /\ UNCHANGED <<token, stored, status, pref, cause, wrote, acts>>

-----------------------------------------------------------------------------
(* The pages on which somebody signs in: by code, with a password, by registering, by a link. *)
Show(t, view) ==
    /\ tab[t].page = "login" /\ tab[t].hydrated /\ tab[t].view # view /\ view \in {"email", "password", "forgot"}
    /\ tab' = [tab EXCEPT ![t].view = view]
    /\ UNCHANGED <<token, stored, status, pref, net, cause, wrote, acts>>

Submit(t, page, kind, p, me) ==
    /\ tab[t].page = page /\ tab[t].hydrated
    /\ tab' = [tab EXCEPT ![t].busy = TRUE]
    /\ net' = net \cup {Request(t, kind, p, me)}
    /\ UNCHANGED <<token, stored, pref, cause, wrote>>

SendOtp(t, p) ==
    /\ tab[t].view \in {"email", "otp"} /\ ~tab[t].busy /\ Does("otp")
    /\ Submit(t, "login", "otp", p, None) /\ UNCHANGED status
SubmitForgot(t, p) ==
    /\ tab[t].view = "forgot" /\ ~tab[t].busy /\ Does("forgot")
    /\ Submit(t, "login", "forgot", p, None) /\ UNCHANGED status
VerifyOtp(t, p) ==
    /\ tab[t].view = "otp" /\ ~tab[t].busy /\ Does("session")
    /\ Submit(t, "login", "session", p, Me(p))
    /\ status' = IF status[p] = "new" THEN [status EXCEPT ![p] = "live"] ELSE status
Login(t, p) ==
    /\ tab[t].view = "password" /\ ~tab[t].busy /\ Does("session")
    /\ Submit(t, "login", "session", p, Me(p)) /\ UNCHANGED status
\* onSubmit of the page to register
Register(t, p) ==
    /\ status[p] = "new" /\ Does("register") /\ status' = [status EXCEPT ![p] = "live"]
    /\ Submit(t, "register", "session", p, Me(p))
\* onSubmit of the page a mail links to
ResetPassword(t, p) ==
    /\ Does("reset") /\ Submit(t, "reset", "session", p, Me(p)) /\ UNCHANGED status

\* The answer to a code or a link asked for; a code is asked for on the first form and again.
OtpSent(t, r) ==
    /\ r.tab = t /\ r.kind \in {"otp", "forgot"}
    /\ \E view \in {tab[t].view} \cup (IF r.kind = "otp" THEN {"otp"} ELSE {}) :
         tab' = IF r.gone THEN tab ELSE [tab EXCEPT ![t].busy = FALSE, ![t].view = view]
    /\ net' = net \ {r}
    /\ UNCHANGED <<token, stored, status, pref, cause, wrote, acts>>
\* setSession follows the answer, wherever the tab is by then.
SignedIn(t, r) ==
    /\ r.tab = t /\ r.kind = "session"
    /\ \/ r.in /\ SetSession(t, r.me, Left(t, "list", net \ {r}), Goes(tab[t], "list"))
       \/ /\ tab' = IF r.gone THEN tab ELSE [tab EXCEPT ![t].busy = FALSE]
          /\ net' = net \ {r} /\ UNCHANGED <<token, stored, cause>>
    /\ UNCHANGED <<status, pref, wrote, acts>>

\* onLogout
SignOut(t) ==
    /\ tab[t].user # None /\ Does("out")
    /\ Logout(t, Left(t, "list", net), Goes(tab[t], "list"))
    /\ UNCHANGED <<status, pref, wrote>>

-----------------------------------------------------------------------------
(* The profile, the prompt for a name, the language and the deletion of the account. *)
Sends(t, kind, me) == net' = net \cup {Request(t, kind, token, me)}
MyRow == IF token = None THEN None ELSE Me(token)

\* The words and the locale of the form go to the account of the token.
OnSaveProfile(t, locale) ==
    /\ tab[t].page = "profile" /\ (\A r \in Asked(t) : r.kind = "save" => r.gone) /\ Does("save")
    /\ pref' = IF Live(token) THEN [pref EXCEPT ![token] = locale] ELSE pref
    /\ wrote' = wrote \cup (IF Live(token) THEN {<<tab[t].form, token>>} ELSE {})
    /\ Sends(t, "save", [who |-> token, pref |-> locale])
    /\ UNCHANGED <<tab, token, stored, status, cause>>
\* save of the name prompt
SaveName(t) ==
    /\ tab[t].user # None /\ (\A r \in Asked(t) : r.kind # "name") /\ Does("name")
    /\ Sends(t, "name", MyRow)
    /\ UNCHANGED <<tab, token, stored, status, pref, cause, wrote>>
ToggleLang(t) ==
    /\ tab[t].user # None /\ Does("lang") /\ Sends(t, "lang", MyRow)
    /\ UNCHANGED <<tab, token, stored, status, pref, cause, wrote>>

\* updateCurrentUser, whoever is signed in by then; the profile reloads for another locale, the
\* prompt may lead to the profile.
Saved(t, r) ==
    /\ r.tab = t /\ r.kind \in {"save", "name", "lang"} /\ r.in
    /\ \E goal \in {tab[t].goal} \cup (IF r.kind = "name" /\ tab[t].page # "profile" THEN {"profile"} ELSE {}) :
         Shows(t, [tab[t] EXCEPT !.user = r.me, !.goal = goal,
                                 !.reload = @ \/ (r.kind = "save" /\ r.me.pref # tab[t].locale)], net \ {r})
    /\ stored' = IF r.kind = "save" THEN r.me.pref ELSE stored
    /\ cause' = [cause EXCEPT ![t] = @ \cup (IF r.late THEN {"late"} ELSE {})]
    /\ UNCHANGED <<token, status, pref, wrote, acts>>

\* submit: the dialog asks for the address of whoever is shown, the server for that of the token.
DeleteAccount(t) ==
    /\ tab[t].page = "profile" /\ Does("delete")
    /\ status' = IF Live(token) /\ tab[t].user.who = token THEN [status EXCEPT ![token] = "gone"] ELSE status
    /\ Sends(t, "delete", tab[t].user)
    /\ UNCHANGED <<tab, token, stored, pref, cause, wrote>>
Deleted(t, r) ==
    /\ r.tab = t /\ r.kind = "delete" /\ r.in /\ r.me.who = r.as
    /\ Logout(t, Left(t, "list", net \ {r}), Goes(tab[t], "list"))
    /\ UNCHANGED <<status, pref, wrote, acts>>

\* A site admin bans somebody.
Ban(p) ==
    /\ Live(p) /\ Does("ban") /\ status' = [status EXCEPT ![p] = "gone"]
    /\ UNCHANGED <<tab, token, stored, pref, net, cause, wrote>>

-----------------------------------------------------------------------------
Counted(t, r) ==
    /\ r.tab = t /\ r.kind = "unread" /\ r.in
    /\ \/ /\ tab' = [tab EXCEPT ![t].badge = r.as]
          /\ cause' = [cause EXCEPT ![t] = @ \cup (IF r.late THEN {"late"} ELSE {})]
       \/ tab' = [tab EXCEPT ![t].badge = None] /\ UNCHANGED cause
    /\ net' = net \ {r}
    /\ UNCHANGED <<token, stored, status, pref, wrote, acts>>

\* errorInterceptor: whoever is refused is signed out, and led to the sign-in page.
Refused(t, r) ==
    /\ r.tab = t /\ r.kind \in {"unread", "save", "name", "lang", "delete"} /\ ~r.in
    /\ Logout(t, Left(t, "login", net \ {r}), Goes(tab[t], "login"))
    /\ UNCHANGED <<status, pref, wrote, acts>>
\* An answer that is lost, and the server's word that the address is another one.
Fails(t, r) ==
    /\ r.tab = t /\ r.kind \in {"save", "name", "lang", "delete"} /\ net' = net \ {r}
    /\ UNCHANGED <<tab, token, stored, status, pref, cause, wrote, acts>>

Init ==
    /\ status \in [Person -> {"new", "live"}] /\ pref \in Prefs
    /\ token \in {None} \cup {p \in Person : Live(p)}
    /\ stored \in IF token = None THEN {None, "de"} ELSE {pref[token]}
    /\ \E first \in Tab :
         /\ tab = [t \in Tab |-> IF t = first THEN Bootstrap("list") ELSE None]
         /\ net = IF token = None THEN {} ELSE {Request(first, "me", token, Me(token))}
    /\ mix \in Mixes
    /\ cause = [t \in Tab |-> {}] /\ wrote = {} /\ acts = 0

Answer(t) ==
    \E r \in net : Restored(t, r) \/ OtpSent(t, r) \/ SignedIn(t, r) \/ Saved(t, r) \/ Deleted(t, r)
                   \/ Counted(t, r) \/ Refused(t, r) \/ Fails(t, r)
Somebody(t) ==
    \/ \E page \in {"list", "login", "register", "reset"} \cup Guarded : Navigate(t, page)
    \/ \E view \in {"email", "password", "forgot"} : Show(t, view)
    \/ \E p \in Person : \/ SendOtp(t, p) \/ SubmitForgot(t, p) \/ VerifyOtp(t, p) \/ Login(t, p)
                         \/ Register(t, p) \/ ResetPassword(t, p)
    \/ SignOut(t) \/ SaveName(t) \/ ToggleLang(t) \/ DeleteAccount(t) \/ Refresh(t)
    \/ \E locale \in Locale : OnSaveProfile(t, locale)
Next ==
    /\ \/ \E t \in Opened : Hydrate(t) \/ Reload(t) \/ Guard(t) \/ Answer(t) \/ Somebody(t)
       \/ \E t \in Tab : Open(t)
       \/ \E p \in Person : Ban(p)
    /\ UNCHANGED mix

Spec == Init /\ [][Next]_vars

-----------------------------------------------------------------------------
\* Whom a tab shows is who it acts as, once it has settled; the badge it shows is theirs or
\* asked for again; a page that takes an account, or an admin, is open to one; and the form
\* of the profile is that of the account it is saved to ("Route guards use this so a
\* logged-in user is visible before a protected page runs").  Not so after another tab has
\* signed somebody in or out, and after an answer that belongs to an earlier session.
ShownIsActing ==
    \A t \in Opened : cause[t] = {} =>
        LET w == tab[t]  who == IF w.user = None THEN None ELSE w.user.who IN
        /\ Interactive(t) => who = token
        /\ w.badge \in {None, who} \/ \E r \in Asked(t) : r.kind = "unread" /\ ~r.late
        /\ w.page \in Guarded => who # None /\ (w.page = "admin" => who \in Admin)
        /\ w.page = "profile" => w.form = token

(* Statements about the code that fail. *)
\* What somebody entered is saved to their own account.
WordsStayOnesOwn == \A w \in wrote : w[1] = w[2]
\* A page has the format locale of its user or is about to be loaded again.
FollowsLocale ==
    \A t \in Opened : cause[t] = {} /\ Interactive(t) /\ tab[t].user # None
                      => tab[t].locale = tab[t].user.pref \/ tab[t].reload
==============================================================================
