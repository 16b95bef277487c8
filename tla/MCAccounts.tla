----------------------------- MODULE MCAccounts -----------------------------
(***************************************************************************)
(* The accounts at the server (Accounts) and the sessions in the tabs of   *)
(* one browser (Session) on small instances.  A behaviour is one of the    *)
(* two; the variables of the other rest.                                   *)
(***************************************************************************)
EXTENDS Accounts, TLC

CONSTANTS ann, ben, People, Admins, Preferred, Tabs, MaxActs, Doings

VARIABLES part, tab, token, stored, status, pref, net, cause, wrote, acts, mix

sessionVars == <<tab, token, stored, status, pref, net, cause, wrote, acts, mix>>
all == <<part, vars, sessionVars>>

S == INSTANCE Session WITH
        Person <- People, Admin <- Admins, Tab <- Tabs, Prefs <- Preferred, Mixes <- Doings

ASSUME PeopleAssumption == /\ None \notin People \cup [who : People, pref : S!Locale]
                           /\ Preferred \subseteq [People -> S!Locale]

\* The two people prefer different locales.
GermanAndEnglish == {(ann :> "de") @@ (ben :> "en")}

\* Accounts, codes, links, requests and tabs are interchangeable.
Symmetric ==
    Permutations(Account) \cup Permutations(Code) \cup Permutations(Link) \cup Permutations(Proc) \cup Permutations(Tabs)

-----------------------------------------------------------------------------
SessionRests ==
    /\ tab = None /\ token = None /\ stored = None /\ status = None /\ pref = None
    /\ net = None /\ cause = None /\ wrote = None /\ acts = None /\ mix = None

AccountsInit == part = "accounts" /\ Init /\ SessionRests
SessionInit == part = "session" /\ S!Init /\ Init /\ ops = CHOOSE m \in Mixes : TRUE
HostInit == AccountsInit \/ SessionInit

AccountsStep == part = "accounts" /\ Next /\ UNCHANGED <<part, sessionVars>>
SessionStep == part = "session" /\ S!Next /\ UNCHANGED <<part, vars>>

HostSpec == HostInit /\ [][AccountsStep \/ SessionStep]_all
AccountsAlone == AccountsInit /\ [][AccountsStep]_all
SessionAlone == SessionInit /\ [][SessionStep]_all

-----------------------------------------------------------------------------
\* The properties of the sessions.
ShownIsActing == part = "session" => S!ShownIsActing
WordsStayOnesOwn == part = "session" => S!WordsStayOnesOwn
FollowsLocale == part = "session" => S!FollowsLocale
=============================================================================
