-------------------------------- MODULE Inbox --------------------------------
(***************************************************************************)
(* Event invitations, their inbox entries and their mails: invite of       *)
(* events/events.service.ts and notifications/notifications.service.ts.    *)
(*                                                                         *)
(* An invitation is a row of event_invites, unique per event and person,   *)
(* written together with the inbox entry.  The mail is sent afterwards: a  *)
(* second transaction counts this month's mails under an advisory lock and *)
(* stamps emailedAt, then the mail goes out, and a mail that could not be  *)
(* sent clears the stamp again.  Events and accounts can go meanwhile, and *)
(* the server can stop between any two steps.                              *)
(***************************************************************************)
EXTENDS Naturals, FiniteSets

CONSTANTS
    Event,      \* events of one community
    Person,     \* accounts that can be invited
    Verified,   \* those whose address is verified from the start
    Proc,       \* concurrent requests
    Nothing,    \* what an idle request is about
    Cap,        \* INVITE_EMAIL_MONTHLY_CAP
    MaxMonth,   \* bound: months that pass
    MaxCrashes, \* bound: stops of the server
    Ops         \* operations in play

ASSUME VerifiedAssumption == Verified \subseteq Person
ASSUME CapAssumption == Cap \in Nat \ {0}
ASSUME FiniteAssumption == IsFiniteSet(Event) /\ IsFiniteSet(Person)

\* Who is invited to what.
Invitation == Event \X Person

ASSUME NothingAssumption == Nothing \notin Invitation

VARIABLES
    events,    \* events that exist
    accounts,  \* accounts not deleted
    invited,   \* rows of event_invites
    emailedAt, \* the month of a row's emailedAt, 0 for null
    entry,     \* inbox entry of an invitation: "none", "unread" or "read"
    month,     \* the current month
    mails,     \* how many mails went out for an invitation
    lost,      \* invitations whose request a stop of the server cut off
    crashes,   \* stops so far
    req        \* what each request is doing

vars == <<events, accounts, invited, emailedAt, entry, month, mails, lost, crashes, req>>
rows == <<events, accounts, invited, emailedAt, entry>>

Month == 1 .. MaxMonth
Step == {"checked", "claim", "counted", "mail", "failed", "reading"}
Idle == [step |-> "idle", inv |-> Nothing]
Request == [step: Step, inv: Invitation] \cup {Idle}

-----------------------------------------------------------------------------
At(p, s) == req[p].step = s
Goes(p, s) == req' = [req EXCEPT ![p].step = s]
Ends(p) == req' = [req EXCEPT ![p] = Idle]
Starts(p, s, x) == At(p, "idle") /\ req' = [req EXCEPT ![p] = [step |-> s, inv |-> x]]

Open(x) == x[1] \in events
Alive(x) == x[2] \in accounts

\* What the cap counts: rows whose emailedAt is of month m.
Claims(m) == {x \in invited : emailedAt[x] = m}

\* Fault: the count runs without the advisory lock.
LockFree_Unlocked == TRUE

\* pg_advisory_xact_lock is held from the count to the commit.
LockFree == \A p \in Proc : ~At(p, "counted")

-----------------------------------------------------------------------------
Init ==
    /\ events = Event
    /\ accounts = Person
    /\ invited = {}
    /\ emailedAt = [x \in Invitation |-> 0]
    /\ entry = [x \in Invitation |-> "none"]
    /\ month = 1
    /\ mails = [x \in Invitation |-> 0]
    /\ lost = {}
    /\ crashes = 0
    /\ req = [p \in Proc |-> Idle]

\* invite finds the event, the account of the address and its membership.
BeginInvite(p, x) ==
    /\ Open(x) /\ Alive(x)
    /\ Starts(p, "checked", x)
    /\ UNCHANGED <<rows, month, mails, lost, crashes>>

\* Fault: a second invitation is answered like the first.
Already_Again(x) == FALSE

\* UQ_event_invites_event_user.
Already(x) == x \in invited

\* The row and the inbox entry in one transaction.  Both refer to the account's
\* row, which a deleted account leaves as a shell, and the row to the event.  The
\* mail needs a verified address; signing in by a code verifies it at any time.
Record(p) ==
    LET x == req[p].inv IN
    /\ At(p, "checked")
    /\ IF Open(x) /\ ~Already(x)
       THEN /\ invited' = invited \cup {x}
            /\ entry' = [entry EXCEPT ![x] = "unread"]
            /\ Goes(p, "claim") \/ (x[2] \notin Verified /\ Ends(p))
       ELSE Ends(p) /\ UNCHANGED <<invited, entry>>
    /\ UNCHANGED <<events, accounts, emailedAt, month, mails, lost, crashes>>

UnderCap == Cardinality(Claims(month)) < Cap

\* claimInviteEmail takes the lock and counts.
Count(p) ==
    /\ At(p, "claim") /\ LockFree
    /\ IF UnderCap THEN Goes(p, "counted") ELSE Ends(p)
    /\ UNCHANGED <<rows, month, mails, lost, crashes>>

\* ... and stamps the row, if it is still there, and commits.
Claim(p) ==
    LET x == req[p].inv IN
    /\ At(p, "counted")
    /\ emailedAt' = IF x \in invited THEN [emailedAt EXCEPT ![x] = month] ELSE emailedAt
    /\ Goes(p, "mail")
    /\ UNCHANGED <<events, accounts, invited, entry, month, mails, lost, crashes>>

\* sendEventInvite goes through, or it fails or mail is switched off.
Send(p) ==
    /\ At(p, "mail")
    /\ \/ Ends(p) /\ mails' = [mails EXCEPT ![req[p].inv] = @ + 1]
       \/ Goes(p, "failed") /\ UNCHANGED mails
    /\ UNCHANGED <<rows, month, lost, crashes>>

\* Fault: the UPDATE names the person only.
Unclaimed_AllOfPerson(x) == [y \in Invitation |-> IF y[2] = x[2] THEN 0 ELSE emailedAt[y]]

\* emailedAt goes back to null, if the row is still there.
Unclaimed(x) == [emailedAt EXCEPT ![x] = 0]

GiveBack(p) ==
    /\ At(p, "failed")
    /\ emailedAt' = Unclaimed(req[p].inv)
    /\ Ends(p)
    /\ UNCHANGED <<events, accounts, invited, entry, month, mails, lost, crashes>>

-----------------------------------------------------------------------------
\* markRead finds the entry of its owner unread ...
BeginMarkRead(p, x) ==
    /\ "inbox" \in Ops
    /\ Alive(x) /\ entry[x] = "unread"
    /\ Starts(p, "reading", x)
    /\ UNCHANGED <<rows, month, mails, lost, crashes>>

\* ... and saves it: the entry is inserted again if it was removed meanwhile.
MarkRead(p) ==
    /\ At(p, "reading")
    /\ entry' = [entry EXCEPT ![req[p].inv] = "read"]
    /\ Ends(p)
    /\ UNCHANGED <<events, accounts, invited, emailedAt, month, mails, lost, crashes>>

\* remove deletes one entry, removeAll all of a person, markAllRead reads them.
RemoveEntry(x) ==
    /\ "inbox" \in Ops
    /\ Alive(x) /\ entry[x] # "none"
    /\ entry' = [entry EXCEPT ![x] = "none"]
    /\ UNCHANGED <<events, accounts, invited, emailedAt, month, mails, lost, crashes, req>>

RemoveAll(u) ==
    /\ "inbox" \in Ops
    /\ u \in accounts
    /\ entry' = [x \in Invitation |-> IF x[2] = u THEN "none" ELSE entry[x]]
    /\ UNCHANGED <<events, accounts, invited, emailedAt, month, mails, lost, crashes, req>>

MarkAllRead(u) ==
    /\ "inbox" \in Ops
    /\ u \in accounts
    /\ entry' = [x \in Invitation |->
                    IF x[2] = u /\ entry[x] = "unread" THEN "read" ELSE entry[x]]
    /\ UNCHANGED <<events, accounts, invited, emailedAt, month, mails, lost, crashes, req>>

-----------------------------------------------------------------------------

\* Rows go, their emailedAt with them.
Drop(gone) ==
    /\ invited' = invited \ gone
    /\ emailedAt' = [x \in Invitation |-> IF x \in gone THEN 0 ELSE emailedAt[x]]

\* The foreign key takes an event's invitations along, the inbox keeps its entries.
RemoveEvent(e) ==
    /\ "event" \in Ops
    /\ e \in events
    /\ events' = events \ {e}
    /\ Drop({x \in Invitation : x[1] = e})
    /\ UNCHANGED <<accounts, entry, month, mails, lost, crashes, req>>

\* deleteCommunity: its events, and every entry that points at its page.  (One
\* without events has no invitations to lose.)
DeleteCommunity ==
    /\ "community" \in Ops
    /\ events # {}
    /\ events' = {}
    /\ Drop(Invitation)
    /\ entry' = [x \in Invitation |-> "none"]
    /\ UNCHANGED <<accounts, month, mails, lost, crashes, req>>

\* deleteAccount removes both, the lock on the account's row makes it one step.
DeleteAccount(u) ==
    /\ "account" \in Ops
    /\ u \in accounts
    /\ accounts' = accounts \ {u}
    /\ Drop({x \in Invitation : x[2] = u})
    /\ entry' = [x \in Invitation |-> IF x[2] = u THEN "none" ELSE entry[x]]
    /\ UNCHANGED <<events, month, mails, lost, crashes, req>>

NextMonth ==
    /\ month < MaxMonth
    /\ month' = month + 1
    /\ UNCHANGED <<rows, mails, lost, crashes, req>>

\* The server stops: open transactions roll back, the rest is never finished.
Crash ==
    /\ crashes < MaxCrashes
    /\ \E p \in Proc : ~At(p, "idle")
    /\ crashes' = crashes + 1
    /\ lost' = lost \cup {req[p].inv : p \in {q \in Proc : req[q].step \in {"mail", "failed"}}}
    /\ req' = [p \in Proc |-> Idle]
    /\ UNCHANGED <<rows, month, mails>>

Next ==
    \/ \E p \in Proc :
          \/ \E x \in Invitation : BeginInvite(p, x) \/ BeginMarkRead(p, x)
          \/ Record(p) \/ Count(p) \/ Claim(p) \/ Send(p) \/ GiveBack(p) \/ MarkRead(p)
    \/ \E x \in Invitation : RemoveEntry(x)
    \/ \E u \in Person : RemoveAll(u) \/ MarkAllRead(u) \/ DeleteAccount(u)
    \/ \E e \in Event : RemoveEvent(e)
    \/ DeleteCommunity
    \/ NextMonth
    \/ Crash

Spec == Init /\ [][Next]_vars

-----------------------------------------------------------------------------
\* Invitations are for existing events, stamped months lie in the past, and a
\* stamp belongs to a row.
TypeOK ==
    /\ events \subseteq Event
    /\ accounts \subseteq Person
    /\ invited \subseteq Invitation
    /\ \A x \in invited : Open(x)
    /\ emailedAt \in [Invitation -> 0 .. month]
    /\ \A x \in Invitation : emailedAt[x] # 0 => x \in invited
    /\ entry \in [Invitation -> {"none", "unread", "read"}]
    /\ month \in Nat \ {0}
    /\ mails \in [Invitation -> Nat]
    /\ lost \subseteq Invitation
    /\ crashes \in Nat
    /\ req \in [Proc -> Request]

\* The advisory lock makes count and stamp one: however many invitations run at
\* once, over a turn of the month too, no month counts more mails than the cap.
ClaimsWithinCap == \A m \in 1 .. month : Cardinality(Claims(m)) <= Cap

\* A mail that went out is counted as long as its event and its reader are
\* there, so only their removal makes room for more mails than the cap.
MailsCounted ==
    \A x \in Invitation : mails[x] > 0 /\ Open(x) /\ Alive(x) => emailedAt[x] # 0

\* A stamped row had its mail sent, or its request is still at it, or a stop
\* cut it off: nothing else uses up the cap.
StampsAreMails ==
    \A x \in invited :
        emailedAt[x] # 0 =>
            \/ mails[x] > 0
            \/ \E p \in Proc : req[p].inv = x /\ req[p].step \in {"mail", "failed"}
            \/ x \in lost

\* So what a month counts are the mails that went out for what is still there.
CountsMatchMails == MailsCounted /\ StampsAreMails

\* Nobody gets a second mail for an event, however often they are invited at
\* once, unless they deleted their account in between.
MailedOnce == \A x \in Invitation : mails[x] > 1 => ~Alive(x)

\* "Invitation mail is capped at 400 per month".
CapHolds == MaxMonth = 1 => Cardinality({x \in Invitation : mails[x] > 0}) <= Cap

\* "personal data and private records are removed" with the account.
NothingKept == \A x \in Invitation : ~Alive(x) => x \notin invited /\ entry[x] = "none"

\* An entry that was removed stays removed.
RemovedStaysRemoved ==
    [][\A x \in Invitation :
         entry[x] = "none" /\ entry'[x] # "none" => x \in invited' \ invited]_vars

=============================================================================
