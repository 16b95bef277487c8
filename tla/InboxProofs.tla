----------------------------- MODULE InboxProofs -----------------------------
(***************************************************************************)
(* Theorems about Inbox for any number of events, accounts and requests,   *)
(* any cap, any number of months and any number of stops of the server.    *)
(* Then about Finder, the pages that search events, for any number of acts *)
(* of their visitor; and about the feeds and the addresses of communities  *)
(* (MCPages), which inbox entries point at, for any number of people,      *)
(* requests, rows, communities and subgroups.                              *)
(***************************************************************************)
EXTENDS MCInbox, MCPages, FiniteSetTheorems, WellFoundedInduction, TLAPS

\* A request that starts, goes on or ends keeps the table of requests typed.
LEMMA RequestTypes ==
  ASSUME req \in [Proc -> Request], NEW p \in Proc
  PROVE  /\ Ends(p) => req' \in [Proc -> Request]
         /\ \A s \in Step : req[p].step # "idle" /\ Goes(p, s) => req' \in [Proc -> Request]
         /\ \A s \in Step, x \in Invitation : Starts(p, s, x) => req' \in [Proc -> Request]
<1>1. Ends(p) => req' \in [Proc -> Request]
  BY DEF Ends, Request
<1>2. ASSUME NEW s \in Step, req[p].step # "idle", Goes(p, s)
      PROVE  req' \in [Proc -> Request]
  <2>1. req[p] \in [step: Step, inv: Invitation]
    BY <1>2 DEF Request, Idle
  <2>2. [req[p] EXCEPT !.step = s] \in Request
    BY <2>1 DEF Request
  <2> QED BY <1>2, <2>2 DEF Goes
<1>3. ASSUME NEW s \in Step, NEW x \in Invitation, Starts(p, s, x)
      PROVE  req' \in [Proc -> Request]
  <2>1. [step |-> s, inv |-> x] \in Request
    BY DEF Request
  <2> QED BY <1>3, <2>1 DEF Starts
<1> QED BY <1>1, <1>2, <1>3

\* A request under way is about an invitation.
LEMMA AboutAnInvitation ==
  ASSUME req \in [Proc -> Request], NEW p \in Proc, req[p].step # "idle"
  PROVE  req[p].inv \in Invitation
BY DEF Request, Idle

\* What a request that starts, goes on or ends is at, and that the others stay.
LEMMA Moves ==
  ASSUME req \in [Proc -> Request], NEW p \in Proc
  PROVE  /\ Ends(p) => req'[p] = Idle
         /\ \A s \in Step : Goes(p, s) => req'[p].step = s /\ req'[p].inv = req[p].inv
         /\ \A s \in Step, x \in Invitation :
               Starts(p, s, x) => req'[p].step = s /\ req'[p].inv = x
         /\ Ends(p) \/ (\E s \in Step : Goes(p, s))
               \/ (\E s \in Step, x \in Invitation : Starts(p, s, x))
            => \A q \in Proc : q # p => req'[q] = req[q]
<1>1. Ends(p) => req'[p] = Idle /\ \A q \in Proc : q # p => req'[q] = req[q]
  BY DEF Ends
<1>2. ASSUME NEW s \in Step, Goes(p, s)
      PROVE  /\ req'[p].step = s /\ req'[p].inv = req[p].inv
             /\ \A q \in Proc : q # p => req'[q] = req[q]
  <2>1. req' = [req EXCEPT ![p] = [req[p] EXCEPT !.step = s]]
    BY <1>2 DEF Goes
  <2>2. req[p] \in [step: Step \cup {"idle"}, inv: Invitation \cup {Nothing}]
    BY DEF Request, Idle
  <2> QED BY <2>1, <2>2
<1>3. ASSUME NEW s \in Step, NEW x \in Invitation, Starts(p, s, x)
      PROVE  /\ req'[p].step = s /\ req'[p].inv = x
             /\ \A q \in Proc : q # p => req'[q] = req[q]
  BY <1>3 DEF Starts
<1> QED BY <1>1, <1>2, <1>3

\* Rows that go leave the others and their stamps as they are.
LEMMA DropTypes ==
  ASSUME TypeOK, NEW gone, Drop(gone)
  PROVE  /\ invited' = invited \ gone
         /\ emailedAt' \in [Invitation -> 0 .. month]
         /\ \A x \in Invitation : emailedAt'[x] # 0 =>
               x \in invited' /\ emailedAt'[x] = emailedAt[x]
         /\ \A x \in Invitation : x \notin gone => emailedAt'[x] = emailedAt[x]
BY DEF Drop, TypeOK

\* Types hold in every state.
THEOREM TypeCorrect == Spec => []TypeOK
<1>1. Init => TypeOK
  BY DEF Init, TypeOK, Request
<1>2. TypeOK /\ [Next]_vars => TypeOK'
  <2> SUFFICES ASSUME TypeOK, [Next]_vars PROVE TypeOK'
    OBVIOUS
  <2> USE DEF TypeOK
  <2>1. ASSUME NEW p \in Proc, NEW x \in Invitation, BeginInvite(p, x) PROVE TypeOK'
    BY <2>1, RequestTypes DEF BeginInvite, rows, Step, Open
  <2>2. ASSUME NEW p \in Proc, NEW x \in Invitation, BeginMarkRead(p, x) PROVE TypeOK'
    BY <2>2, RequestTypes DEF BeginMarkRead, rows, Step, Open
  <2>3. ASSUME NEW p \in Proc, Record(p) PROVE TypeOK'
    <3>1. req[p].inv \in Invitation
      BY <2>3, AboutAnInvitation DEF Record, At
    <3>2. req' \in [Proc -> Request]
      BY <2>3, RequestTypes DEF Record, At, Step
    <3>3. CASE Open(req[p].inv) /\ ~Already(req[p].inv)
      <4>1. /\ invited' = invited \cup {req[p].inv}
            /\ entry' = [entry EXCEPT ![req[p].inv] = "unread"]
            /\ UNCHANGED <<events, accounts, emailedAt, month, mails, lost, crashes>>
        BY <2>3, <3>3 DEF Record
      <4> QED BY <3>1, <3>2, <3>3, <4>1 DEF Open
    <3>4. CASE ~(Open(req[p].inv) /\ ~Already(req[p].inv))
      <4>1. UNCHANGED <<rows, month, mails, lost, crashes>>
        BY <2>3, <3>4 DEF Record, rows
      <4> QED BY <3>2, <4>1 DEF rows, Open
    <3> QED BY <3>3, <3>4
  <2>4. ASSUME NEW p \in Proc, Count(p) PROVE TypeOK'
    <3>1. req' \in [Proc -> Request]
      BY <2>4, RequestTypes DEF Count, At, Step
    <3> QED BY <2>4, <3>1 DEF Count, rows, Open
  <2>5. ASSUME NEW p \in Proc, Claim(p) PROVE TypeOK'
    <3>1. req' \in [Proc -> Request]
      BY <2>5, RequestTypes DEF Claim, At, Step
    <3> QED BY <2>5, <3>1 DEF Claim, Open
  <2>6. ASSUME NEW p \in Proc, Send(p) PROVE TypeOK'
    <3>1. req' \in [Proc -> Request]
      BY <2>6, RequestTypes DEF Send, At, Step
    <3> QED BY <2>6, <3>1 DEF Send, rows, Open
  <2>7. ASSUME NEW p \in Proc, GiveBack(p) PROVE TypeOK'
    <3>1. req' \in [Proc -> Request]
      BY <2>7, RequestTypes DEF GiveBack
    <3>2. /\ emailedAt' = [emailedAt EXCEPT ![req[p].inv] = 0]
          /\ UNCHANGED <<events, accounts, invited, entry, month, mails, lost, crashes>>
      BY <2>7 DEF GiveBack, Unclaimed
    <3>3. /\ emailedAt' \in [Invitation -> 0 .. month]
          /\ \A x \in Invitation : emailedAt'[x] # 0 => emailedAt[x] # 0
      <4>1. emailedAt \in [Invitation -> 0 .. month] /\ 0 \in 0 .. month
        OBVIOUS
      <4> HIDE DEF TypeOK
      <4> QED BY <3>2, <4>1
    <3> QED BY <3>1, <3>2, <3>3 DEF Open
  <2>8. ASSUME NEW p \in Proc, MarkRead(p) PROVE TypeOK'
    <3>1. req' \in [Proc -> Request]
      BY <2>8, RequestTypes DEF MarkRead
    <3> QED BY <2>8, <3>1 DEF MarkRead, Open
  <2>9. ASSUME NEW x \in Invitation, RemoveEntry(x) PROVE TypeOK'
    BY <2>9 DEF RemoveEntry, Open
  <2>10. ASSUME NEW u \in Person, RemoveAll(u) PROVE TypeOK'
    BY <2>10 DEF RemoveAll, Open
  <2>11. ASSUME NEW u \in Person, MarkAllRead(u) PROVE TypeOK'
    BY <2>11 DEF MarkAllRead, Open
  <2>12. ASSUME NEW u \in Person, DeleteAccount(u) PROVE TypeOK'
    <3>1. Drop({x \in Invitation : x[2] = u})
      BY <2>12 DEF DeleteAccount
    <3> QED BY <2>12, <3>1, DropTypes DEF DeleteAccount, Open
  <2>13. ASSUME NEW e \in Event, RemoveEvent(e) PROVE TypeOK'
    <3>1. Drop({x \in Invitation : x[1] = e})
      BY <2>13 DEF RemoveEvent
    <3> QED BY <2>13, <3>1, DropTypes DEF RemoveEvent, Open
  <2>14. CASE DeleteCommunity
    <3>1. Drop(Invitation)
      BY <2>14 DEF DeleteCommunity
    <3> QED BY <2>14, <3>1, DropTypes DEF DeleteCommunity, Open
  <2>15. CASE NextMonth
    BY <2>15 DEF NextMonth, rows, Open
  <2>16. CASE Crash
    <3>1. req' \in [Proc -> Request]
      BY <2>16 DEF Crash, Request
    <3>2. lost' \subseteq Invitation
      BY <2>16, AboutAnInvitation DEF Crash
    <3> QED BY <2>16, <3>1, <3>2 DEF Crash, rows, Open
  <2>17. CASE UNCHANGED vars
    BY <2>17 DEF vars, Open
  <2> QED
    BY <2>1, <2>2, <2>3, <2>4, <2>5, <2>6, <2>7, <2>8, <2>9, <2>10, <2>11, <2>12,
       <2>13, <2>14, <2>15, <2>16, <2>17 DEF Next
<1> QED BY <1>1, <1>2, PTL DEF Spec

-----------------------------------------------------------------------------
\* One request at a time is between count and stamp, and as long as it is
\* there the month has room for it.
LockedOnce == \A p, q \in Proc : At(p, "counted") /\ At(q, "counted") => p = q
RoomLeft == \A p \in Proc : At(p, "counted") => Cardinality(Claims(month)) < Cap
CapInv == LockedOnce /\ RoomLeft /\ ClaimsWithinCap

\* Fewer claims are not more.
LEMMA FewerClaims ==
  ASSUME NEW S, NEW T, S \subseteq T, T \subseteq Invitation
  PROVE  /\ Cardinality(S) \in Nat /\ Cardinality(T) \in Nat
         /\ Cardinality(S) <= Cardinality(T)
         /\ IsFiniteSet(T)
<1>1. IsFiniteSet(Invitation)
  BY FS_Product, FiniteAssumption DEF Invitation
<1>2. IsFiniteSet(T) /\ IsFiniteSet(S)
  BY <1>1, FS_Subset
<1> QED BY <1>2, FS_Subset, FS_CardinalityType

\* What the cap counts after a step.
NextClaims(m) == {x \in invited' : emailedAt'[x] = m}

\* A step that stamps nothing, lets nobody past the count and stays in the
\* month preserves the cap.
LEMMA NoNewClaims ==
  ASSUME TypeOK, CapInv, month' = month,
         \A m \in 1 .. month : NextClaims(m) \subseteq Claims(m),
         \A p \in Proc : At(p, "counted")' => At(p, "counted")
  PROVE  CapInv'
<1>1. \A m \in 1 .. month : Claims(m) \subseteq Invitation
  BY DEF Claims, TypeOK
<1>2. \A m \in 1 .. month : /\ Cardinality(NextClaims(m)) <= Cardinality(Claims(m))
                           /\ Cardinality(NextClaims(m)) \in Nat /\ Cardinality(Claims(m)) \in Nat
  BY <1>1, FewerClaims
<1>3. month \in 1 .. month /\ Cap \in Nat
  BY CapAssumption DEF TypeOK
<1>4. \A m \in 1 .. month : Cardinality(NextClaims(m)) <= Cap
  BY <1>2, <1>3 DEF CapInv, ClaimsWithinCap
<1>5. LockedOnce'
  BY DEF CapInv, LockedOnce
<1>6. ASSUME NEW p \in Proc, At(p, "counted")' PROVE Cardinality(NextClaims(month)) < Cap
  <2>1. Cardinality(Claims(month)) < Cap
    BY <1>6 DEF CapInv, RoomLeft
  <2> QED BY <1>2, <1>3, <2>1
<1>7. RoomLeft'
  BY <1>6 DEF RoomLeft, NextClaims, Claims
<1>8. ClaimsWithinCap'
  BY <1>4 DEF ClaimsWithinCap, NextClaims, Claims
<1> QED BY <1>5, <1>7, <1>8 DEF CapInv

\* The cap is kept in every state.
THEOREM MonthsWithinCap == Spec => []ClaimsWithinCap
<1>1. Init => CapInv
  <2> SUFFICES ASSUME Init PROVE CapInv
    OBVIOUS
  <2>1. \A m : Claims(m) = {}
    BY DEF Init, Claims
  <2>2. \A p \in Proc : ~At(p, "counted")
    BY DEF Init, At, Idle
  <2> QED
    BY <2>1, <2>2, FS_EmptySet, CapAssumption DEF CapInv, LockedOnce, RoomLeft, ClaimsWithinCap
<1>2. TypeOK /\ TypeOK' /\ CapInv /\ [Next]_vars => CapInv'
  <2> SUFFICES ASSUME TypeOK, TypeOK', CapInv, [Next]_vars PROVE CapInv'
    OBVIOUS
  <2>0. req \in [Proc -> Request] /\ Idle.step = "idle"
    BY DEF TypeOK, Idle
  <2> USE DEF At
  <2>1. ASSUME NEW p \in Proc, NEW x \in Invitation, BeginInvite(p, x) PROVE CapInv'
    BY <2>0, <2>1, Moves, NoNewClaims DEF BeginInvite, rows, NextClaims, Claims, Step
  <2>2. ASSUME NEW p \in Proc, NEW x \in Invitation, BeginMarkRead(p, x) PROVE CapInv'
    BY <2>0, <2>2, Moves, NoNewClaims DEF BeginMarkRead, rows, NextClaims, Claims, Step
  <2>3. ASSUME NEW p \in Proc, Record(p) PROVE CapInv'
    <3>1. \A q \in Proc : At(q, "counted")' => At(q, "counted")
      BY <2>0, <2>3, Moves DEF Record, Step
    <3>2. \A m \in 1 .. month : NextClaims(m) \subseteq Claims(m)
      <4>1. \A x \in invited' : emailedAt[x] # 0 => x \in invited
        BY <2>3, AboutAnInvitation DEF Record, TypeOK
      <4> QED BY <2>3, <4>1 DEF Record, NextClaims, Claims
    <3> QED BY <2>3, <3>1, <3>2, NoNewClaims DEF Record
  <2>4. ASSUME NEW p \in Proc, Count(p) PROVE CapInv'
    <3>1. UNCHANGED <<invited, emailedAt, month>>
      BY <2>4 DEF Count, rows
    <3>2. CASE UnderCap
      <4>1. Goes(p, "counted") /\ \A q \in Proc : ~At(q, "counted")
        BY <2>4, <3>2 DEF Count, LockFree
      <4>2. \A q \in Proc : At(q, "counted")' => q = p
        BY <2>0, <4>1, Moves DEF Step
      <4> QED
        BY <3>1, <3>2, <4>2 DEF CapInv, LockedOnce, RoomLeft, ClaimsWithinCap, Claims, UnderCap
    <3>3. CASE ~UnderCap
      <4>1. \A q \in Proc : At(q, "counted")' => At(q, "counted")
        BY <2>0, <2>4, <3>3, Moves DEF Count
      <4> QED BY <3>1, <4>1, NoNewClaims DEF NextClaims, Claims
    <3> QED BY <3>2, <3>3
  <2>5. ASSUME NEW p \in Proc, Claim(p) PROVE CapInv'
    <3> DEFINE x == req[p].inv
    <3>1. x \in Invitation /\ month' = month /\ invited' = invited
      BY <2>5, AboutAnInvitation DEF Claim, TypeOK
    <3>2. \A q \in Proc : ~At(q, "counted")'
      BY <2>0, <2>5, Moves DEF Claim, CapInv, LockedOnce, Step
    <3>3. \A m \in 1 .. month : m # month => NextClaims(m) \subseteq Claims(m)
      BY <2>5, <3>1 DEF Claim, NextClaims, Claims, TypeOK
    <3>4. NextClaims(month) \subseteq Claims(month) \cup {x}
      BY <2>5, <3>1 DEF Claim, NextClaims, Claims, TypeOK
    <3>5. Cardinality(Claims(month)) < Cap
      BY <2>5 DEF Claim, CapInv, RoomLeft
    <3>6. \A m \in 1 .. month : Cardinality(NextClaims(m)) <= Cap
      <4>1. \A m \in 1 .. month : Claims(m) \subseteq Invitation
        BY DEF Claims, TypeOK
      <4>2. month \in 1 .. month /\ Cap \in Nat
        BY CapAssumption DEF TypeOK
      <4>3. IsFiniteSet(Claims(month)) /\ Cardinality(Claims(month)) \in Nat
        BY <4>1, <4>2, FewerClaims
      <4>4. Cardinality(Claims(month) \cup {x}) <= Cardinality(Claims(month)) + 1
        <5>1. Cardinality(Claims(month) \cup {x})
                = IF x \in Claims(month) THEN Cardinality(Claims(month)) ELSE Cardinality(Claims(month)) + 1
          BY <4>3, FS_AddElement
        <5> QED BY <4>3, <5>1
      <4>5. /\ Cardinality(NextClaims(month)) <= Cardinality(Claims(month) \cup {x})
            /\ Cardinality(NextClaims(month)) \in Nat
            /\ Cardinality(Claims(month) \cup {x}) \in Nat
        BY <3>1, <3>4, <4>1, <4>2, FewerClaims
      <4>6. Cardinality(NextClaims(month)) <= Cap
        BY <3>5, <4>2, <4>3, <4>4, <4>5
      <4>7. ASSUME NEW m \in 1 .. month, m # month PROVE Cardinality(NextClaims(m)) <= Cap
        <5>1. /\ Cardinality(NextClaims(m)) <= Cardinality(Claims(m))
              /\ Cardinality(NextClaims(m)) \in Nat /\ Cardinality(Claims(m)) \in Nat
          BY <3>3, <4>1, <4>7, FewerClaims
        <5>2. Cardinality(Claims(m)) <= Cap
          BY DEF CapInv, ClaimsWithinCap
        <5> QED BY <4>2, <5>1, <5>2
      <4> QED BY <4>6, <4>7
    <3> QED
      BY <3>1, <3>2, <3>6 DEF CapInv, LockedOnce, RoomLeft, ClaimsWithinCap, NextClaims, Claims
  <2>6. ASSUME NEW p \in Proc, Send(p) PROVE CapInv'
    <3>1. \A q \in Proc : At(q, "counted")' => At(q, "counted")
      BY <2>0, <2>6, Moves DEF Send, Step
    <3> QED BY <2>6, <3>1, NoNewClaims DEF Send, rows, NextClaims, Claims
  <2>7. ASSUME NEW p \in Proc, GiveBack(p) PROVE CapInv'
    <3>1. \A q \in Proc : At(q, "counted")' => At(q, "counted")
      BY <2>0, <2>7, Moves DEF GiveBack
    <3>2. \A m \in 1 .. month : NextClaims(m) \subseteq Claims(m)
      BY <2>7 DEF GiveBack, Unclaimed, NextClaims, Claims, TypeOK
    <3> QED BY <2>7, <3>1, <3>2, NoNewClaims DEF GiveBack
  <2>8. ASSUME NEW p \in Proc, MarkRead(p) PROVE CapInv'
    BY <2>0, <2>8, Moves, NoNewClaims DEF MarkRead, NextClaims, Claims
  <2>9. ASSUME NEW x \in Invitation, RemoveEntry(x) PROVE CapInv'
    BY <2>9, NoNewClaims DEF RemoveEntry, NextClaims, Claims
  <2>10. ASSUME NEW u \in Person, RemoveAll(u) PROVE CapInv'
    BY <2>10, NoNewClaims DEF RemoveAll, NextClaims, Claims
  <2>11. ASSUME NEW u \in Person, MarkAllRead(u) PROVE CapInv'
    BY <2>11, NoNewClaims DEF MarkAllRead, NextClaims, Claims
  <2>12. ASSUME NEW gone, Drop(gone), UNCHANGED <<month, req>> PROVE CapInv'
    <3>1. \A m \in 1 .. month : NextClaims(m) \subseteq Claims(m)
      BY <2>12, DropTypes DEF NextClaims, Claims, TypeOK
    <3> QED BY <2>12, <3>1, NoNewClaims
  <2>13. ASSUME NEW u \in Person, DeleteAccount(u) PROVE CapInv'
    BY <2>12, <2>13 DEF DeleteAccount
  <2>14. ASSUME NEW e \in Event, RemoveEvent(e) PROVE CapInv'
    BY <2>12, <2>14 DEF RemoveEvent
  <2>15. CASE DeleteCommunity
    BY <2>12, <2>15 DEF DeleteCommunity
  <2>16. CASE NextMonth
    <3>1. month' = month + 1 /\ UNCHANGED <<invited, emailedAt, req>>
      BY <2>16 DEF NextMonth, rows
    <3>2. \A m \in 1 .. month : NextClaims(m) = Claims(m)
      BY <3>1 DEF NextClaims, Claims
    <3>3. NextClaims(month + 1) = {}
      BY <3>1 DEF NextClaims, TypeOK
    <3>4. \A m \in 1 .. month + 1 : m \in 1 .. month \/ m = month + 1
      BY DEF TypeOK
    <3>5. \A m \in 1 .. month + 1 : Cardinality(NextClaims(m)) <= Cap
      BY <3>2, <3>3, <3>4, FS_EmptySet, CapAssumption DEF CapInv, ClaimsWithinCap
    <3>6. Cardinality(NextClaims(month + 1)) < Cap
      BY <3>3, FS_EmptySet, CapAssumption
    <3> QED
      BY <3>1, <3>5, <3>6 DEF CapInv, LockedOnce, RoomLeft, ClaimsWithinCap, NextClaims, Claims
  <2>17. CASE Crash
    <3>1. \A q \in Proc : ~At(q, "counted")'
      BY <2>17 DEF Crash, Idle
    <3> QED BY <2>17, <3>1, NoNewClaims DEF Crash, rows, NextClaims, Claims
  <2>18. CASE UNCHANGED vars
    BY <2>18, NoNewClaims DEF vars, NextClaims, Claims
  <2> QED
    BY <2>1, <2>2, <2>3, <2>4, <2>5, <2>6, <2>7, <2>8, <2>9, <2>10, <2>11, <2>13,
       <2>14, <2>15, <2>16, <2>17, <2>18 DEF Next
<1>3. CapInv => ClaimsWithinCap
  BY DEF CapInv
<1> QED BY <1>1, <1>2, <1>3, TypeCorrect, PTL DEF Spec

-----------------------------------------------------------------------------
\* A request that has recorded its invitation has it to itself, has not sent
\* its mail, finds its row, and has stamped it before the mail goes out - as
\* long as the account and the event are there.
Recorded(p) == req[p].step \in {"claim", "counted", "mail", "failed"}
OneEach ==
    \A p, q \in Proc :
        Recorded(p) /\ Recorded(q) /\ req[p].inv = req[q].inv /\ Alive(req[p].inv) => p = q
Unmailed == \A p \in Proc : Recorded(p) /\ Alive(req[p].inv) => mails[req[p].inv] = 0
RowThere ==
    \A p \in Proc : Recorded(p) /\ Alive(req[p].inv) /\ Open(req[p].inv) => req[p].inv \in invited
StampThere ==
    \A p \in Proc :
        At(p, "mail") /\ Alive(req[p].inv) /\ Open(req[p].inv) => emailedAt[req[p].inv] # 0
MailInv == OneEach /\ Unmailed /\ RowThere /\ StampThere /\ MailsCounted /\ MailedOnce

\* A step that records, stamps and sends nothing, and takes rows only with
\* their event or account, preserves it.
LEMMA NoMail ==
  ASSUME TypeOK, MailInv, mails' = mails, events' \subseteq events, accounts' \subseteq accounts,
         \A q \in Proc : Recorded(q)' => Recorded(q) /\ req'[q].inv = req[q].inv,
         \A q \in Proc : At(q, "mail")' => At(q, "mail"),
         \A x \in Invitation : x[1] \in events' /\ x[2] \in accounts' =>
            emailedAt'[x] = emailedAt[x] /\ (x \in invited => x \in invited')
  PROVE  MailInv'
<1>1. \A q \in Proc : Recorded(q) => req[q].inv \in Invitation
  BY AboutAnInvitation DEF Recorded, TypeOK
<1>2. \A q \in Proc : At(q, "mail") => Recorded(q)
  BY DEF At, Recorded
<1>3. OneEach'
  BY DEF MailInv, OneEach, Alive
<1>4. Unmailed'
  BY DEF MailInv, Unmailed, Alive
<1>5. RowThere'
  BY <1>1 DEF MailInv, RowThere, Alive, Open
<1>6. StampThere'
  <2> SUFFICES ASSUME NEW p \in Proc, At(p, "mail")', Alive(req[p].inv)', Open(req[p].inv)'
               PROVE  emailedAt'[req'[p].inv] # 0
    BY DEF StampThere
  <2>1. Recorded(p)' /\ At(p, "mail")
    BY DEF At, Recorded
  <2>2. req'[p].inv = req[p].inv /\ req[p].inv \in Invitation
    BY <1>1, <2>1
  <2>3. emailedAt[req[p].inv] # 0
    BY <2>1, <2>2 DEF MailInv, StampThere, Alive, Open
  <2> QED BY <2>2, <2>3 DEF Alive, Open
<1>7. MailsCounted'
  BY DEF MailInv, MailsCounted, Alive, Open
<1>8. MailedOnce'
  BY DEF MailInv, MailedOnce, Alive
<1> QED BY <1>3, <1>4, <1>5, <1>6, <1>7, <1>8 DEF MailInv

\* Recording, stamping, sending and giving back preserve it.
LEMMA MailSteps ==
  ASSUME TypeOK, MailInv, NEW p \in Proc, Record(p) \/ Claim(p) \/ Send(p) \/ GiveBack(p)
  PROVE  MailInv'
<1> DEFINE x == req[p].inv
<1>0. req \in [Proc -> Request] /\ Idle.step = "idle" /\ x \in Invitation
  BY AboutAnInvitation DEF TypeOK, Idle, Record, Claim, Send, GiveBack, At
<1>1. \A q \in Proc : q # p => req'[q] = req[q]
  BY <1>0, Moves DEF Record, Claim, Send, GiveBack, Step
<1>2. UNCHANGED <<events, accounts>> /\ \A y : (Alive(y)' <=> Alive(y)) /\ (Open(y)' <=> Open(y))
  BY DEF Record, Claim, Send, GiveBack, rows, Alive, Open
<1> HIDE DEF x
<1>3. CASE Record(p)
  <2>1. CASE Open(x) /\ ~Already(x) /\ Goes(p, "claim")
    <3>1. /\ invited' = invited \cup {x} /\ UNCHANGED <<emailedAt, mails>>
          /\ Goes(p, "claim")
      BY <1>3, <2>1 DEF Record, x
    <3>2. req'[p].step = "claim" /\ req'[p].inv = x
      BY <1>0, <3>1, Moves DEF Step, x
    <3>3. emailedAt[x] = 0 /\ x \notin invited
      BY <1>0, <2>1 DEF TypeOK, Already
    <3>4. Alive(x) => mails[x] = 0
      BY <1>0, <2>1, <3>3 DEF MailInv, MailsCounted, TypeOK
    <3>5. \A q \in Proc : Recorded(q) /\ req[q].inv = x => ~Alive(x)
      BY <2>1, <3>3 DEF MailInv, RowThere
    <3>6. OneEach'
      BY <1>1, <1>2, <3>2, <3>5 DEF MailInv, OneEach, Recorded
    <3>7. Unmailed'
      BY <1>1, <1>2, <3>1, <3>2, <3>4 DEF MailInv, Unmailed, Recorded
    <3>8. RowThere'
      BY <1>1, <1>2, <3>1, <3>2 DEF MailInv, RowThere, Recorded
    <3>9. StampThere'
      BY <1>1, <1>2, <3>1, <3>2 DEF MailInv, StampThere, At
    <3>10. MailsCounted' /\ MailedOnce'
      BY <1>2, <3>1 DEF MailInv, MailsCounted, MailedOnce
    <3> QED BY <3>6, <3>7, <3>8, <3>9, <3>10 DEF MailInv
  <2>2. CASE Ends(p)
    <3>1. invited \subseteq invited' /\ UNCHANGED <<emailedAt, mails>> /\ Ends(p)
      BY <1>3, <2>2 DEF Record, x
    <3>2. req'[p].step = "idle"
      BY <1>0, <3>1, Moves
    <3> QED BY <1>1, <1>2, <3>1, <3>2, NoMail DEF Recorded, At
  <2> QED BY <1>3, <2>1, <2>2 DEF Record, x
<1>4. CASE Claim(p)
  <2>1. req'[p].step = "mail" /\ req'[p].inv = x /\ Recorded(p)
    BY <1>0, <1>4, Moves DEF Claim, Step, x, At, Recorded
  <2>2. UNCHANGED <<invited, mails>> /\ month # 0
    BY <1>4 DEF Claim, TypeOK
  <2>3. /\ \A y \in Invitation : emailedAt[y] # 0 => emailedAt'[y] # 0
        /\ x \in invited => emailedAt'[x] # 0
    BY <1>0, <1>4, <2>2 DEF Claim, TypeOK, x
  <2>4. OneEach' /\ Unmailed' /\ RowThere'
    BY <1>1, <1>2, <2>1, <2>2 DEF MailInv, OneEach, Unmailed, RowThere, Recorded, x
  <2>5. StampThere'
    <3> SUFFICES ASSUME NEW q \in Proc, At(q, "mail")', Alive(req[q].inv)', Open(req[q].inv)'
                 PROVE  emailedAt'[req'[q].inv] # 0
      BY DEF StampThere
    <3>1. CASE q = p
      <4>1. x \in invited
        BY <1>2, <2>1, <3>1 DEF MailInv, RowThere, x, Alive, Open
      <4> QED BY <2>1, <2>3, <3>1, <4>1
    <3>2. CASE q # p
      <4>1. req'[q] = req[q] /\ req[q].inv \in Invitation
        BY <1>0, <1>1, <3>2, AboutAnInvitation DEF At
      <4>2. emailedAt[req[q].inv] # 0
        BY <1>2, <4>1 DEF MailInv, StampThere, At, Alive, Open
      <4> QED BY <2>3, <4>1, <4>2
    <3> QED BY <3>1, <3>2
  <2>6. MailsCounted' /\ MailedOnce'
    BY <1>2, <2>2, <2>3 DEF MailInv, MailsCounted, MailedOnce
  <2> QED BY <2>4, <2>5, <2>6 DEF MailInv
<1>5. CASE Send(p)
  <2>1. CASE Ends(p) /\ mails' = [mails EXCEPT ![x] = @ + 1]
    <3>1. req'[p].step = "idle" /\ Recorded(p) /\ At(p, "mail") /\ UNCHANGED <<invited, emailedAt>>
      BY <1>0, <1>5, <2>1, Moves DEF Send, At, Recorded, rows
    <3>2. /\ mails'[x] = mails[x] + 1
          /\ \A y \in Invitation : y # x => mails'[y] = mails[y]
      BY <1>0, <2>1 DEF TypeOK
    <3>3. Alive(x) => mails[x] = 0 /\ (Open(x) => emailedAt[x] # 0)
      BY <3>1 DEF MailInv, Unmailed, StampThere, x
    <3>4. \A q \in Proc : q # p /\ Recorded(q) /\ Alive(req[q].inv) =>
             req[q].inv # x /\ req[q].inv \in Invitation
      BY <1>0, <3>1, AboutAnInvitation DEF MailInv, OneEach, x, Recorded
    <3>5. OneEach' /\ RowThere' /\ StampThere'
      BY <1>1, <1>2, <3>1 DEF MailInv, OneEach, RowThere, StampThere, Recorded, At
    <3>6. Unmailed'
      BY <1>1, <1>2, <3>1, <3>2, <3>4 DEF MailInv, Unmailed, Recorded
    <3>7. MailsCounted'
      BY <1>2, <3>1, <3>2, <3>3 DEF MailInv, MailsCounted
    <3>8. MailedOnce'
      BY <1>2, <3>2, <3>3 DEF MailInv, MailedOnce
    <3> QED BY <3>5, <3>6, <3>7, <3>8 DEF MailInv
  <2>2. CASE Goes(p, "failed") /\ UNCHANGED mails
    <3>1. /\ req'[p].step = "failed" /\ req'[p].inv = x /\ Recorded(p)
          /\ UNCHANGED <<invited, emailedAt>>
      BY <1>0, <1>5, <2>2, Moves DEF Send, At, Recorded, rows, Step, x
    <3> QED BY <1>1, <1>2, <2>2, <3>1, NoMail DEF Recorded, At, x
  <2> QED BY <1>5, <2>1, <2>2 DEF Send, x
<1>6. CASE GiveBack(p)
  <2>1. /\ req'[p].step = "idle" /\ Recorded(p) /\ UNCHANGED <<invited, mails>>
        /\ \A y \in Invitation : y # x => emailedAt'[y] = emailedAt[y]
    BY <1>0, <1>6, Moves DEF GiveBack, Unclaimed, At, Recorded, x, TypeOK
  <2>2. Alive(x) => mails[x] = 0
    BY <2>1 DEF MailInv, Unmailed, x
  <2>3. \A q \in Proc : q # p /\ Recorded(q) /\ Alive(req[q].inv) =>
           req[q].inv # x /\ req[q].inv \in Invitation
    BY <1>0, <2>1, AboutAnInvitation DEF MailInv, OneEach, x, Recorded
  <2>4. OneEach' /\ Unmailed' /\ RowThere'
    BY <1>1, <1>2, <2>1 DEF MailInv, OneEach, Unmailed, RowThere, Recorded
  <2>5. StampThere'
    BY <1>1, <1>2, <2>1, <2>3 DEF MailInv, StampThere, Recorded, At
  <2>6. MailsCounted' /\ MailedOnce'
    BY <1>2, <2>1, <2>2 DEF MailInv, MailsCounted, MailedOnce
  <2> QED BY <2>4, <2>5, <2>6 DEF MailInv
<1> QED BY <1>3, <1>4, <1>5, <1>6

\* Every step preserves the invariant of the mails.
LEMMA MailInvariant == Spec => []MailInv
<1>1. Init => MailInv
  <2> SUFFICES ASSUME Init PROVE MailInv
    OBVIOUS
  <2>1. \A p \in Proc : ~Recorded(p) /\ ~At(p, "mail")
    BY DEF Init, Idle, Recorded, At
  <2>2. \A x \in Invitation : mails[x] = 0
    BY DEF Init
  <2> QED
    BY <2>1, <2>2 DEF MailInv, OneEach, Unmailed, RowThere, StampThere, MailsCounted, MailedOnce
<1>2. TypeOK /\ MailInv /\ [Next]_vars => MailInv'
  <2> SUFFICES ASSUME TypeOK, MailInv, [Next]_vars PROVE MailInv'
    OBVIOUS
  <2>0. req \in [Proc -> Request] /\ Idle.step = "idle"
    BY DEF TypeOK, Idle
  <2>1. ASSUME NEW p \in Proc, NEW x \in Invitation, BeginInvite(p, x) PROVE MailInv'
    BY <2>0, <2>1, Moves, NoMail DEF BeginInvite, rows, Recorded, At, Step
  <2>2. ASSUME NEW p \in Proc, NEW x \in Invitation, BeginMarkRead(p, x) PROVE MailInv'
    BY <2>0, <2>2, Moves, NoMail DEF BeginMarkRead, rows, Recorded, At, Step
  <2>3. ASSUME NEW p \in Proc, Record(p) \/ Claim(p) \/ Send(p) \/ GiveBack(p) PROVE MailInv'
    BY <2>3, MailSteps
  <2>4. ASSUME NEW p \in Proc, Count(p) PROVE MailInv'
    <3>1. /\ UNCHANGED <<events, accounts, invited, emailedAt, mails>>
          /\ Recorded(p) /\ (Goes(p, "counted") \/ Ends(p))
      BY <2>4 DEF Count, rows, Recorded, At
    <3> QED BY <2>0, <3>1, Moves, NoMail DEF Recorded, At, Step
  <2>5. ASSUME NEW p \in Proc, MarkRead(p) PROVE MailInv'
    BY <2>0, <2>5, Moves, NoMail DEF MarkRead, Recorded, At
  <2>6. ASSUME NEW x \in Invitation, RemoveEntry(x) PROVE MailInv'
    BY <2>6, NoMail DEF RemoveEntry, Recorded, At
  <2>7. ASSUME NEW u \in Person, RemoveAll(u) \/ MarkAllRead(u) PROVE MailInv'
    BY <2>7, NoMail DEF RemoveAll, MarkAllRead, Recorded, At
  <2>8. ASSUME NEW u \in Person, DeleteAccount(u) PROVE MailInv'
    <3>1. \A x \in Invitation : x[2] \in accounts' => x \notin {y \in Invitation : y[2] = u}
      BY <2>8 DEF DeleteAccount
    <3>2. /\ Drop({y \in Invitation : y[2] = u})
          /\ UNCHANGED <<events, mails, req>> /\ accounts' \subseteq accounts
      BY <2>8 DEF DeleteAccount
    <3> QED BY <3>1, <3>2, DropTypes, NoMail DEF Recorded, At
  <2>9. ASSUME NEW e \in Event, RemoveEvent(e) PROVE MailInv'
    <3>1. \A x \in Invitation : x[1] \in events' => x \notin {y \in Invitation : y[1] = e}
      BY <2>9 DEF RemoveEvent
    <3>2. /\ Drop({y \in Invitation : y[1] = e})
          /\ UNCHANGED <<accounts, mails, req>> /\ events' \subseteq events
      BY <2>9 DEF RemoveEvent
    <3> QED BY <3>1, <3>2, DropTypes, NoMail DEF Recorded, At
  <2>10. CASE DeleteCommunity
    <3>1. events' = {} /\ UNCHANGED <<accounts, mails, req>>
      BY <2>10 DEF DeleteCommunity
    <3> QED BY <3>1, NoMail DEF Recorded, At
  <2>11. CASE NextMonth
    BY <2>11, NoMail DEF NextMonth, rows, Recorded, At
  <2>12. CASE Crash
    <3>1. \A q \in Proc : req'[q].step = "idle"
      BY <2>0, <2>12 DEF Crash
    <3> QED BY <2>12, <3>1, NoMail DEF Crash, rows, Recorded, At
  <2>13. CASE UNCHANGED vars
    BY <2>13, NoMail DEF vars, Recorded, At
  <2> QED
    BY <2>1, <2>2, <2>3, <2>4, <2>5, <2>6, <2>7, <2>8, <2>9, <2>10, <2>11, <2>12,
       <2>13 DEF Next
<1> QED BY <1>1, <1>2, TypeCorrect, PTL DEF Spec

\* A mail that went out stays counted while its event and its reader are there.
THEOREM MailsStayCounted == Spec => []MailsCounted
<1>1. MailInv => MailsCounted
  BY DEF MailInv
<1> QED BY <1>1, MailInvariant, PTL

\* Nobody who keeps their account gets a second mail for an event.
THEOREM NobodyMailedTwice == Spec => []MailedOnce
<1>1. MailInv => MailedOnce
  BY DEF MailInv
<1> QED BY <1>1, MailInvariant, PTL

\* Where no mail is sent, given up or newly stamped, every stamp stays explained.
LEMMA StampsStayExplained ==
  ASSUME TypeOK, TypeOK', StampsAreMails, UNCHANGED <<mails, lost>>,
         \A x \in Invitation : emailedAt'[x] # 0 => emailedAt[x] # 0,
         \A q \in Proc : req[q].step \in {"mail", "failed"} => req'[q] = req[q]
  PROVE  StampsAreMails'
<1> SUFFICES ASSUME NEW x \in invited', emailedAt'[x] # 0
             PROVE  \/ mails'[x] > 0
                    \/ \E p \in Proc : req'[p].inv = x /\ req'[p].step \in {"mail", "failed"}
                    \/ x \in lost'
  BY DEF StampsAreMails
<1>1. x \in invited /\ emailedAt[x] # 0
  BY DEF TypeOK
<1> QED BY <1>1 DEF StampsAreMails

\* Stamping, sending, giving back and a stop of the server leave every stamp explained.
LEMMA StampSteps ==
  ASSUME TypeOK, TypeOK', StampsAreMails,
         (\E p \in Proc : Claim(p) \/ Send(p) \/ GiveBack(p)) \/ Crash
  PROVE  StampsAreMails'
<1> SUFFICES ASSUME NEW x \in invited', emailedAt'[x] # 0
             PROVE  \/ mails'[x] > 0
                    \/ \E p \in Proc : req'[p].inv = x /\ req'[p].step \in {"mail", "failed"}
                    \/ x \in lost'
  BY DEF StampsAreMails
<1>1. req \in [Proc -> Request] /\ x \in Invitation /\ mails \in [Invitation -> Nat]
  BY DEF TypeOK
<1>2. emailedAt[x] # 0 => \/ mails[x] > 0
                          \/ \E p \in Proc : req[p].inv = x /\ req[p].step \in {"mail", "failed"}
                          \/ x \in lost
  BY <1>1 DEF StampsAreMails, TypeOK
<1>3. ASSUME NEW p \in Proc, Claim(p) \/ Send(p) \/ GiveBack(p)
      PROVE  \A q \in Proc : q # p => req'[q] = req[q]
  BY <1>1, <1>3, Moves DEF Claim, Send, GiveBack, Step
<1>4. ASSUME NEW p \in Proc, Claim(p)
      PROVE  \/ mails'[x] > 0
             \/ \E q \in Proc : req'[q].inv = x /\ req'[q].step \in {"mail", "failed"}
             \/ x \in lost'
  <2>1. req'[p].step = "mail" /\ req'[p].inv = req[p].inv /\ req[p].step = "counted"
    BY <1>1, <1>4, Moves DEF Claim, Step, At
  <2>2. CASE x = req[p].inv
    BY <2>1, <2>2
  <2>3. CASE x # req[p].inv
    <3>1. emailedAt[x] # 0
      BY <1>1, <1>4, <2>3 DEF Claim, TypeOK
    <3> QED BY <1>2, <1>3, <1>4, <2>1, <3>1 DEF Claim
  <2> QED BY <2>2, <2>3
<1>5. ASSUME NEW p \in Proc, Send(p)
      PROVE  \/ mails'[x] > 0
             \/ \E q \in Proc : req'[q].inv = x /\ req'[q].step \in {"mail", "failed"}
             \/ x \in lost'
  <2>1. emailedAt[x] # 0 /\ lost' = lost
    BY <1>5 DEF Send, rows
  <2>2. CASE Ends(p) /\ mails' = [mails EXCEPT ![req[p].inv] = @ + 1]
    <3>1. (mails[x] > 0 \/ x = req[p].inv) => mails'[x] > 0
      BY <1>1, <2>2
    <3> QED BY <1>2, <1>3, <1>5, <2>1, <3>1
  <2>3. CASE Goes(p, "failed") /\ UNCHANGED mails
    <3>1. req'[p].step = "failed" /\ req'[p].inv = req[p].inv
      BY <1>1, <1>5, <2>3, Moves DEF Step, Send, At
    <3> QED BY <1>2, <1>3, <1>5, <2>1, <2>3, <3>1
  <2> QED BY <1>5, <2>2, <2>3 DEF Send
<1>6. ASSUME NEW p \in Proc, GiveBack(p)
      PROVE  \/ mails'[x] > 0
             \/ \E q \in Proc : req'[q].inv = x /\ req'[q].step \in {"mail", "failed"}
             \/ x \in lost'
  <2>1. x # req[p].inv /\ emailedAt[x] # 0 /\ UNCHANGED <<mails, lost>>
    BY <1>1, <1>6 DEF GiveBack, Unclaimed, TypeOK
  <2> QED BY <1>2, <1>3, <1>6, <2>1
<1>7. CASE Crash
  <2>1. emailedAt[x] # 0 /\ mails' = mails
    BY <1>7 DEF Crash, rows
  <2>2. \A q \in Proc : req[q].step \in {"mail", "failed"} => req[q].inv \in lost'
    BY <1>7 DEF Crash
  <2>3. lost \subseteq lost'
    BY <1>7 DEF Crash
  <2> QED BY <1>2, <2>1, <2>2, <2>3
<1> QED BY <1>4, <1>5, <1>6, <1>7

\* Nothing but mails, requests at it and stops of the server use up the cap.
THEOREM StampsAreForMails == Spec => []StampsAreMails
<1>1. Init => StampsAreMails
  BY DEF Init, StampsAreMails
<1>2. TypeOK /\ TypeOK' /\ StampsAreMails /\ [Next]_vars => StampsAreMails'
  <2> SUFFICES ASSUME TypeOK, TypeOK', StampsAreMails, [Next]_vars PROVE StampsAreMails'
    OBVIOUS
  <2>0. req \in [Proc -> Request] /\ Idle.step = "idle"
    BY DEF TypeOK, Idle
  <2>1. ASSUME NEW p \in Proc, NEW x \in Invitation, BeginInvite(p, x) \/ BeginMarkRead(p, x)
        PROVE  StampsAreMails'
    <3>1. /\ UNCHANGED <<emailedAt, mails, lost>>
          /\ req[p].step = "idle"
          /\ Starts(p, "checked", x) \/ Starts(p, "reading", x)
      BY <2>1 DEF BeginInvite, BeginMarkRead, rows, Starts, At
    <3> QED BY <2>0, <3>1, Moves, StampsStayExplained DEF Step
  <2>2. ASSUME NEW p \in Proc, Record(p) \/ Count(p) \/ MarkRead(p) PROVE StampsAreMails'
    <3>1. UNCHANGED <<emailedAt, mails, lost>> /\ req[p].step \in {"checked", "claim", "reading"}
      BY <2>2 DEF Record, Count, MarkRead, rows, At
    <3>2. Goes(p, "claim") \/ Goes(p, "counted") \/ Ends(p)
      BY <2>2 DEF Record, Count, MarkRead
    <3> QED BY <2>0, <3>1, <3>2, Moves, StampsStayExplained DEF Step
  <2>3. ASSUME NEW p \in Proc, Claim(p) \/ Send(p) \/ GiveBack(p) PROVE StampsAreMails'
    BY <2>3, StampSteps
  <2>4. ASSUME NEW x \in Invitation, RemoveEntry(x) PROVE StampsAreMails'
    BY <2>4, StampsStayExplained DEF RemoveEntry
  <2>5. ASSUME NEW u \in Person, RemoveAll(u) \/ MarkAllRead(u) PROVE StampsAreMails'
    BY <2>5, StampsStayExplained DEF RemoveAll, MarkAllRead
  <2>6. ASSUME NEW gone, Drop(gone), UNCHANGED <<mails, lost, req>> PROVE StampsAreMails'
    <3>1. \A x \in Invitation : emailedAt'[x] # 0 => emailedAt[x] # 0
      BY <2>6 DEF Drop
    <3> QED BY <2>6, <3>1, StampsStayExplained
  <2>7. ASSUME NEW u \in Person, DeleteAccount(u) PROVE StampsAreMails'
    BY <2>6, <2>7 DEF DeleteAccount
  <2>8. ASSUME NEW e \in Event, RemoveEvent(e) PROVE StampsAreMails'
    BY <2>6, <2>8 DEF RemoveEvent
  <2>9. CASE DeleteCommunity
    BY <2>6, <2>9 DEF DeleteCommunity
  <2>10. CASE NextMonth
    BY <2>10, StampsStayExplained DEF NextMonth, rows
  <2>11. CASE Crash
    BY <2>11, StampSteps
  <2>12. CASE UNCHANGED vars
    BY <2>12, StampsStayExplained DEF vars
  <2> QED
    BY <2>1, <2>2, <2>3, <2>4, <2>5, <2>7, <2>8, <2>9, <2>10, <2>11, <2>12 DEF Next
<1> QED BY <1>1, <1>2, TypeCorrect, PTL DEF Spec

\* What a month counts are the mails that went out, and no others (recordInvite).
THEOREM CountsAreMails == Spec => []CountsMatchMails
<1>1. MailsCounted /\ StampsAreMails => CountsMatchMails
  BY DEF CountsMatchMails
<1> QED BY <1>1, MailsStayCounted, StampsAreForMails, PTL
-----------------------------------------------------------------------------
(* The pages on which events are looked for.                                  *)
(*                                                                            *)
(* Now is the question that the filters on the page ask for its viewer.  When *)
(* no search has failed, no effect is to run and no known cause keeps an      *)
(* answer from fitting, the search or load that ends last asks that, and when *)
(* none is under way what is shown was asked so (Settled).                    *)
Viewers == {"nobody", "somebody", "resident"}
Filters == [q : F!Texts, zip : F!Zips \cup {null}, here : BOOLEAN, radius : {null, 25},
            pick : {null, "road", "profile"}, from : F!Froms, page : 1 .. 2]

QuestionOf(s, g, v) ==
    IF s = "list" THEN F!BuildParams(g, v)
    ELSE IF s = "calendar" THEN F!PeriodParams(g, v)
    ELSE IF F!GeoActive(g) THEN F!BuildParams(g, v) ELSE F!AllParams(g, v)
Now == QuestionOf(screen, f, viewer)

\* A question that differs at most in whom it is asked for.
Like(a, question) == \E who \in Viewers : a = [question EXCEPT !.viewer = who]
Fits(a) == Like(a, Now) /\ (screen # "map" /\ cause = {} => a = Now)

FinderTypes ==
    /\ screen \in {"list", "map", "calendar"} /\ f \in Filters /\ url \in Filters
    /\ viewer \in Viewers \cup {"unknown"} /\ dirty \in BOOLEAN /\ alive \in BOOLEAN
Timers ==
    /\ due \in [q : SUBSET F!Texts, zip : SUBSET {null, "typed"}]
    /\ screen # "list" => due.q = {}
    /\ screen = "calendar" => due.zip = {} /\ asking = {}
Places ==
    /\ screen = "map" => ~dirty
    /\ screen # "map" => loads = {}
Settled ==
    \/ out # null /\ loads = {} /\ Fits(out)
    \/ out = null /\ \E l : loads = {l} /\ Fits(l)
    \/ out = null /\ loads = {} /\ (shown = null \/ Fits(shown))
Settling == alive /\ ~dirty /\ cause \subseteq {"viewer came later"} => Settled

FinderInv == FinderTypes /\ Timers /\ Places /\ Settling

\* What a page asks is a question, of the filters but for its viewer.
LEMMA Questioning ==
  ASSUME NEW s, NEW g \in Filters, NEW v \in Viewers \cup {"unknown"}
  PROVE  /\ QuestionOf(s, g, v) \in Questions
         /\ \A w : QuestionOf(s, g, w) = [QuestionOf(s, g, v) EXCEPT !.viewer = F!Who(w)]
<1>1. F!Who(v) \in Viewers
  BY DEF F!Who, Viewers
<1>2. ASSUME NEW h \in Filters
      PROVE  /\ F!BuildParams(h, v) \in Questions
             /\ \A w : F!BuildParams(h, w) = [F!BuildParams(h, v) EXCEPT !.viewer = F!Who(w)]
  BY <1>1 DEF F!BuildParams, Questions, Filters, Viewers, F!Zips
<1>3. /\ [F!NoFilters EXCEPT !.from = g.from] \in Filters
      /\ [F!NoFilters EXCEPT !.from = g.from, !.pick = g.pick] \in Filters
  <2>1. g.from \in F!Froms /\ g.pick \in {null, "road", "profile"}
    BY DEF Filters
  <2>2. F!NoFilters \in Filters
    <3> PICK n \in 1 .. 2 : n = 1
      OBVIOUS
    <3>1. F!NoFilters = [q |-> null, zip |-> null, here |-> FALSE, radius |-> null, pick |-> null, from |-> "today", page |-> n]
      BY DEF F!NoFilters
    <3> QED BY <3>1 DEF Filters, F!Texts, F!Froms
  <2> QED BY <2>1, <2>2 DEF Filters
<1> QED BY <1>2, <1>3 DEF QuestionOf, F!AllParams, F!PeriodParams

\* What a page asks for is the question of its filters and its viewer.
LEMMA WantedIsNow ==
  ASSUME screen \in {"list", "map", "calendar"}
  PROVE  F!Wanted = Now
BY DEF F!Wanted, Now, QuestionOf

\* A question is like itself, and none is null.
LEMMA LikeItself ==
  ASSUME NEW a \in Questions
  PROVE  Like(a, a) /\ a # null
BY PagesAssumption DEF Like, Questions, Viewers

\* An answer like a question is like the same question of another viewer.
LEMMA LikeForAnother ==
  ASSUME NEW a, NEW s, NEW g \in Filters, NEW v \in Viewers \cup {"unknown"}, NEW w, Like(a, QuestionOf(s, g, v))
  PROVE  Like(a, QuestionOf(s, g, w))
<1>1. PICK p \in Questions : p = QuestionOf(s, g, v) /\ QuestionOf(s, g, w) = [p EXCEPT !.viewer = F!Who(w)]
  BY Questioning
<1>2. \A who : [p EXCEPT !.viewer = who] = [[p EXCEPT !.viewer = F!Who(w)] EXCEPT !.viewer = who]
  BY DEF Questions
<1> QED BY <1>1, <1>2 DEF Like

\* An answer like a question differs from it at most in the viewer.
LEMMA LikeSays ==
  ASSUME NEW question \in Questions, NEW a, Like(a, question)
  PROVE  F!SameViewer(a, question)
BY DEF Like, F!SameViewer, Questions

\* A step that leaves what is asked and what answers it.
LEMMA StillSettled ==
  ASSUME FinderInv, Now' = Now, UNCHANGED <<screen, out, loads, shown, alive>>, dirty => dirty', dirty' \in BOOLEAN, cause \subseteq cause'
  PROVE  Settling'
<1> SUFFICES ASSUME alive', ~dirty', cause' \subseteq {"viewer came later"} PROVE Settled'
  BY DEF Settling
<1>1. Settled
  BY DEF FinderInv, Settling
<1>2. \A a : Fits(a) => Fits(a)'
  BY DEF Fits
<1> QED BY <1>1, <1>2 DEF Settled

\* A step that searches for what the page now asks.
LEMMA SearchSettles ==
  ASSUME FinderTypes', UNCHANGED <<screen, loads>>, out' = IF alive' THEN Now' ELSE out,
         cause' \subseteq {"viewer came later"} => loads = {}
  PROVE  Settling'
<1> SUFFICES ASSUME alive', cause' \subseteq {"viewer came later"} PROVE Settled'
  BY DEF Settling
<1>1. Now' \in Questions
  BY Questioning DEF FinderTypes, Now
<1>2. Like(Now', Now') /\ Now' # null
  BY <1>1, LikeItself
<1>3. Fits(out)'
  BY <1>2 DEF Fits
<1> QED BY <1>2, <1>3 DEF Settled

\* A load of all events, when nothing else is under way.
LEMMA LoadSettles ==
  ASSUME FinderTypes', UNCHANGED <<screen, out, shown>>, loads' = loads \cup {Now'}, screen = "map",
         cause' \subseteq {"viewer came later"} => out = null /\ loads = {}
  PROVE  Settling'
<1> SUFFICES ASSUME cause' \subseteq {"viewer came later"} PROVE Settled'
  BY DEF Settling
<1>1. Now' \in Questions
  BY Questioning DEF FinderTypes, Now
<1>2. Like(Now', Now')
  BY <1>1, LikeItself
<1> QED BY <1>2 DEF Fits, Settled

\* What is done to filters leaves filters.
LEMMA Altered ==
  ASSUME NEW g \in Filters
  PROVE  /\ \A t \in F!Texts : [g EXCEPT !.q = t] \in Filters /\ [g EXCEPT !.q = t, !.page = 1] \in Filters
         /\ \A z \in {null, "typed"} : [g EXCEPT !.zip = z, !.here = FALSE, !.page = 1] \in Filters
         /\ \A v \in {null, "road"} : [g EXCEPT !.pick = v, !.page = 1] \in Filters
         /\ \A v \in F!Froms : [g EXCEPT !.from = v, !.page = 1] \in Filters
         /\ \A n \in 1 .. 2 : [g EXCEPT !.page = n] \in Filters
         /\ [g EXCEPT !.radius = 25] \in Filters /\ [g EXCEPT !.page = 1] \in Filters
         /\ [g EXCEPT !.pick = "profile"] \in Filters /\ [g EXCEPT !.zip = "typed"] \in Filters
         /\ [g EXCEPT !.here = TRUE, !.zip = null, !.page = 1] \in Filters
         /\ [g EXCEPT !.here = FALSE, !.zip = null, !.page = 1] \in Filters
<1> PICK one \in 1 .. 2 : one = 1
  OBVIOUS
<1> PICK r \in {null, 25} : r = 25
  OBVIOUS
<1>1. /\ \A t \in F!Texts : [g EXCEPT !.q = t] \in Filters /\ [g EXCEPT !.q = t, !.page = one] \in Filters
      /\ \A v \in F!Froms : [g EXCEPT !.from = v, !.page = one] \in Filters
      /\ \A n \in 1 .. 2 : [g EXCEPT !.page = n] \in Filters
  BY DEF Filters
<1>2. /\ \A z \in {null, "typed"} : [g EXCEPT !.zip = z, !.here = FALSE, !.page = one] \in Filters
      /\ [g EXCEPT !.zip = "typed"] \in Filters
      /\ [g EXCEPT !.here = TRUE, !.zip = null, !.page = one] \in Filters
      /\ [g EXCEPT !.here = FALSE, !.zip = null, !.page = one] \in Filters
  BY DEF Filters, F!Zips
<1>3. /\ \A v \in {null, "road"} : [g EXCEPT !.pick = v, !.page = one] \in Filters
      /\ [g EXCEPT !.pick = "profile"] \in Filters /\ [g EXCEPT !.radius = r] \in Filters
  BY DEF Filters
<1> QED BY <1>1, <1>2, <1>3

\* What the address keeps, and the postcode of the profile.
LEMMA ReadFilters ==
  ASSUME NEW g \in Filters, NEW v
  PROVE  F!ReadUrl(g) \in Filters /\ F!PrefillFromUser(g, v) \in Filters
<1>1. [g EXCEPT !.zip = "home"] \in Filters
  BY DEF Filters, F!Zips
<1>2. \A x \in F!Froms, r \in {null, 25} : [g EXCEPT !.from = x, !.radius = r] \in Filters
  BY DEF Filters
<1>3. /\ (IF g.from = "any" THEN "today" ELSE g.from) \in F!Froms
      /\ (IF F!GeoActive(g) THEN g.radius ELSE null) \in {null, 25}
  BY DEF Filters, F!Froms
<1> QED BY <1>1, <1>2, <1>3 DEF F!ReadUrl, F!PrefillFromUser

\* A step that leaves the filters and the answers.
LEMMA QuietSteps ==
  ASSUME FinderInv, Timers', UNCHANGED <<screen, f, url, viewer, dirty, F!answers, cause>>
  PROVE  FinderInv'
<1>1. Now' = Now
  BY DEF Now
<1> QED BY <1>1, StillSettled DEF FinderInv, FinderTypes, Places, F!answers

\* The steps that searching consists of (syncUrlAndFetch, triggerGeoSearch, loadData and
\* the filters an effect tracks).
LEMMA SyncSteps ==
  ASSUME FinderInv, Timers', NEW g \in Filters, screen = "list", F!SyncUrlAndFetch(g), UNCHANGED <<screen, viewer>>
  PROVE  FinderInv'
<1>1. /\ f' = g /\ url' = g /\ dirty' \in BOOLEAN /\ cause' = {} /\ UNCHANGED <<loads, shown, alive>>
      /\ out' = IF alive THEN F!BuildParams(g, viewer) ELSE out
  BY DEF F!SyncUrlAndFetch, F!Search, F!Causes, FinderInv, FinderTypes
<1>2. FinderTypes' /\ Places'
  BY <1>1 DEF FinderInv, FinderTypes, Places
<1>3. Now' = F!BuildParams(g, viewer) /\ loads = {}
  BY <1>1 DEF Now, QuestionOf, FinderInv, Places
<1> QED BY <1>1, <1>2, <1>3, SearchSettles DEF FinderInv

\* On the map triggerGeoSearch asks for what its filters want, or the page has a reason not to.
LEMMA GeoSteps ==
  ASSUME FinderInv, Timers', NEW g \in Filters, screen = "map", F!GeoActive(g), F!TriggerGeoSearch(g), UNCHANGED <<screen, viewer>>
  PROVE  FinderInv'
<1>1. /\ f' = g /\ UNCHANGED <<url, dirty, loads, shown, alive>>
      /\ cause' \subseteq {"viewer came later"} => loads = {}
      /\ out' = IF alive THEN F!BuildParams(g, viewer) ELSE out
  BY DEF F!TriggerGeoSearch, F!Search, F!Causes
<1>2. FinderTypes' /\ Places'
  BY <1>1 DEF FinderInv, FinderTypes, Places
<1>3. Now' = F!BuildParams(g, viewer)
  BY <1>1 DEF Now, QuestionOf
<1> QED BY <1>1, <1>2, <1>3, SearchSettles DEF FinderInv

\* On the map loadData asks for everything that its filters want, or has such a reason.
LEMMA LoadSteps ==
  ASSUME FinderInv, Timers', NEW g \in Filters, screen = "map", ~F!GeoActive(g), F!LoadData(g), UNCHANGED <<screen, viewer>>
  PROVE  FinderInv'
<1>1. /\ f' = g /\ UNCHANGED <<url, dirty, out, shown, alive>> /\ loads' = loads \cup {F!AllParams(g, viewer)}
      /\ cause' \subseteq {"viewer came later"} => out = null /\ loads = {}
  BY DEF F!LoadData, F!Causes
<1>2. FinderTypes' /\ Places'
  BY <1>1 DEF FinderInv, FinderTypes, Places
<1>3. Now' = F!AllParams(g, viewer)
  BY <1>1 DEF Now, QuestionOf
<1> QED BY <1>1, <1>2, <1>3, LoadSettles DEF FinderInv

\* On the map a filter that leaves the place alone asks around it, or for everything.
LEMMA RefilterSteps ==
  ASSUME FinderInv, Timers', NEW g \in Filters, screen = "map", F!GeoActive(g) <=> F!GeoActive(f), F!Refilter(g),
         UNCHANGED <<screen, viewer>>
  PROVE  FinderInv'
<1>1. CASE F!GeoActive(g)
  BY <1>1, GeoSteps DEF F!Refilter
<1>2. CASE ~F!GeoActive(g)
  <2>1. /\ f' = g /\ UNCHANGED <<url, dirty, out, loads, shown, alive>> /\ cause \subseteq cause'
        /\ g.from # f.from => "not loaded" \in cause'
    BY <1>2 DEF F!Refilter, F!answers
  <2>2. FinderTypes' /\ Places'
    BY <2>1 DEF FinderInv, FinderTypes, Places
  <2>3. CASE g.from = f.from
    <3>1. Now' = Now
      BY <1>2, <2>1, <2>3 DEF Now, QuestionOf, F!AllParams
    <3> QED BY <2>1, <2>2, <3>1, StillSettled DEF FinderInv, FinderTypes
  <2>4. CASE g.from # f.from
    BY <2>1, <2>2, <2>4 DEF FinderInv, Settling
  <2> QED BY <2>3, <2>4
<1> QED BY <1>1, <1>2

\* On the list and in the calendar a changed filter leaves the effect to run.
LEMMA TrackSteps ==
  ASSUME FinderInv, Timers', NEW g \in Filters, screen # "map", F!Tracked(g), UNCHANGED <<screen, viewer>>
  PROVE  FinderInv'
<1>1. f' = g /\ dirty' = (dirty \/ g # f) /\ UNCHANGED <<out, loads, shown, alive, url, cause>>
  BY DEF F!Tracked, F!answers
<1>2. FinderTypes' /\ Places'
  BY <1>1 DEF FinderInv, FinderTypes, Places
<1>3. CASE g = f
  <2>1. Now' = Now /\ dirty' = dirty
    BY <1>1, <1>3 DEF Now, FinderInv, FinderTypes
  <2> QED BY <1>1, <1>2, <2>1, StillSettled DEF FinderInv, FinderTypes
<1>4. CASE g # f
  BY <1>1, <1>2, <1>4 DEF FinderInv, Settling
<1> QED BY <1>3, <1>4

\* What somebody does at the filters of a page.
LEMMA ChangeSteps ==
  ASSUME FinderInv, NEW g \in Filters, NEW picked, F!GeoActive(g) <=> F!GeoActive(f), F!Change(g, picked)
  PROVE  FinderInv'
<1>1. UNCHANGED <<screen, due, asking, viewer>> /\ Timers'
  BY DEF F!Change, F!Act, F!asks, FinderInv, Timers
<1>2. CASE screen = "map"
  BY <1>1, <1>2, RefilterSteps DEF F!Change
<1>3. CASE screen = "list"
  BY <1>1, <1>3, TrackSteps DEF F!Change
<1>4. CASE screen = "calendar"
  <2>1. [g EXCEPT !.page = 1] \in Filters
    BY Altered
  <2> QED BY <1>1, <1>4, <2>1, TrackSteps, SMTT(30) DEF F!Change
<1> QED BY <1>2, <1>3, <1>4 DEF FinderInv, FinderTypes

\* A radius chosen (setRadius).
LEMMA RadiusSteps ==
  ASSUME FinderInv, F!SetRadius(25)
  PROVE  FinderInv'
<1> DEFINE g == [f EXCEPT !.radius = 25]
<1>1. UNCHANGED <<screen, due, asking, viewer>> /\ Timers' /\ screen \in {"list", "map"} /\ f \in Filters
  BY SMTT(30) DEF F!SetRadius, F!Act, F!asks, F!session, FinderInv, FinderTypes, Timers
<1>2. g \in Filters /\ [g EXCEPT !.page = 1] \in Filters
  BY <1>1, Altered
<1>3. /\ g.q = f.q /\ g.zip = f.zip /\ g.here = f.here /\ g.pick = f.pick /\ g.from = f.from /\ g.page = f.page
      /\ F!GeoActive(g) <=> F!GeoActive(f)
  BY <1>1 DEF Filters, F!GeoActive
<1>4. CASE ~F!GeoActive(f)
  <2>1. f' = g /\ UNCHANGED <<F!answers, url, dirty, cause>>
    BY <1>4 DEF F!SetRadius
  <2> HIDE DEF g
  <2>2. F!BuildParams(g, viewer) = F!BuildParams(f, viewer) /\ F!AllParams(g, viewer) = F!AllParams(f, viewer)
    BY <1>3, <1>4 DEF F!BuildParams, F!AllParams
  <2>3. Now' = Now
    BY <1>1, <1>3, <2>1, <2>2 DEF Now, QuestionOf
  <2>4. FinderTypes' /\ Places'
    BY <1>1, <1>2, <2>1 DEF FinderInv, FinderTypes, Places, F!answers
  <2> QED BY <1>1, <2>1, <2>3, <2>4, StillSettled DEF FinderInv, FinderTypes, F!answers
<1>5. CASE F!GeoActive(f) /\ screen = "list"
  BY <1>1, <1>2, <1>5, SyncSteps DEF F!SetRadius
<1>6. CASE F!GeoActive(f) /\ screen = "map"
  BY <1>1, <1>2, <1>3, <1>6, GeoSteps DEF F!SetRadius
<1> QED BY <1>1, <1>4, <1>5, <1>6

\* The place one is at, or none.
LEMMA PlaceFilters ==
  ASSUME FinderInv
  PROVE  /\ F!AtPlace \in Filters /\ F!GeoActive(F!AtPlace)
         /\ F!Nowhere \in Filters /\ ~F!GeoActive(F!Nowhere)
<1>1. f \in Filters
  BY SMTT(30) DEF FinderInv, FinderTypes
<1>2. F!AtPlace \in Filters /\ F!Nowhere \in Filters
  BY <1>1, Altered DEF F!AtPlace, F!Nowhere
<1> QED BY <1>1, <1>2 DEF F!AtPlace, F!Nowhere, F!GeoActive, Filters

\* The list opened again at its address.
LEMMA ReloadSteps ==
  ASSUME FinderInv, F!Reload
  PROVE  FinderInv'
<1> DEFINE g == F!PrefillFromUser(F!ReadUrl(url), viewer)
<1>1. /\ screen = "list" /\ f' = g /\ url' = g /\ out' = F!BuildParams(g, viewer) /\ dirty' = FALSE /\ alive' = TRUE
      /\ due' = F!Idle /\ asking' = {} /\ UNCHANGED <<screen, loads, shown, viewer>>
  BY DEF F!Reload, F!Act
<1>2. g \in Filters
  BY ReadFilters DEF FinderInv, FinderTypes
<1> HIDE DEF g
<1>3. FinderTypes' /\ Places' /\ Timers'
  BY <1>1, <1>2 DEF FinderInv, FinderTypes, Places, Timers, F!Idle
<1>4. Now' = F!BuildParams(g, viewer) /\ loads = {}
  BY <1>1 DEF Now, QuestionOf, FinderInv, Places
<1> QED BY <1>1, <1>3, <1>4, SearchSettles DEF FinderInv

\* Whatever the visitor does keeps the invariant.
LEMMA ActSteps ==
  ASSUME FinderInv, F!Acts
  PROVE  FinderInv'
<1> USE DEF F!Act
<1>1. f \in Filters /\ FinderTypes /\ Timers
  BY DEF FinderInv, FinderTypes
<1>2. ASSUME NEW t \in F!Texts, F!TypeText(t) PROVE FinderInv'
  <2>1. Timers'
    BY <1>1, <1>2 DEF F!TypeText, Timers
  <2> QED BY <1>2, <2>1, QuietSteps DEF F!TypeText, F!session
<1>3. ASSUME NEW t \in F!Texts, F!MapText(t) PROVE FinderInv'
  <2> DEFINE g == [f EXCEPT !.q = t]
  <2>1. g \in Filters
    BY <1>1, Altered
  <2>2. F!GeoActive(g) <=> F!GeoActive(f)
    BY <1>1 DEF F!GeoActive, Filters
  <2>3. Timers' /\ UNCHANGED <<screen, viewer>> /\ screen = "map"
    BY <1>1, <1>3 DEF F!MapText, F!asks, F!session, Timers
  <2> QED BY <1>3, <2>1, <2>2, <2>3, RefilterSteps, SMTT(30) DEF F!MapText
<1>4. ASSUME NEW z \in {null, "typed"}, F!TypeZip(z) PROVE FinderInv'
  <2>1. Timers'
    BY <1>1, <1>4 DEF F!TypeZip, Timers
  <2> QED BY <1>4, <2>1, QuietSteps DEF F!TypeZip, F!session
<1>5. ASSUME NEW v \in {null, "road"}, F!Pick(v) PROVE FinderInv'
  <2> DEFINE g == [f EXCEPT !.pick = v, !.page = 1]
  <2>1. g \in Filters
    BY <1>1, Altered
  <2>2. F!GeoActive(g) <=> F!GeoActive(f)
    BY <1>1 DEF F!GeoActive, Filters
  <2> QED BY <1>5, <2>1, <2>2, ChangeSteps DEF F!Pick
<1>6. ASSUME NEW v \in F!Froms, F!SetFrom(v) PROVE FinderInv'
  <2> DEFINE g == [f EXCEPT !.from = v, !.page = 1]
  <2>1. g \in Filters
    BY <1>1, Altered
  <2>2. F!GeoActive(g) <=> F!GeoActive(f)
    BY <1>1 DEF F!GeoActive, Filters
  <2> QED BY <1>6, <2>1, <2>2, ChangeSteps DEF F!SetFrom
<1>7. ASSUME NEW n \in 1 .. 2, F!SetPage(n) PROVE FinderInv'
  <2>1. [f EXCEPT !.page = n] \in Filters
    BY <1>1, Altered
  <2>2. Timers' /\ UNCHANGED <<screen, viewer>> /\ screen = "list"
    BY <1>1, <1>7 DEF F!SetPage, F!asks, F!session, Timers
  <2> QED BY <1>7, <2>1, <2>2, TrackSteps, SMTT(30) DEF F!SetPage
<1>8. CASE F!UseMyLocation
  <2>1. Timers'
    BY <1>1, <1>8 DEF F!UseMyLocation, F!asks, Timers
  <2> QED BY <1>8, <2>1, QuietSteps DEF F!UseMyLocation, F!session
<1>9. CASE F!OnMapClick
  <2>1. Timers' /\ UNCHANGED <<screen, viewer>> /\ screen = "map"
    BY <1>1, <1>9 DEF F!OnMapClick, F!asks, F!session, Timers
  <2> QED BY <1>9, <2>1, PlaceFilters, GeoSteps DEF F!OnMapClick
<1>10. CASE F!ClearGeoSearch
  <2>1. Timers' /\ UNCHANGED <<screen, viewer>> /\ screen \in {"list", "map"}
    BY <1>1, <1>10 DEF F!ClearGeoSearch, F!asks, F!session, Timers
  <2>2. CASE screen = "list"
    BY <1>10, <2>1, <2>2, PlaceFilters, SyncSteps DEF F!ClearGeoSearch
  <2>3. CASE screen = "map"
    BY <1>10, <2>1, <2>3, PlaceFilters, LoadSteps DEF F!ClearGeoSearch
  <2> QED BY <2>1, <2>2, <2>3
<1>11. CASE F!SignOut
  <2>1. /\ screen = "list" /\ viewer' = "nobody" /\ url' = F!NoFilters /\ dirty' = TRUE
        /\ UNCHANGED <<screen, f, due, asking, out, loads, shown, alive, cause>>
    BY <1>11 DEF F!SignOut, F!asks, F!answers
  <2>2. F!NoFilters \in Filters
    <3> PICK n \in 1 .. 2 : n = 1
      OBVIOUS
    <3>1. F!NoFilters = [q |-> null, zip |-> null, here |-> FALSE, radius |-> null, pick |-> null, from |-> "today", page |-> n]
      BY DEF F!NoFilters
    <3> QED BY <3>1 DEF Filters, F!Texts, F!Froms
  <2> QED BY <1>1, <2>1, <2>2 DEF FinderInv, FinderTypes, Timers, Places, Settling, Viewers
<1> QED BY <1>2, <1>3, <1>4, <1>5, <1>6, <1>7, <1>8, <1>9, <1>10, <1>11, RadiusSteps, ReloadSteps DEF F!Acts

\* What happens by itself: timers, effects, the session and answers.
LEMMA TimerSteps ==
  ASSUME FinderInv, F!SearchInputDue \/ F!ZipInputDue
  PROVE  FinderInv'
<1>1. f \in Filters /\ Timers /\ screen \in {"list", "map", "calendar"}
  BY DEF FinderInv, FinderTypes
<1>2. PICK k \in {"q", "zip"} : F!Due(k) /\ ((k = "q" /\ F!SearchInputDue) \/ (k = "zip" /\ F!ZipInputDue))
  BY DEF F!SearchInputDue, F!ZipInputDue
<1>3. /\ due[k] # {} /\ due' = [due EXCEPT ![k] = {}] /\ UNCHANGED <<screen, asking, viewer>>
  BY <1>2 DEF F!Due, F!session
<1>4. Timers'
  BY <1>1, <1>3 DEF Timers
<1>5. CASE UNCHANGED <<f, url, dirty, F!answers, cause>>
  BY <1>3, <1>4, <1>5, QuietSteps
<1>6. CASE k = "q" /\ \A t \in due.q : F!SyncUrlAndFetch([f EXCEPT !.q = t, !.page = 1])
  <2>1. PICK t \in due.q : TRUE
    BY <1>3, <1>6
  <2>2. [f EXCEPT !.q = t, !.page = 1] \in Filters /\ screen = "list"
    BY <1>1, <1>3, <1>6, Altered DEF Timers
  <2> QED BY <1>3, <1>4, <1>6, <2>2, SyncSteps
<1>7. CASE k = "zip" /\ \A z \in due.zip :
             LET g == [f EXCEPT !.zip = z, !.here = FALSE, !.page = 1]
             IN  IF screen = "list" THEN F!SyncUrlAndFetch(g)
                 ELSE IF z # null THEN F!TriggerGeoSearch(g) ELSE F!LoadData(g)
  <2>1. PICK z \in due.zip : TRUE
    BY <1>3, <1>7
  <2> DEFINE g == [f EXCEPT !.zip = z, !.here = FALSE, !.page = 1]
  <2>2. z \in {null, "typed"} /\ screen # "calendar"
    BY <1>1, <1>3, <1>7 DEF Timers
  <2>3. g \in Filters
    BY <1>1, <2>2, Altered
  <2>4. g.zip = z /\ ~g.here
    BY <1>1 DEF Filters
  <2>5. IF screen = "list" THEN F!SyncUrlAndFetch(g)
        ELSE IF z # null THEN F!TriggerGeoSearch(g) ELSE F!LoadData(g)
    BY <1>7
  <2> HIDE DEF g
  <2>6. CASE screen = "list"
    <3>1. F!SyncUrlAndFetch(g)
      BY <2>5, <2>6
    <3> QED BY <1>3, <1>4, <2>3, <2>6, <3>1, SyncSteps
  <2>7. CASE screen = "map" /\ z # null
    <3>1. F!TriggerGeoSearch(g) /\ F!GeoActive(g)
      BY <2>4, <2>5, <2>7 DEF F!GeoActive
    <3> QED BY <1>3, <1>4, <2>3, <2>7, <3>1, GeoSteps
  <2>8. CASE screen = "map" /\ z = null
    <3>1. F!LoadData(g) /\ ~F!GeoActive(g)
      BY <2>4, <2>5, <2>8 DEF F!GeoActive
    <3> QED BY <1>3, <1>4, <2>3, <2>8, <3>1, LoadSteps
  <2> QED BY <1>1, <2>2, <2>6, <2>7, <2>8
<1> QED BY <1>2, <1>5, <1>6, <1>7 DEF F!SearchInputDue, F!ZipInputDue

\* The effect of changed filters asks for what they want.
LEMMA EffectSteps ==
  ASSUME FinderInv, F!Effect
  PROVE  FinderInv'
<1>1. /\ dirty /\ ~dirty' /\ dirty' \in BOOLEAN /\ url' \in {url, f} /\ out' = (IF alive THEN F!Wanted ELSE out)
      /\ UNCHANGED <<screen, f, due, asking, viewer, loads, shown, alive>>
  BY DEF F!Effect, F!Search, F!asks, F!session
<1>2. FinderTypes' /\ Timers' /\ Places' /\ loads = {}
  BY <1>1 DEF FinderInv, FinderTypes, Timers, Places
<1>3. F!Wanted = Now /\ Now' = Now
  BY <1>1, WantedIsNow DEF Now, FinderInv, FinderTypes
<1> QED BY <1>1, <1>2, <1>3, SearchSettles DEF FinderInv

\* The session is restored: on the list its events are asked for anew, elsewhere and when
\* nobody is signed in nothing is.
LEMMA SessionSteps ==
  ASSUME FinderInv, NEW v \in Viewers, F!SessionRestored(v)
  PROVE  FinderInv'
<1> DEFINE home == F!PrefillFromUser(f, v)
           g == IF url.zip # null THEN f ELSE home
<1>1. /\ viewer = "unknown" /\ viewer' = v /\ UNCHANGED <<screen, due, asking, dirty>> /\ f \in Filters /\ url \in Filters
  BY DEF F!SessionRestored, F!asks, FinderInv, FinderTypes
<1>2. Timers'
  BY <1>1 DEF FinderInv, Timers
<1>3. CASE v = "nobody" \/ screen # "list" \/ fetched
  <2>1. /\ cause' = (IF v # "nobody" THEN cause \cup {"viewer came later"} ELSE cause)
        /\ UNCHANGED <<f, url, out, loads, shown, alive>>
    BY <1>3 DEF F!SessionRestored, F!answers
  <2>2. FinderTypes' /\ Places'
    BY <1>1, <2>1 DEF FinderInv, FinderTypes, Places
  <2>3. ASSUME v = "nobody" PROVE FinderInv'
    <3>1. Now' = Now
      <4>1. F!Who(viewer) = F!Who(v)
        BY <1>1, <2>3 DEF F!Who
      <4>2. \A h \in Filters : F!BuildParams(h, v) = F!BuildParams(h, viewer)
        BY <4>1 DEF F!BuildParams
      <4>3. F!AllParams(f, v) = F!AllParams(f, viewer) /\ F!PeriodParams(f, v) = F!PeriodParams(f, viewer)
        BY <4>1 DEF F!AllParams, F!PeriodParams, F!BuildParams
      <4> QED BY <1>1, <2>1, <4>2, <4>3 DEF Now, QuestionOf
    <3> QED BY <1>1, <1>2, <2>1, <2>2, <2>3, <3>1, StillSettled DEF FinderInv, FinderTypes
  <2>4. ASSUME v # "nobody" PROVE FinderInv'
    <3>1. \A a : Fits(a) => Fits(a)'
      <4> SUFFICES ASSUME NEW a, Fits(a) PROVE Fits(a)'
        OBVIOUS
      <4>1. Like(a, QuestionOf(screen, f, viewer))
        BY DEF Fits, Now
      <4>2. Like(a, QuestionOf(screen, f, v))
        BY <1>1, <4>1, LikeForAnother
      <4>3. Now' = QuestionOf(screen, f, v) /\ cause' # {}
        BY <1>1, <2>1, <2>4 DEF Now
      <4> QED BY <4>2, <4>3 DEF Fits
    <3>2. Settling'
      <4> SUFFICES ASSUME alive', ~dirty', cause' \subseteq {"viewer came later"} PROVE Settled'
        BY DEF Settling
      <4>1. Settled
        BY <1>1, <2>1, <2>4 DEF FinderInv, Settling
      <4> QED BY <2>1, <3>1, <4>1 DEF Settled
    <3> QED BY <1>2, <2>2, <3>2 DEF FinderInv
  <2> QED BY <2>3, <2>4
<1>4. CASE ~(v = "nobody" \/ screen # "list" \/ fetched)
  <2>1. /\ f' = g /\ url' \in {g, url} /\ out' = (IF alive THEN F!BuildParams(g, v) ELSE out)
        /\ UNCHANGED <<loads, shown, alive>>
    BY <1>4 DEF F!SessionRestored, F!Search
  <2>2. g \in Filters
    BY <1>1, ReadFilters
  <2> HIDE DEF g
  <2>3. FinderTypes' /\ Places' /\ loads = {}
    BY <1>1, <1>4, <2>1, <2>2 DEF FinderInv, FinderTypes, Places
  <2>4. Now' = F!BuildParams(g, v)
    BY <1>1, <1>4, <2>1 DEF Now, QuestionOf
  <2> QED BY <1>1, <1>2, <2>1, <2>3, <2>4, SearchSettles DEF FinderInv
<1> QED BY <1>3, <1>4

\* Answers and failures, and what arrives late.
LEMMA AnswerSteps ==
  ASSUME FinderInv, F!SearchAnswered \/ F!SearchFails \/ F!LoadAnswered \/ F!LoadFails
  PROVE  FinderInv'
<1>1. UNCHANGED <<screen, f, url, due, asking, viewer, dirty>> /\ cause \subseteq cause' /\ Now' = Now
  BY DEF F!SearchAnswered, F!SearchFails, F!LoadAnswered, F!LoadFails, F!asks, F!session, Now
<1>2. loads' \subseteq loads /\ alive' \in BOOLEAN
  BY DEF F!SearchAnswered, F!SearchFails, F!LoadAnswered, F!LoadFails, FinderInv, FinderTypes
<1>3. FinderTypes' /\ Timers' /\ Places'
  BY <1>1, <1>2 DEF FinderInv, FinderTypes, Timers, Places
<1>4. ASSUME alive, alive', ~dirty, cause' \subseteq {"viewer came later"} PROVE Settled'
  <2>1. Settled /\ \A a : Fits(a) => Fits(a)'
    BY <1>1, <1>4 DEF FinderInv, Settling, Fits
  <2>2. CASE F!SearchAnswered
    BY <2>1, <2>2 DEF F!SearchAnswered, Settled
  <2>3. CASE F!SearchFails
    BY <1>4, <2>3 DEF F!SearchFails
  <2>4. CASE F!LoadAnswered
    BY <2>1, <2>4 DEF F!LoadAnswered, Settled
  <2>5. CASE F!LoadFails
    <3>1. PICK l \in loads : cause' = cause \cup {"failed"}
      BY <2>5, Zenon DEF F!LoadFails
    <3> QED BY ONLY <3>1, <1>4
  <2> QED BY <2>2, <2>3, <2>4, <2>5
<1>5. alive' => alive
  BY DEF F!SearchAnswered, F!SearchFails, F!LoadAnswered, F!LoadFails
<1> QED BY <1>1, <1>3, <1>4, <1>5 DEF FinderInv, Settling

\* Preferences, a position and the place of a postcode, when they come late.
LEMMA LateSteps ==
  ASSUME FinderInv, F!PrefsCome \/ F!PositionFound \/ F!PostcodeFound
  PROVE  FinderInv'
<1>1. f \in Filters /\ screen \in {"list", "map", "calendar"} /\ UNCHANGED <<screen, due, viewer>>
  BY DEF FinderInv, FinderTypes, F!PrefsCome, F!PositionFound, F!PostcodeFound, F!asks, F!session
<1>2. Timers'
  BY <1>1 DEF FinderInv, Timers, F!PrefsCome, F!PositionFound, F!PostcodeFound
<1>3. CASE F!PrefsCome
  <2>1. /\ f' = [f EXCEPT !.pick = "profile"] /\ dirty' = (dirty \/ screen # "map")
        /\ screen = "map" => "not loaded" \in cause'
        /\ UNCHANGED <<url, out, loads, shown, alive>>
    BY <1>3 DEF F!PrefsCome, F!answers
  <2>2. f' \in Filters
    BY <1>1, <2>1, Altered
  <2> QED BY <1>1, <1>2, <2>1, <2>2 DEF FinderInv, FinderTypes, Places, Settling
<1>4. CASE F!PositionFound
  <2>1. screen # "calendar"
    BY <1>4 DEF F!PositionFound, FinderInv, Timers
  <2>2. CASE screen = "list"
    BY <1>1, <1>2, <1>4, <2>2, PlaceFilters, SyncSteps DEF F!PositionFound
  <2>3. CASE screen = "map"
    BY <1>1, <1>2, <1>4, <2>3, PlaceFilters, GeoSteps DEF F!PositionFound
  <2> QED BY <1>1, <2>1, <2>2, <2>3
<1>5. CASE F!PostcodeFound
  <2> DEFINE g == [f EXCEPT !.zip = "typed"]
  <2>1. /\ f' = g /\ cause' = (IF f.here THEN cause ELSE cause \cup {"late postcode"})
        /\ UNCHANGED <<dirty, url, out, loads, shown, alive>>
    BY <1>5 DEF F!PostcodeFound, F!answers
  <2>2. g \in Filters
    BY <1>1, Altered
  <2>3. /\ g.q = f.q /\ g.here = f.here /\ g.radius = f.radius /\ g.pick = f.pick /\ g.from = f.from /\ g.page = f.page
    BY <1>1 DEF Filters
  <2> HIDE DEF g
  <2>4. FinderTypes' /\ Places'
    BY <1>1, <2>1, <2>2 DEF FinderInv, FinderTypes, Places
  <2>5. CASE f.here
    <3>1. F!GeoActive(g) /\ F!GeoActive(f)
      BY <2>3, <2>5 DEF F!GeoActive
    <3>2. F!BuildParams(g, viewer) = F!BuildParams(f, viewer)
      BY <2>3, <2>5, <3>1 DEF F!BuildParams
    <3>3. F!PeriodParams(g, viewer) = F!PeriodParams(f, viewer)
      BY <2>3 DEF F!PeriodParams
    <3>4. Now' = Now
      BY <1>1, <2>1, <3>1, <3>2, <3>3 DEF Now, QuestionOf
    <3> QED BY <1>1, <1>2, <2>1, <2>4, <2>5, <3>4, StillSettled DEF FinderInv, FinderTypes
  <2>6. CASE ~f.here
    BY <1>2, <2>1, <2>4, <2>6 DEF FinderInv, Settling
  <2> QED BY <2>5, <2>6
<1> QED BY <1>3, <1>4, <1>5

\* Every step of a page keeps the invariant.
LEMMA FinderKept ==
  ASSUME FinderInv, F!Next
  PROVE  FinderInv'
<1>1. CASE F!Acts
  BY <1>1, ActSteps
<1>2. CASE F!Happens
  <2>1. ASSUME NEW v \in Viewers, F!SessionRestored(v) PROVE FinderInv'
    BY <2>1, SessionSteps
  <2> QED BY <1>2, <2>1, TimerSteps, EffectSteps, LateSteps, AnswerSteps DEF F!Happens, Viewers
<1> QED BY <1>1, <1>2 DEF F!Next

\* A page starts with the invariant.
LEMMA FinderStart ==
  ASSUME F!Init
  PROVE  FinderInv
<1>1. F!NoFilters \in Filters
  <2> PICK n \in 1 .. 2 : n = 1
    OBVIOUS
  <2>1. F!NoFilters = [q |-> null, zip |-> null, here |-> FALSE, radius |-> null, pick |-> null, from |-> "today", page |-> n]
    BY DEF F!NoFilters
  <2> QED BY <2>1 DEF Filters, F!Texts, F!Froms
<1>2. F!PrefillFromUser(F!NoFilters, viewer) \in Filters
  BY <1>1, ReadFilters
<1>3. FinderTypes /\ Timers /\ Places
  BY <1>1, <1>2, PagesAssumption DEF F!Init, F!Idle, FinderTypes, Timers, Places, Viewers
<1>4. Now \in Questions
  BY <1>3, Questioning DEF FinderTypes, Now
<1>5. Like(Now, Now) /\ Now # null
  BY <1>4, LikeItself
<1>6. Fits(Now)
  BY <1>5 DEF Fits
<1>7. CASE screen = "list"
  <2>1. out = Now /\ loads = {}
    BY <1>7 DEF F!Init, Now, QuestionOf
  <2> QED BY <1>3, <1>5, <1>6, <2>1 DEF FinderInv, Settling, Settled
<1>8. CASE screen = "map" /\ F!GeoActive(f)
  <2>1. "crossed" \in cause
    BY <1>8 DEF F!Init
  <2> QED BY <1>3, <2>1 DEF FinderInv, Settling
<1>9. CASE screen = "map" /\ ~F!GeoActive(f)
  <2>1. out = null /\ loads = {Now}
    BY <1>9 DEF F!Init, Now, QuestionOf
  <2> QED BY <1>3, <1>6, <2>1 DEF FinderInv, Settling, Settled
<1>10. CASE screen = "calendar"
  BY <1>3, <1>10 DEF F!Init, FinderInv, Settling
<1> QED BY <1>3, <1>7, <1>8, <1>9, <1>10 DEF FinderTypes

\* A page at rest shows the answer to its filters, on the list and in the calendar for its
\* viewer, unless a search failed, or on the map for a known reason (switchMap, the timers
\* of the inputs, syncUrlAndFetch, loadData and the effects of event-list, event-map and
\* event-calendar).
THEOREM PagesShowWhatIsAsked == HostSpec => []ShowsWhatIsAsked
<1> DEFINE Inv == part = "finder" => FinderInv
<1>1. HostInit => Inv
  BY FinderStart DEF HostInit, InboxInit, FinderInit
<1>2. Inv /\ [InboxStep \/ FinderStep]_<<part, vars, finder>> => Inv'
  <2> SUFFICES ASSUME Inv, [InboxStep \/ FinderStep]_<<part, vars, finder>>, part' = "finder" PROVE FinderInv'
    OBVIOUS
  <2>1. CASE InboxStep
    BY <2>1 DEF InboxStep
  <2>2. CASE FinderStep
    BY <2>2, FinderKept DEF FinderStep
  <2>3. CASE UNCHANGED <<part, vars, finder>>
    BY <2>3 DEF finder, FinderInv, FinderTypes, Timers, Places, Settling, Settled, Fits, Now
  <2> QED BY <2>1, <2>2, <2>3
<1>3. Inv => ShowsWhatIsAsked
  <2> SUFFICES ASSUME FinderInv, F!Quiet, alive, shown # null, cause \subseteq {"viewer came later"}
               PROVE  F!SameViewer(shown, F!Wanted) /\ ((screen # "map" /\ cause = {}) => shown = F!Wanted)
    BY DEF ShowsWhatIsAsked, F!ShowsWhatIsAsked
  <2>1. Fits(shown)
    BY DEF FinderInv, Settling, Settled, F!Quiet
  <2>2. F!Wanted = Now /\ Now \in Questions
    BY WantedIsNow, Questioning DEF FinderInv, FinderTypes, Now
  <2> QED BY <2>1, <2>2, LikeSays DEF Fits
<1> QED BY <1>1, <1>2, <1>3, PTL DEF HostSpec

-----------------------------------------------------------------------------
(* The feeds of communities (MCPages).                                     *)

\* Rows are numbered in order of creation.
Numbered(rows_) == /\ Cardinality(DOMAIN rows_) \in Nat
                   /\ DOMAIN rows_ = 1 .. Cardinality(DOMAIN rows_)

Anybody == User \cup {Site, Nobody}
Write == [step : {"idle", "post", "comment", "commenters", "tell", "answer", "insert", "remove", "uncomment",
                  "report", "close", "rows", "notice"},
          by : Anybody, page : W!Page, item : Nat, told : SUBSET (Anybody \cup W!Target),
          closes : SUBSET Nat, filed : Nat]
PostRow == [page : W!Page, author : Anybody]
CommentRow == [post : Nat, author : Anybody]
ReportRow == [by : Anybody, target : W!Target, open : BOOLEAN]

\* What a report names was there once.
Named(t) ==
    /\ t[1] \in {"community", "post", "comment"}
    /\ t[1] = "post" => t[2] \in DOMAIN posts
    /\ t[1] = "comment" => t[2] \in DOMAIN comments

\* What is named goes with page g.
GoesWith(t, g) ==
    \/ g = 0
    \/ t[1] = "post" /\ t[2] \in W!On(g)
    \/ t[1] = "comment" /\ t[2] \in W!Under(W!On(g))

\* A deletion between its statements closes every report that it found open about what
\* goes with its page.
Closes(p) ==
    /\ writes[p].filed \in 0 .. Cardinality(DOMAIN reports)
    /\ \A r \in DOMAIN reports :
        r <= writes[p].filed /\ reports[r].open /\ GoesWith(reports[r].target, writes[p].page)
            => r \in writes[p].closes

FeedInv ==
    /\ Numbered(posts) /\ Numbered(comments) /\ Numbered(reports)
    /\ writes \in [Writers -> Write]
    /\ \A i \in W!Rows(posts) : posts[i] \in PostRow
    /\ \A c \in W!Rows(comments) : comments[c] \in CommentRow /\ comments[c].post \in DOMAIN posts
    /\ \A r \in DOMAIN reports : reports[r] \in ReportRow /\ Named(reports[r].target)
    /\ \A p \in Writers : writes[p].step = "report" => \E t \in W!Target : writes[p].told = {t} /\ Named(t)
    /\ \A p \in Writers : writes[p].step = "rows" => Closes(p)

LEMMA CountedInP == \A Z : W!Cardinality(Z) = Cardinality(Z)
  BY DEF W!Cardinality, Cardinality, W!IsFiniteSet, IsFiniteSet

\* A new row has the next number.
LEMMA GrownIs ==
  ASSUME NEW old, Numbered(old), NEW row
  PROVE  /\ Numbered(W!Grown(old, row))
         /\ DOMAIN W!Grown(old, row) = DOMAIN old \cup {Cardinality(DOMAIN old) + 1}
         /\ Cardinality(DOMAIN old) + 1 \notin DOMAIN old
         /\ Cardinality(DOMAIN W!Grown(old, row)) = Cardinality(DOMAIN old) + 1
         /\ W!Grown(old, row)[Cardinality(DOMAIN old) + 1] = row
         /\ \A i \in DOMAIN old : W!Grown(old, row)[i] = old[i]
<1> DEFINE n == Cardinality(DOMAIN old)
<1>1. W!Grown(old, row) = [i \in DOMAIN old \cup {n + 1} |-> IF i \in DOMAIN old THEN old[i] ELSE row]
  BY CountedInP DEF W!Grown
<1>2. n \in Nat /\ DOMAIN old = 1 .. n
  BY DEF Numbered
<1> HIDE DEF n
<1>3. (1 .. n) \cup {n + 1} = 1 .. (n + 1) /\ n + 1 \notin 1 .. n
  BY <1>2
<1>4. DOMAIN W!Grown(old, row) = 1 .. (n + 1)
  BY <1>1, <1>2, <1>3
<1>5. Cardinality(1 .. (n + 1)) = n + 1
  BY <1>2, FS_Interval
<1>6. Numbered(W!Grown(old, row))
  BY <1>2, <1>4, <1>5 DEF Numbered
<1>7. n + 1 \notin DOMAIN old
  BY <1>2, <1>3
<1>8. W!Grown(old, row)[n + 1] = row /\ \A i \in DOMAIN old : W!Grown(old, row)[i] = old[i]
  BY <1>1, <1>7
<1> QED BY <1>1, <1>4, <1>5, <1>6, <1>7, <1>8 DEF n

\* What is deleted leaves its number.
LEMMA WithoutIs ==
  ASSUME NEW old, Numbered(old), NEW Z
  PROVE  /\ Numbered(W!Without(old, Z)) /\ DOMAIN W!Without(old, Z) = DOMAIN old
         /\ \A i \in DOMAIN old : W!Without(old, Z)[i] = IF i \in Z THEN Gone ELSE old[i]
BY DEF W!Without, Numbered

LEMMA ClosedIs ==
  ASSUME Numbered(reports), NEW Z
  PROVE  /\ Numbered(W!Closed(Z)) /\ DOMAIN W!Closed(Z) = DOMAIN reports
         /\ \A r \in DOMAIN reports : W!Closed(Z)[r] = [reports[r] EXCEPT !.open = @ /\ r \notin Z]
BY DEF W!Closed, Numbered

\* Nothing is written twice: rows keep what they say until they go, reports are not opened again.
Evolves ==
    /\ Numbered(posts) /\ Numbered(comments) /\ Numbered(reports)
    /\ Numbered(posts)' /\ Numbered(comments)' /\ Numbered(reports)'
    /\ DOMAIN posts \subseteq DOMAIN posts' /\ \A i \in DOMAIN posts : posts'[i] \in {posts[i], Gone}
    /\ DOMAIN comments \subseteq DOMAIN comments' /\ \A c \in DOMAIN comments : comments'[c] \in {comments[c], Gone}
    /\ DOMAIN reports \subseteq DOMAIN reports'
    /\ Cardinality(DOMAIN reports) <= Cardinality(DOMAIN reports)'
    /\ \A r \in DOMAIN reports : reports'[r].target = reports[r].target /\ (reports'[r].open => reports[r].open)
    /\ \A i \in W!Rows(posts)' : posts'[i] \in PostRow
    /\ \A c \in W!Rows(comments)' : comments'[c] \in CommentRow /\ comments'[c].post \in DOMAIN posts'
    /\ \A r \in DOMAIN reports' : reports'[r] \in ReportRow /\ Named(reports[r].target)'

\* Reports and rows of a step that leaves the reports alone.
LEMMA ReportsStay ==
  ASSUME FeedInv, reports' = reports, DOMAIN posts \subseteq DOMAIN posts', DOMAIN comments \subseteq DOMAIN comments'
  PROVE  \A r \in DOMAIN reports' : reports'[r] \in ReportRow /\ Named(reports[r].target)'
BY DEF FeedInv, Named

\* A step of one request: the others stay, and what it goes on with is known.
OneWrite(p) ==
    /\ writes' = [writes EXCEPT ![p] = writes'[p]] /\ writes'[p] \in Write
    /\ writes'[p].step = "report" => \E t \in W!Target : writes'[p].told = {t} /\ Named(t)'
    /\ writes'[p].step = "rows" => Closes(p)'

LEMMA FeedKept ==
  ASSUME FeedInv, Evolves, writes' = writes \/ \E p \in Writers : OneWrite(p)
  PROVE  FeedInv'
<1>1. \A t : Named(t) => Named(t)'
  BY DEF Named, Evolves
<1>2. ASSUME NEW t, Named(t), NEW g, GoesWith(t, g)' PROVE GoesWith(t, g)
  <2>1. ASSUME NEW i \in DOMAIN posts, i \in W!On(g)' PROVE i \in W!On(g)
    BY <2>1 DEF Evolves, W!On, W!Rows
  <2>2. CASE g = 0
    BY <2>2 DEF GoesWith
  <2>3. CASE t[1] = "post" /\ t[2] \in W!On(g)'
    BY <1>2, <2>1, <2>3 DEF GoesWith, Named
  <2>4. CASE t[1] = "comment" /\ t[2] \in W!Under(W!On(g))'
    <3>1. t[2] \in DOMAIN comments /\ comments'[t[2]] # Gone /\ comments'[t[2]].post \in W!On(g)'
      BY <1>2, <2>4 DEF Named, W!Under, W!Rows
    <3>2. comments'[t[2]] = comments[t[2]] /\ comments[t[2]] # Gone
      BY <3>1 DEF Evolves
    <3>3. comments[t[2]].post \in DOMAIN posts
      BY <3>1, <3>2 DEF FeedInv, W!Rows
    <3> QED BY <2>1, <2>4, <3>1, <3>2, <3>3 DEF GoesWith, W!Under, W!Rows
  <2> QED BY <1>2, <2>2, <2>3, <2>4 DEF GoesWith
<1>3. ASSUME NEW p \in Writers, writes'[p] = writes[p], Closes(p) PROVE Closes(p)'
  <2>1. Cardinality(DOMAIN reports) \in Nat /\ Cardinality(DOMAIN reports)' \in Nat
        /\ Cardinality(DOMAIN reports) <= Cardinality(DOMAIN reports)'
    BY DEF Evolves, Numbered
  <2>2. writes[p].filed \in 0 .. Cardinality(DOMAIN reports)
    BY <1>3 DEF Closes
  <2>3. writes'[p].filed \in 0 .. Cardinality(DOMAIN reports)'
    BY <1>3, <2>1, <2>2
  <2>4. ASSUME NEW r \in DOMAIN reports', r <= writes[p].filed, reports'[r].open,
               GoesWith(reports[r].target, writes[p].page)'
        PROVE  r \in writes[p].closes
    <3>1. r \in DOMAIN reports
      BY <2>1, <2>2, <2>4 DEF Evolves, Numbered
    <3>2. reports'[r].target = reports[r].target /\ reports[r].open /\ Named(reports[r].target)
      BY <2>4, <3>1 DEF Evolves, FeedInv
    <3>3. GoesWith(reports[r].target, writes[p].page)
      BY <1>2, <1>3, <2>4, <3>2
    <3> QED BY <1>3, <2>4, <3>1, <3>2, <3>3 DEF Closes
  <2> QED BY <1>3, <2>3, <2>4 DEF Closes
<1>4. writes' \in [Writers -> Write]
  BY DEF FeedInv, OneWrite
<1>5. \A p \in Writers : writes'[p].step = "report" => \E t \in W!Target : writes'[p].told = {t} /\ Named(t)'
  BY <1>1 DEF FeedInv, OneWrite
<1>6. ASSUME NEW p \in Writers, writes'[p].step = "rows" PROVE Closes(p)'
  <2>1. CASE writes'[p] = writes[p]
    BY <1>3, <1>6, <2>1 DEF FeedInv
  <2>2. CASE OneWrite(p)
    BY <1>6, <2>2 DEF OneWrite
  <2> QED BY <2>1, <2>2 DEF OneWrite, FeedInv
<1> QED BY <1>4, <1>5, <1>6 DEF FeedInv, Evolves

LEMMA NothingWritten ==
  ASSUME FeedInv, posts' = posts, comments' = comments, reports' = reports
  PROVE  Evolves
<1>1. \A r \in DOMAIN reports' : reports'[r] \in ReportRow /\ Named(reports[r].target)'
  BY ReportsStay
<1>2. Numbered(posts)' /\ Numbered(comments)' /\ Numbered(reports)' /\ Cardinality(DOMAIN reports) \in Nat
  BY DEF FeedInv, Numbered
<1>3. /\ \A i \in W!Rows(posts)' : posts'[i] \in PostRow
      /\ \A c \in W!Rows(comments)' : comments'[c] \in CommentRow /\ comments'[c].post \in DOMAIN posts'
  BY DEF FeedInv, W!Rows
<1> QED BY <1>1, <1>2, <1>3 DEF FeedInv, Evolves

\* What a request goes on with, unless it files a report or has chosen the reports to close.
LEMMA Writing ==
  ASSUME FeedInv, NEW p \in Writers, NEW w \in Write, w.step \notin {"report", "rows"},
         writes' = [writes EXCEPT ![p] = w]
  PROVE  OneWrite(p)
BY DEF FeedInv, OneWrite

LEMMA IdleIs == 0 \in W!Page /\ W!Idle \in Write /\ W!Idle.step = "idle"
<1>1. 0 \in W!Page
  BY FeedsAssumption DEF W!Page
<1>2. W!Idle \in Write
  BY <1>1 DEF W!Idle, Write, W!Community, Anybody
<1> QED BY <1>1, <1>2 DEF W!Idle

LEMMA Beginnings ==
  ASSUME FeedInv, NEW p \in Writers,
         \/ \E u \in User, g \in W!Page : W!BeginCreate(p, u, g)
         \/ \E u \in User, i \in DOMAIN posts : W!BeginAddComment(p, u, i) \/ W!BeginRemove(p, u, i)
         \/ \E u \in User, c \in DOMAIN comments : W!BeginRemoveComment(p, u, c)
         \/ \E u \in User \cup {Site} : W!BeginDelete(p, u) \/ \E g \in W!Page : W!BeginDrop(p, u, g)
  PROVE  Evolves /\ OneWrite(p)
<1>1. Evolves
  BY NothingWritten DEF W!BeginCreate, W!BeginAddComment, W!BeginRemove, W!BeginRemoveComment, W!BeginDelete, W!BeginDrop, W!feed
<1>2. \A i \in DOMAIN posts : i \in Nat
  BY DEF FeedInv, Numbered
<1>3. \A c \in DOMAIN comments : c \in Nat
  BY DEF FeedInv, Numbered
<1>4. W!Idle \in Write /\ 0 \in W!Page
  BY IdleIs
<1>5. \E w \in Write : w.step \notin {"report", "rows"} /\ writes' = [writes EXCEPT ![p] = w]
  <2>1. ASSUME NEW u \in User, NEW g \in W!Page, W!BeginCreate(p, u, g) PROVE <1>5!:
    BY <1>4, <2>1 DEF W!BeginCreate, W!Starts, Write, Anybody
  <2>2. ASSUME NEW u \in User, NEW i \in DOMAIN posts, W!BeginAddComment(p, u, i) PROVE <1>5!:
    <3>1. posts[i].page \in W!Page /\ posts[i].author \in Anybody
      BY <2>2 DEF W!BeginAddComment, FeedInv, PostRow
    <3> QED BY <1>2, <1>4, <2>2, <3>1 DEF W!BeginAddComment, W!Starts, Write, Anybody
  <2>3. ASSUME NEW u \in User, NEW i \in DOMAIN posts, W!BeginRemove(p, u, i) PROVE <1>5!:
    BY <1>2, <1>4, <2>3 DEF W!BeginRemove, W!Starts, Write, Anybody
  <2>4. ASSUME NEW u \in User, NEW c \in DOMAIN comments, W!BeginRemoveComment(p, u, c) PROVE <1>5!:
    BY <1>3, <1>4, <2>4 DEF W!BeginRemoveComment, W!Starts, Write, Anybody
  <2>5. ASSUME NEW u \in User \cup {Site}, W!BeginDelete(p, u) PROVE <1>5!:
    BY <1>4, <2>5 DEF W!BeginDelete, W!Starts, Write, Anybody, W!Crew
  <2>6. ASSUME NEW u \in User \cup {Site}, NEW g \in W!Page, W!BeginDrop(p, u, g) PROVE <1>5!:
    <3>1. W!Squad(g) \ {u} \subseteq Anybody
      BY DEF W!Squad, Anybody
    <3> DEFINE w == [W!Idle EXCEPT !.step = "close", !.by = u, !.page = g, !.told = W!Squad(g) \ {u}]
    <3>2. writes' = [writes EXCEPT ![p] = w]
      BY <2>6 DEF W!BeginDrop, W!Starts
    <3>3. w \in Write /\ w.step = "close"
      BY <1>4, <3>1 DEF Write, Anybody
    <3> HIDE DEF w
    <3> QED BY <3>2, <3>3
  <2> QED BY <2>1, <2>2, <2>3, <2>4, <2>5, <2>6
<1> QED BY <1>1, <1>5, Writing

LEMMA Reporting ==
  ASSUME FeedInv, NEW p \in Writers, NEW u \in User, NEW t \in W!Target, W!BeginReport(p, u, t)
  PROVE  Evolves /\ OneWrite(p)
<1>1. Evolves
  BY NothingWritten DEF W!BeginReport, W!feed
<1>2. Named(t)
  <2>1. W!Exists(t) /\ t[1] \in {"community", "post", "comment"}
    BY DEF W!BeginReport, W!MayReport, W!Target
  <2> QED BY <2>1 DEF W!Exists, W!Rows, Named
<1>3. Named(t)'
  BY <1>2 DEF Named, W!BeginReport, W!feed
<1>4. W!Idle \in Write /\ 0 \in W!Page
  BY IdleIs
<1> DEFINE w == [W!Idle EXCEPT !.step = "report", !.by = u, !.told = {t}]
<1>5. writes' = [writes EXCEPT ![p] = w]
  BY DEF W!BeginReport, W!Starts
<1>6. w \in Write /\ w.step = "report" /\ w.told = {t}
  BY <1>4 DEF Write, Anybody
<1> HIDE DEF w
<1> QED BY <1>1, <1>3, <1>5, <1>6 DEF OneWrite, FeedInv

LEMMA Telling ==
  ASSUME FeedInv, NEW p \in Writers,
         W!Commenters(p) \/ W!ReadAudience(p) \/ W!InsertEntries(p) \/ W!TellMembers(p)
  PROVE  Evolves /\ OneWrite(p)
<1>1. Evolves
  BY NothingWritten DEF W!Commenters, W!ReadAudience, W!InsertEntries, W!TellMembers, W!feed
<1>2. writes[p] \in Write
  BY DEF FeedInv
<1>3. W!Idle \in Write /\ W!Idle.step = "idle"
  BY IdleIs
<1>4. \E w \in Write : w.step \notin {"report", "rows"} /\ writes' = [writes EXCEPT ![p] = w]
  <2>1. CASE W!Commenters(p)
    <3>1. {comments[c].author : c \in W!Under({writes[p].item})} \subseteq Anybody
      BY DEF W!Under, FeedInv, CommentRow
    <3> DEFINE w == [writes[p] EXCEPT !.step = "answer",
                        !.told = @ \cup {comments[c].author : c \in W!Under({writes[p].item})}]
    <3>2. writes' = [writes EXCEPT ![p] = w]
      BY <1>2, <2>1 DEF W!Commenters, FeedInv
    <3>3. w \in Write /\ w.step = "answer"
      BY <1>2, <3>1 DEF Write
    <3> HIDE DEF w
    <3> QED BY <3>2, <3>3
  <2>2. ASSUME W!Ends(p) PROVE <1>4!:
    BY <1>3, <2>2 DEF W!Ends
  <2>3. CASE W!ReadAudience(p) /\ ~W!Ends(p)
    <3>1. PICK who \in SUBSET Anybody : writes' = [writes EXCEPT ![p].step = "insert", ![p].told = who]
      <4>1. W!Audience(writes[p].page, writes[p].by) \subseteq Anybody
        BY DEF W!Audience, W!Crew, W!Squad, W!Admins, Anybody
      <4> QED BY <2>3, <4>1 DEF W!ReadAudience
    <3> DEFINE w == [writes[p] EXCEPT !.step = "insert", !.told = who]
    <3>2. writes' = [writes EXCEPT ![p] = w]
      BY <3>1 DEF FeedInv
    <3>3. w \in Write /\ w.step = "insert"
      BY <1>2 DEF Write
    <3> HIDE DEF w
    <3> QED BY <3>2, <3>3
  <2> QED BY <2>1, <2>2, <2>3 DEF W!InsertEntries, W!TellMembers
<1> QED BY <1>1, <1>4, Writing

\* Rows of the feed that go, and a request that goes on without a report.
LEMMA Thinned ==
  ASSUME FeedInv, NEW Z, NEW Y, posts' = posts \/ posts' = W!Without(posts, Z),
         comments' = W!Without(comments, Y)
  PROVE  /\ Numbered(posts)' /\ Numbered(comments)'
         /\ DOMAIN posts' = DOMAIN posts /\ \A i \in DOMAIN posts : posts'[i] \in {posts[i], Gone}
         /\ DOMAIN comments' = DOMAIN comments /\ \A c \in DOMAIN comments : comments'[c] \in {comments[c], Gone}
         /\ \A i \in W!Rows(posts)' : posts'[i] \in PostRow
         /\ \A c \in W!Rows(comments)' : comments'[c] \in CommentRow /\ comments'[c].post \in DOMAIN posts'
<1>1. Numbered(posts) /\ Numbered(comments)
  BY DEF FeedInv
<1>2. Numbered(comments)' /\ DOMAIN comments' = DOMAIN comments
      /\ \A c \in DOMAIN comments : comments'[c] \in {comments[c], Gone}
  <2>1. /\ Numbered(W!Without(comments, Y)) /\ DOMAIN W!Without(comments, Y) = DOMAIN comments
        /\ \A i \in DOMAIN comments : W!Without(comments, Y)[i] = IF i \in Y THEN Gone ELSE comments[i]
    BY <1>1, WithoutIs
  <2> QED BY <2>1 DEF Numbered
<1>3. Numbered(posts)' /\ DOMAIN posts' = DOMAIN posts
      /\ \A i \in DOMAIN posts : posts'[i] \in {posts[i], Gone}
  <2>1. /\ Numbered(W!Without(posts, Z)) /\ DOMAIN W!Without(posts, Z) = DOMAIN posts
        /\ \A i \in DOMAIN posts : W!Without(posts, Z)[i] = IF i \in Z THEN Gone ELSE posts[i]
    BY <1>1, WithoutIs
  <2> QED BY <1>1, <2>1 DEF Numbered
<1>4. \A i \in W!Rows(posts)' : i \in W!Rows(posts) /\ posts'[i] = posts[i]
  BY <1>3 DEF W!Rows
<1>5. \A c \in W!Rows(comments)' : c \in W!Rows(comments) /\ comments'[c] = comments[c]
  BY <1>2 DEF W!Rows
<1> QED BY <1>2, <1>3, <1>4, <1>5 DEF FeedInv

LEMMA Leaving ==
  ASSUME FeedInv, NEW p \in Writers, W!Remove(p) \/ W!RemoveComment(p)
  PROVE  Evolves /\ OneWrite(p)
<1>1. PICK Y, Z : (posts' = posts \/ posts' = W!Without(posts, Z)) /\ comments' = W!Without(comments, Y)
  BY DEF W!Remove, W!RemoveComment
<1>2. reports' = reports /\ writes' = [writes EXCEPT ![p] = W!Idle]
  BY DEF W!Remove, W!RemoveComment, W!Ends
<1>3. \A r \in DOMAIN reports' : reports'[r] \in ReportRow /\ Named(reports[r].target)'
  BY <1>1, <1>2, Thinned, ReportsStay
<1>4. Numbered(reports) /\ Numbered(reports)' /\ Cardinality(DOMAIN reports) \in Nat
  BY <1>2 DEF FeedInv, Numbered
<1>5. Evolves
  BY <1>1, <1>2, <1>3, <1>4, Thinned DEF FeedInv, Evolves
<1>6. OneWrite(p)
  BY <1>2, IdleIs, Writing
<1> QED BY <1>5, <1>6

LEMMA Adding ==
  ASSUME FeedInv, NEW p \in Writers, W!Create(p) \/ W!AddComment(p)
  PROVE  Evolves /\ OneWrite(p)
<1>0. writes[p] \in Write /\ reports' = reports /\ Numbered(posts) /\ Numbered(comments)
  BY DEF FeedInv, W!Create, W!AddComment
<1>1. CASE W!Ends(p) /\ posts' = posts /\ comments' = comments
  <2>1. Evolves
    BY <1>0, <1>1, NothingWritten
  <2>2. writes' = [writes EXCEPT ![p] = W!Idle]
    BY <1>1 DEF W!Ends
  <2> QED BY <2>1, <2>2, IdleIs, Writing
<1>2. CASE W!Create(p) /\ writes[p].page \in live
  <2> DEFINE row == [page |-> writes[p].page, author |-> writes[p].by]
             w == [writes[p] EXCEPT !.step = "tell", !.item = Cardinality(DOMAIN posts) + 1]
  <2>1. posts' = W!Grown(posts, row) /\ comments' = comments
    BY <1>2 DEF W!Create
  <2>2. row \in PostRow
    BY <1>0 DEF PostRow, Write
  <2> HIDE DEF row
  <2>3. /\ Numbered(posts)' /\ DOMAIN posts' = DOMAIN posts \cup {Cardinality(DOMAIN posts) + 1}
        /\ posts'[Cardinality(DOMAIN posts) + 1] = row /\ \A i \in DOMAIN posts : posts'[i] = posts[i]
    <3>1. /\ Numbered(W!Grown(posts, row))
          /\ DOMAIN W!Grown(posts, row) = DOMAIN posts \cup {Cardinality(DOMAIN posts) + 1}
          /\ W!Grown(posts, row)[Cardinality(DOMAIN posts) + 1] = row
          /\ \A i \in DOMAIN posts : W!Grown(posts, row)[i] = posts[i]
      BY <1>0, GrownIs
    <3> QED BY <2>1, <3>1 DEF Numbered
  <2>4. \A i \in W!Rows(posts)' : posts'[i] \in PostRow
    BY <2>2, <2>3 DEF FeedInv, W!Rows
  <2>5. \A c \in W!Rows(comments)' : comments'[c] \in CommentRow /\ comments'[c].post \in DOMAIN posts'
    BY <2>1, <2>3 DEF FeedInv, W!Rows
  <2>6. \A r \in DOMAIN reports' : reports'[r] \in ReportRow /\ Named(reports[r].target)'
    BY <1>0, <2>1, <2>3, ReportsStay
  <2>7. Numbered(reports) /\ Numbered(reports)' /\ Cardinality(DOMAIN reports) \in Nat /\ Numbered(comments)'
    BY <1>0, <2>1 DEF FeedInv, Numbered
  <2>8. Evolves
    BY <1>0, <2>1, <2>3, <2>4, <2>5, <2>6, <2>7 DEF FeedInv, Evolves
  <2>9. writes' = [writes EXCEPT ![p] = w]
    BY <1>0, <1>2, CountedInP DEF W!Create, FeedInv
  <2>10. w \in Write /\ w.step = "tell"
    <3>1. Cardinality(DOMAIN posts) + 1 \in Nat
      BY <1>0 DEF Numbered
    <3> QED BY <1>0, <3>1 DEF Write
  <2> HIDE DEF w
  <2> QED BY <2>8, <2>9, <2>10, Writing
<1>3. CASE W!AddComment(p) /\ writes[p].item \in W!Rows(posts)
  <2> DEFINE row == [post |-> writes[p].item, author |-> writes[p].by]
             w == [writes[p] EXCEPT !.step = "commenters"]
  <2>1. comments' = W!Grown(comments, row) /\ posts' = posts
    BY <1>3 DEF W!AddComment
  <2>2. row \in CommentRow /\ row.post \in DOMAIN posts
    BY <1>0, <1>3 DEF CommentRow, Write, W!Rows
  <2> HIDE DEF row
  <2>3. /\ Numbered(comments)' /\ DOMAIN comments' = DOMAIN comments \cup {Cardinality(DOMAIN comments) + 1}
        /\ comments'[Cardinality(DOMAIN comments) + 1] = row /\ \A i \in DOMAIN comments : comments'[i] = comments[i]
    <3>1. /\ Numbered(W!Grown(comments, row))
          /\ DOMAIN W!Grown(comments, row) = DOMAIN comments \cup {Cardinality(DOMAIN comments) + 1}
          /\ W!Grown(comments, row)[Cardinality(DOMAIN comments) + 1] = row
          /\ \A i \in DOMAIN comments : W!Grown(comments, row)[i] = comments[i]
      BY <1>0, GrownIs
    <3> QED BY <2>1, <3>1 DEF Numbered
  <2>4. \A i \in W!Rows(posts)' : posts'[i] \in PostRow
    BY <2>1 DEF FeedInv, W!Rows
  <2>5. \A c \in W!Rows(comments)' : comments'[c] \in CommentRow /\ comments'[c].post \in DOMAIN posts'
    BY <2>1, <2>2, <2>3 DEF FeedInv, W!Rows
  <2>6. \A r \in DOMAIN reports' : reports'[r] \in ReportRow /\ Named(reports[r].target)'
    BY <1>0, <2>1, <2>3, ReportsStay
  <2>7. Numbered(reports) /\ Numbered(reports)' /\ Cardinality(DOMAIN reports) \in Nat /\ Numbered(posts)'
    BY <1>0, <2>1 DEF FeedInv, Numbered
  <2>8. Evolves
    BY <1>0, <2>1, <2>3, <2>4, <2>5, <2>6, <2>7 DEF FeedInv, Evolves
  <2>9. writes' = [writes EXCEPT ![p] = w]
    BY <1>0, <1>3 DEF W!AddComment, W!Goes, FeedInv
  <2>10. w \in Write /\ w.step = "commenters"
    BY <1>0 DEF Write
  <2> HIDE DEF w
  <2> QED BY <2>8, <2>9, <2>10, Writing
<1> QED BY <1>1, <1>2, <1>3 DEF W!Create, W!AddComment

\* Closing a report changes nothing else of it.
LEMMA Closing ==
  ASSUME FeedInv, NEW Z
  PROVE  /\ Numbered(W!Closed(Z)) /\ DOMAIN W!Closed(Z) = DOMAIN reports
         /\ \A r \in DOMAIN reports :
              /\ W!Closed(Z)[r] \in ReportRow /\ W!Closed(Z)[r].target = reports[r].target
              /\ W!Closed(Z)[r].open <=> (reports[r].open /\ r \notin Z)
<1>1. /\ Numbered(W!Closed(Z)) /\ DOMAIN W!Closed(Z) = DOMAIN reports
      /\ \A r \in DOMAIN reports : W!Closed(Z)[r] = [reports[r] EXCEPT !.open = @ /\ r \notin Z]
  BY ClosedIs DEF FeedInv
<1>2. ASSUME NEW r \in DOMAIN reports
      PROVE  /\ W!Closed(Z)[r] \in ReportRow /\ W!Closed(Z)[r].target = reports[r].target
             /\ W!Closed(Z)[r].open <=> (reports[r].open /\ r \notin Z)
  <2>1. reports[r] \in ReportRow
    BY DEF FeedInv
  <2>2. W!Closed(Z)[r] = [reports[r] EXCEPT !.open = @ /\ r \notin Z]
    BY <1>1
  <2> HIDE DEF FeedInv
  <2> QED BY <2>1, <2>2 DEF ReportRow
<1> QED BY <1>1, <1>2

LEMMA Filing ==
  ASSUME FeedInv, NEW p \in Writers, W!FileReport(p)
  PROVE  Evolves /\ OneWrite(p)
<1>1. writes[p] \in Write /\ posts' = posts /\ comments' = comments /\ writes' = [writes EXCEPT ![p] = W!Idle]
  BY DEF FeedInv, W!FileReport, W!feed, W!Ends
<1>2. OneWrite(p)
  BY <1>1, IdleIs, Writing
<1>3. PICK t \in W!Target : writes[p].told = {t} /\ Named(t)
  BY DEF FeedInv, W!FileReport, W!At
<1>4. (CHOOSE x \in writes[p].told : TRUE) = t
  BY <1>3
<1> DEFINE row == [by |-> writes[p].by, target |-> t, open |-> TRUE]
<1>5. reports' = reports \/ reports' = W!Grown(reports, row)
  BY <1>4 DEF W!FileReport
<1>6. row \in ReportRow /\ row.target = t
  BY <1>1 DEF ReportRow, Write
<1> HIDE DEF row
<1>7. CASE reports' = reports
  BY <1>1, <1>2, <1>7, NothingWritten
<1>8. CASE reports' = W!Grown(reports, row)
  <2>1. Numbered(posts) /\ Numbered(comments) /\ Numbered(reports) /\ Cardinality(DOMAIN reports) \in Nat
    BY DEF FeedInv, Numbered
  <2>2. /\ Numbered(W!Grown(reports, row))
        /\ DOMAIN W!Grown(reports, row) = DOMAIN reports \cup {Cardinality(DOMAIN reports) + 1}
        /\ Cardinality(DOMAIN W!Grown(reports, row)) = Cardinality(DOMAIN reports) + 1
        /\ W!Grown(reports, row)[Cardinality(DOMAIN reports) + 1] = row
        /\ \A i \in DOMAIN reports : W!Grown(reports, row)[i] = reports[i]
    BY <2>1, GrownIs
  <2>3. /\ Numbered(reports)' /\ DOMAIN reports' = DOMAIN reports \cup {Cardinality(DOMAIN reports) + 1}
        /\ Cardinality(DOMAIN reports)' = Cardinality(DOMAIN reports) + 1
        /\ reports'[Cardinality(DOMAIN reports) + 1] = row /\ \A i \in DOMAIN reports : reports'[i] = reports[i]
    BY <1>8, <2>2 DEF Numbered
  <2>4. Numbered(posts)' /\ Numbered(comments)'
    BY <1>1, <2>1 DEF Numbered
  <2>5. \A x : Named(x) => Named(x)'
    BY <1>1 DEF Named
  <2>6. ASSUME NEW r \in DOMAIN reports' PROVE reports'[r] \in ReportRow /\ Named(reports[r].target)'
    <3>1. CASE r \in DOMAIN reports
      <4>1. reports[r] \in ReportRow /\ Named(reports[r].target) /\ reports'[r] = reports[r]
        BY <2>3, <3>1 DEF FeedInv
      <4>2. Named(reports[r].target)'
        BY <1>1, <4>1 DEF Named
      <4> QED BY <4>1, <4>2
    <3>2. CASE r = Cardinality(DOMAIN reports) + 1
      <4>1. reports'[r] = row
        BY <2>3, <3>2
      <4>2. Named(reports[r].target)'
        BY <1>1, <1>3, <1>6, <4>1 DEF Named
      <4> QED BY <1>6, <4>1, <4>2
    <3> QED BY <2>3, <2>6, <3>1, <3>2
  <2>7. /\ \A i \in W!Rows(posts)' : posts'[i] \in PostRow
        /\ \A c \in W!Rows(comments)' : comments'[c] \in CommentRow /\ comments'[c].post \in DOMAIN posts'
    BY <1>1 DEF FeedInv, W!Rows
  <2>8. Evolves
    BY <1>1, <2>1, <2>3, <2>4, <2>6, <2>7 DEF Evolves
  <2> QED BY <1>2, <2>8
<1> QED BY <1>5, <1>7, <1>8

\* A report that is resolved, and those a deletion closes with the rows that go.
LEMMA ReportsClose ==
  ASSUME FeedInv, NEW Z, reports' = W!Closed(Z),
         NEW X, NEW Y, posts' = posts \/ posts' = W!Without(posts, X),
         comments' = W!Without(comments, Y) \/ (comments' = comments /\ posts' = posts)
  PROVE  Evolves
<1>1. /\ Numbered(W!Closed(Z)) /\ DOMAIN W!Closed(Z) = DOMAIN reports
      /\ \A r \in DOMAIN reports :
            /\ W!Closed(Z)[r] \in ReportRow /\ W!Closed(Z)[r].target = reports[r].target
            /\ W!Closed(Z)[r].open <=> (reports[r].open /\ r \notin Z)
  BY Closing
<1>2. /\ Numbered(posts) /\ Numbered(comments) /\ Numbered(reports)
      /\ Numbered(posts)' /\ Numbered(comments)'
      /\ DOMAIN posts' = DOMAIN posts /\ \A i \in DOMAIN posts : posts'[i] \in {posts[i], Gone}
      /\ DOMAIN comments' = DOMAIN comments /\ \A c \in DOMAIN comments : comments'[c] \in {comments[c], Gone}
      /\ \A i \in W!Rows(posts)' : posts'[i] \in PostRow
      /\ \A c \in W!Rows(comments)' : comments'[c] \in CommentRow /\ comments'[c].post \in DOMAIN posts'
  <2>1. CASE comments' = W!Without(comments, Y)
    BY <2>1, Thinned DEF FeedInv
  <2>2. CASE comments' = comments /\ posts' = posts
    BY <2>2 DEF FeedInv, Numbered, W!Rows
  <2> QED BY <2>1, <2>2
<1>3. Numbered(reports)' /\ DOMAIN reports' = DOMAIN reports /\ Cardinality(DOMAIN reports) \in Nat
      /\ Cardinality(DOMAIN reports)' = Cardinality(DOMAIN reports)
  BY <1>1, <1>2 DEF Numbered
<1>4. \A r \in DOMAIN reports : reports'[r].target = reports[r].target /\ (reports'[r].open => reports[r].open)
  BY <1>1
<1>5. ASSUME NEW r \in DOMAIN reports' PROVE reports'[r] \in ReportRow /\ Named(reports[r].target)'
  <2>1. r \in DOMAIN reports /\ Named(reports[r].target)
    BY <1>3 DEF FeedInv
  <2>2. reports'[r] \in ReportRow /\ reports'[r].target = reports[r].target
    BY <1>1, <2>1
  <2> QED BY <1>2, <2>1, <2>2 DEF Named
<1> QED BY <1>2, <1>3, <1>4, <1>5 DEF Evolves

LEMMA Choosing ==
  ASSUME FeedInv, NEW p \in Writers, W!CloseReports(p)
  PROVE  Evolves /\ OneWrite(p)
<1> DEFINE g == writes[p].page
           mine == {r \in W!About(g) : W!Open(r)}
           n == Cardinality(DOMAIN reports)
           w == [writes[p] EXCEPT !.step = "rows", !.closes = mine, !.filed = n]
<1>1. Evolves /\ writes[p] \in Write /\ n \in Nat /\ DOMAIN reports = 1 .. n
  BY NothingWritten DEF W!CloseReports, W!feed, FeedInv, Numbered
<1>2. mine \subseteq Nat
  BY <1>1 DEF W!Open
<1>3. writes' = [writes EXCEPT ![p] = w]
  BY CountedInP DEF W!CloseReports, FeedInv
<1>4. w \in Write /\ w.step = "rows" /\ w.closes = mine /\ w.filed = n /\ w.page = g
  BY <1>1, <1>2 DEF Write
<1>5. ASSUME NEW r \in DOMAIN reports, reports[r].open, GoesWith(reports[r].target, g)
      PROVE  r \in mine
  <2>1. reports[r] \in ReportRow /\ W!Open(r)
    BY <1>5 DEF FeedInv, W!Open
  <2>2. CASE g = 0
    BY <2>1, <2>2 DEF W!About, W!Community
  <2>3. CASE g # 0
    <3>1. reports[r].target \in W!Target
      BY <2>1 DEF ReportRow
    <3>2. reports[r].target = <<reports[r].target[1], reports[r].target[2]>>
      BY <3>1 DEF W!Target
    <3>3. reports[r].target \in ({"post"} \X W!On(g)) \cup ({"comment"} \X W!Under(W!On(g)))
      BY <1>5, <2>3, <3>2 DEF GoesWith
    <3> QED BY <2>1, <2>3, <3>3 DEF W!About, W!Community
  <2> QED BY <2>2, <2>3
<1> HIDE DEF w, mine
<1>6. writes'[p] = w /\ writes[p].page = g /\ reports' = reports /\ posts' = posts /\ comments' = comments
  BY <1>1, <1>3 DEF FeedInv, W!CloseReports, W!feed
<1>7. \A t, h : GoesWith(t, h)' <=> GoesWith(t, h)
  BY <1>6 DEF GoesWith, W!On, W!Under, W!Rows
<1>8. Closes(p)'
  <2>1. writes'[p].filed \in 0 .. Cardinality(DOMAIN reports)'
    BY <1>1, <1>4, <1>6
  <2>2. ASSUME NEW r \in DOMAIN reports', reports'[r].open, GoesWith(reports[r].target, writes[p].page)'
        PROVE  r \in writes'[p].closes
    <3>1. GoesWith(reports[r].target, g)
      BY <1>4, <1>6, <2>2 DEF GoesWith, W!On, W!Under, W!Rows
    <3> QED BY <1>4, <1>5, <1>6, <2>2, <3>1
  <2> QED BY <2>1, <2>2 DEF Closes
<1>9. OneWrite(p)
  BY <1>3, <1>4, <1>6, <1>8 DEF OneWrite
<1> QED BY <1>1, <1>9

LEMMA Deleting ==
  ASSUME FeedInv, NEW p \in Writers, W!DeleteRows(p)
  PROVE  Evolves /\ OneWrite(p)
<1>1. \E X, Y : posts' = W!Without(posts, X) /\ comments' = W!Without(comments, Y)
  BY DEF W!DeleteRows
<1>2. Evolves
  BY <1>1, ReportsClose DEF W!DeleteRows
<1> DEFINE w == [writes[p] EXCEPT !.step = "notice", !.closes = {}]
<1>3. writes' = [writes EXCEPT ![p] = w] /\ writes[p] \in Write
  BY DEF W!DeleteRows, FeedInv
<1>4. w \in Write /\ w.step = "notice"
  BY <1>3 DEF Write
<1> HIDE DEF w
<1> QED BY <1>2, <1>3, <1>4, Writing

LEMMA FeedStep == FeedInv /\ [W!Next]_feedVars => FeedInv'
<1> SUFFICES ASSUME FeedInv, [W!Next]_feedVars PROVE FeedInv'
  OBVIOUS
<1>1. ASSUME NEW p \in Writers, Evolves /\ OneWrite(p) PROVE FeedInv'
  BY <1>1, FeedKept
<1>2. ASSUME posts' = posts, comments' = comments, reports' = reports, writes' = writes PROVE FeedInv'
  BY <1>2, NothingWritten, FeedKept
<1>3. ASSUME NEW r \in DOMAIN reports, W!Resolve(r) PROVE FeedInv'
  <2>1. Evolves
    BY <1>3, ReportsClose DEF W!Resolve, W!feed
  <2> QED BY <1>3, <2>1, FeedKept DEF W!Resolve
<1>4. ASSUME NEW u \in User, W!MembershipChanges(u) \/ W!CreateSubgroup(u) PROVE FeedInv'
  BY <1>2, <1>4 DEF W!MembershipChanges, W!CreateSubgroup, W!feed
<1>5. ASSUME W!Suspension PROVE FeedInv'
  BY <1>2, <1>5 DEF W!Suspension, W!feed
<1>6. ASSUME UNCHANGED feedVars PROVE FeedInv'
  BY <1>2, <1>6 DEF feedVars
<1>7. ASSUME NEW p \in Writers,
             \/ \E u \in User, g \in W!Page : W!BeginCreate(p, u, g)
             \/ \E u \in User, i \in DOMAIN posts : W!BeginAddComment(p, u, i) \/ W!BeginRemove(p, u, i)
             \/ \E u \in User, c \in DOMAIN comments : W!BeginRemoveComment(p, u, c)
             \/ \E u \in User \cup {Site} : W!BeginDelete(p, u) \/ \E g \in W!Page : W!BeginDrop(p, u, g)
      PROVE  FeedInv'
  <2> HIDE DEF FeedInv
  <2>1. Evolves /\ OneWrite(p)
    BY <1>7, Beginnings
  <2> QED BY <1>1, <2>1
<1>8. ASSUME NEW p \in Writers, \/ \E u \in User, t \in W!Target : W!BeginReport(p, u, t)
                                \/ W!Create(p) \/ W!AddComment(p) \/ W!Commenters(p) \/ W!ReadAudience(p)
                                \/ W!InsertEntries(p) \/ W!Remove(p) \/ W!RemoveComment(p) \/ W!FileReport(p)
                                \/ W!CloseReports(p) \/ W!DeleteRows(p) \/ W!TellMembers(p)
      PROVE  FeedInv'
  BY <1>1, <1>8, Reporting, Adding, Telling, Leaving, Filing, Choosing, Deleting
<1> QED BY <1>3, <1>4, <1>5, <1>6, <1>7, <1>8 DEF W!Next

\* What the deletion of a page takes with it, it has read the reports of.
LEMMA DeletionsSettle == FeedInv /\ [W!Next]_feedVars => W!ReportsSettled
<1> SUFFICES ASSUME FeedInv, NEW p \in Writers, NEW r \in W!Report, W!DeleteRows(p), W!Open(r),
                    W!Exists(reports[r].target), ~W!Exists(reports[r].target)',
                    ~(r > writes[p].filed)
             PROVE  ~W!Open(r)'
  BY DEF W!ReportsSettled
<1> DEFINE t == reports[r].target
           g == writes[p].page
           gone == IF g = 0 THEN live ELSE {g}
           torn == {i \in W!Rows(posts) : posts[i].page \in gone}
<1>1. r \in DOMAIN reports /\ reports[r].open /\ reports[r] \in ReportRow /\ Named(t)
  BY DEF W!Open, FeedInv
<1>2. Closes(p)
  BY DEF FeedInv, W!DeleteRows, W!At
<1>3. r \in Nat /\ writes[p].filed \in Nat
  BY <1>1 DEF FeedInv, Numbered, Write
<1>4. live' = live \ gone /\ posts' = W!Without(posts, torn) /\ comments' = W!Without(comments, W!Under(torn))
      /\ reports' = W!Closed(writes[p].closes)
  BY DEF W!DeleteRows, W!Community
<1>5. /\ DOMAIN W!Closed(writes[p].closes) = DOMAIN reports
      /\ W!Closed(writes[p].closes)[r].target = reports[r].target
      /\ W!Closed(writes[p].closes)[r].open <=> (reports[r].open /\ r \notin writes[p].closes)
  BY <1>1, Closing
<1>6. /\ t[1] = "community" => 0 \in live /\ 0 \notin live'
      /\ t[1] = "post" => t[2] \in W!Rows(posts) /\ t[2] \notin W!Rows(posts)'
      /\ t[1] = "comment" => t[2] \in W!Rows(comments) /\ t[2] \notin W!Rows(comments)'
  <2>1. reports'[r].target = t
    BY <1>4, <1>5
  <2> QED BY <2>1 DEF W!Exists, W!Community
<1>7. GoesWith(t, g)
  <2>1. CASE g = 0
    BY <2>1 DEF GoesWith
  <2>2. CASE g # 0
    <3>1. torn = W!On(g)
      BY <2>2 DEF W!On
    <3>2. /\ DOMAIN W!Without(posts, torn) = DOMAIN posts
          /\ \A i \in DOMAIN posts : W!Without(posts, torn)[i] = IF i \in torn THEN Gone ELSE posts[i]
      BY WithoutIs DEF FeedInv
    <3>3. /\ DOMAIN W!Without(comments, W!Under(torn)) = DOMAIN comments
          /\ \A c \in DOMAIN comments :
               W!Without(comments, W!Under(torn))[c] = IF c \in W!Under(torn) THEN Gone ELSE comments[c]
      BY WithoutIs DEF FeedInv
    <3> HIDE DEF torn
    <3>4. CASE t[1] = "community"
      <4>1. 0 \in live /\ 0 \notin live'
        BY <1>6, <3>4
      <4> QED BY <1>4, <2>2, <4>1
    <3>5. CASE t[1] = "post"
      <4>1. t[2] \in W!Rows(posts) /\ t[2] \notin W!Rows(posts)'
        BY <1>6, <3>5
      <4>2. t[2] \in torn
        BY <1>4, <3>2, <4>1 DEF W!Rows
      <4> QED BY <3>1, <3>5, <4>2 DEF GoesWith
    <3>6. CASE t[1] = "comment"
      <4>1. t[2] \in W!Rows(comments) /\ t[2] \notin W!Rows(comments)'
        BY <1>6, <3>6
      <4>2. t[2] \in W!Under(torn)
        BY <1>4, <3>3, <4>1 DEF W!Rows
      <4> QED BY <3>1, <3>6, <4>2 DEF GoesWith
    <3> QED BY <1>1, <3>4, <3>5, <3>6 DEF Named
  <2> QED BY <2>1, <2>2
<1>8. r \in writes[p].closes
  BY <1>1, <1>2, <1>3, <1>7 DEF Closes
<1>9. ~W!Open(r)'
  BY <1>4, <1>5, <1>8 DEF W!Open
<1> QED BY <1>9

LEMMA FeedBegins == W!Init => FeedInv
<1> SUFFICES ASSUME W!Init PROVE FeedInv
  OBVIOUS
<1>1. posts = <<>> /\ comments = <<>> /\ reports = <<>> /\ writes = [p \in Writers |-> W!Idle]
  BY DEF W!Init
<1>2. Numbered(<<>>) /\ DOMAIN <<>> = {}
  <2>1. Cardinality({}) = 0
    BY FS_EmptySet
  <2>2. DOMAIN <<>> = {} /\ 1 .. 0 = {}
    OBVIOUS
  <2> QED BY <2>1, <2>2 DEF Numbered
<1>3. writes \in [Writers -> Write] /\ \A p \in Writers : writes[p].step = "idle"
  BY <1>1, IdleIs
<1> QED BY <1>1, <1>2, <1>3 DEF FeedInv, W!Rows

\* The deletion of a page leaves no report open about what goes with it, one that is
\* filed after its reports were closed aside.
THEOREM ReportsStaySettled == PagesSpec => ReportsAreSettled
<1> DEFINE Inv == half = "posts" => FeedInv
<1>1. PagesInit => Inv
  BY FeedBegins DEF PagesInit
<1>2. Inv /\ [PagesNext]_all => Inv'
  <2> SUFFICES ASSUME Inv, [PagesNext]_all, half' = "posts" PROVE FeedInv'
    OBVIOUS
  <2>1. half = "posts" /\ [W!Next]_feedVars
    BY DEF PagesNext, PostsStep, AddressesStep, all
  <2> QED BY <2>1, FeedStep
<1>3. Inv /\ [PagesNext]_all => [half = "posts" => W!ReportsSettled]_all
  <2> SUFFICES ASSUME Inv, [PagesNext]_all, half = "posts" PROVE W!ReportsSettled \/ UNCHANGED all
    OBVIOUS
  <2>1. [W!Next]_feedVars
    BY DEF PagesNext, PostsStep, AddressesStep, all
  <2> QED BY <2>1, DeletionsSettle
<1> QED BY <1>1, <1>2, <1>3, PTL DEF PagesSpec, ReportsAreSettled

-----------------------------------------------------------------------------
(* The addresses of communities.                                           *)

\* What a transaction knows of the addresses and the entries.
Length == 1 .. MaxLength
Db == [ok : BOOLEAN, slug : [A!Item -> Length], link : [A!Item -> Nat \X Nat]]
Present == [ok |-> TRUE, slug |-> slug, link |-> link]

\* Nobody else in its scope has an address.
Apart(s) == \A i \in A!Item : \A j \in A!Scope(i) \ {i} : s[j] # s[i]

\* The address of x when these are the slugs.
Place(s, x) == IF x \in Communities THEN <<s[x], 0>> ELSE <<s[parent[x]], s[x]>>

\* Entries that led to their page before still do.
Follow(old, new) == \A x \in A!Item : old.link[x] = Place(old.slug, x) => new.link[x] = Place(new.slug, x)

PlanOk(p) ==
    /\ p.ids \subseteq A!Item /\ p.order \in A!Orders /\ p.read \in [A!Item -> Length]
    /\ \A i \in p.ids : p.changes[i].old = p.read[i] /\ p.changes[i].new \in Length

AddressInv ==
    /\ parent \in [Subgroups -> Communities]
    /\ slug \in [A!Item -> Length] /\ link \in [A!Item -> Nat \X Nat] /\ Apart(slug)
    /\ renaming # nil => renaming.community \in Communities /\ renaming.new \in Length
    /\ plan # nil => PlanOk(plan)

LEMMA CountedInA == \A Z : A!Cardinality(Z) = Cardinality(Z)
  BY DEF A!Cardinality, Cardinality, A!IsFiniteSet, IsFiniteSet

\* One address changes: what was free stays apart, and entries that led to their page
\* still do when the transaction knew the address.
LEMMA MovedOn ==
  ASSUME parent \in [Subgroups -> Communities], NEW db \in Db, Apart(db.slug),
         NEW i \in A!Item, NEW old, NEW new \in Length, NEW at \in Nat
  PROVE  /\ A!Moved(db, i, old, new, at) \in Db /\ Apart(A!Moved(db, i, old, new, at).slug)
         /\ A!Moved(db, i, old, new, at).ok =>
              /\ db.ok /\ A!Moved(db, i, old, new, at).slug = [db.slug EXCEPT ![i] = new]
              /\ old = db.slug[i] /\ (i \in Subgroups => at = db.slug[parent[i]]) =>
                   Follow(db, A!Moved(db, i, old, new, at))
<1> DEFINE clash == \E j \in A!Scope(i) \ {i} : db.slug[j] = new
           refused == [db EXCEPT !.ok = FALSE]
           s == [db.slug EXCEPT ![i] = new]
           l == [j \in A!Item |->
                  IF i \in Communities
                  THEN IF db.link[j][1] = old THEN <<new, db.link[j][2]>> ELSE db.link[j]
                  ELSE IF db.link[j] = <<at, old>> THEN <<at, new>> ELSE db.link[j]]
           m == [ok |-> TRUE, slug |-> s, link |-> l]
<1>1. A!Moved(db, i, old, new, at) = IF ~db.ok \/ clash THEN refused ELSE m
  BY DEF A!Moved
<1>2. refused \in Db /\ ~refused.ok /\ refused.slug = db.slug
  BY DEF Db
<1>3. /\ A!Item = Communities \cup Subgroups /\ Communities \cap Subgroups = {}
      /\ Length \subseteq Nat /\ 0 \notin Length /\ 0 \in Nat
  BY FeedsAssumption DEF A!Item, Length
<1>4. db.slug \in [A!Item -> Length] /\ db.link \in [A!Item -> Nat \X Nat] /\ db.ok \in BOOLEAN
  BY DEF Db
<1>5. s \in [A!Item -> Length] /\ s[i] = new /\ \A x \in A!Item : x # i => s[x] = db.slug[x]
  BY <1>4
<1>6. l \in [A!Item -> Nat \X Nat]
  <2> SUFFICES ASSUME NEW j \in A!Item PROVE l[j] \in Nat \X Nat
    OBVIOUS
  <2>1. db.link[j] \in Nat \X Nat
    BY <1>4
  <2>2. new \in Nat
    BY <1>3
  <2> QED BY <2>1, <2>2
<1>7. m \in Db /\ m.ok /\ m.slug = s /\ m.link = l
  BY <1>5, <1>6 DEF Db
<1> HIDE DEF s, m, refused
<1>8. ASSUME ~clash PROVE Apart(s)
  <2> SUFFICES ASSUME NEW x \in A!Item, NEW y \in A!Scope(x) \ {x} PROVE s[y] # s[x]
    BY DEF Apart
  <2>1. y \in A!Item /\ (y = i => x \in A!Scope(i) \ {i})
    BY <1>3 DEF A!Scope
  <2>2. db.slug[y] # db.slug[x]
    BY DEF Apart
  <2>3. CASE x = i
    BY <1>5, <1>8, <2>1, <2>3
  <2>4. CASE y = i
    BY <1>5, <1>8, <2>1, <2>4
  <2>5. CASE x # i /\ y # i
    BY <1>5, <2>1, <2>2, <2>5
  <2> QED BY <2>3, <2>4, <2>5
<1>9. ASSUME old = db.slug[i], i \in Subgroups => at = db.slug[parent[i]],
             NEW x \in A!Item, db.link[x] = Place(db.slug, x)
      PROVE  l[x] = Place(s, x)
  <2>1. CASE i \in Communities
    <3>1. i \notin Subgroups
      BY <1>3, <2>1
    <3>2. l[x] = IF db.link[x][1] = old THEN <<new, db.link[x][2]>> ELSE db.link[x]
      BY <2>1
    <3>3. ASSUME NEW c \in Communities, db.slug[c] = old PROVE c = i
      <4>1. c # i => c \in A!Scope(i) \ {i}
        BY <2>1 DEF A!Scope
      <4> QED BY <1>9, <3>3, <4>1 DEF Apart
    <3>4. CASE x \in Communities
      <4>1. db.link[x] = <<db.slug[x], 0>> /\ Place(s, x) = <<s[x], 0>>
        BY <1>9, <3>4 DEF Place
      <4>2. CASE x = i
        BY <1>5, <1>9, <3>2, <4>1, <4>2
      <4>3. CASE x # i
        BY <1>5, <3>2, <3>3, <3>4, <4>1, <4>3
      <4> QED BY <4>2, <4>3
    <3>5. CASE x \notin Communities
      <4>1. x \in Subgroups /\ parent[x] \in Communities /\ parent[x] \in A!Item /\ x # i
        BY <1>3, <2>1, <3>5
      <4>2. db.link[x] = <<db.slug[parent[x]], db.slug[x]>> /\ Place(s, x) = <<s[parent[x]], db.slug[x]>>
        BY <1>5, <1>9, <3>5, <4>1 DEF Place
      <4>3. CASE parent[x] = i
        BY <1>5, <1>9, <3>2, <4>2, <4>3
      <4>4. CASE parent[x] # i
        BY <1>5, <3>2, <3>3, <4>1, <4>2, <4>4
      <4> QED BY <4>3, <4>4
    <3> QED BY <3>4, <3>5
  <2>2. CASE i \notin Communities
    <3>1. i \in Subgroups /\ parent[i] \in Communities /\ parent[i] \in A!Item /\ parent[i] # i
      BY <1>3, <2>2
    <3>2. l[x] = IF db.link[x] = <<at, old>> THEN <<at, new>> ELSE db.link[x]
      BY <2>2
    <3>3. at = db.slug[parent[i]] /\ old = db.slug[i] /\ old # 0
      BY <1>3, <1>4, <1>9, <3>1
    <3>4. CASE x \in Communities
      <4>1. db.link[x] = <<db.slug[x], 0>> /\ Place(s, x) = <<db.slug[x], 0>>
        BY <1>5, <1>9, <2>2, <3>4 DEF Place
      <4> QED BY <3>2, <3>3, <4>1
    <3>5. CASE x \notin Communities
      <4>1. x \in Subgroups /\ parent[x] \in Communities /\ parent[x] \in A!Item
        BY <1>3, <3>5
      <4>2. db.link[x] = <<db.slug[parent[x]], db.slug[x]>> /\ Place(s, x) = <<db.slug[parent[x]], s[x]>>
        BY <1>3, <1>5, <1>9, <2>2, <3>5, <4>1 DEF Place
      <4>3. CASE x = i
        BY <1>5, <3>2, <3>3, <4>2, <4>3
      <4>4. CASE x # i
        <5>1. ASSUME db.slug[parent[x]] = at, db.slug[x] = old PROVE FALSE
          <6>1. parent[x] # parent[i] => parent[x] \in A!Scope(parent[i]) \ {parent[i]}
            BY <3>1, <4>1 DEF A!Scope
          <6>2. parent[x] = parent[i]
            BY <3>1, <3>3, <5>1, <6>1 DEF Apart
          <6>3. x \in A!Scope(i) \ {i}
            BY <2>2, <4>1, <4>4, <6>2 DEF A!Scope
          <6> QED BY <3>3, <5>1, <6>3 DEF Apart
        <5>2. db.link[x] # <<at, old>>
          BY <4>2, <5>1
        <5> QED BY <1>5, <3>2, <4>2, <4>4, <5>2
      <4> QED BY <4>3, <4>4
    <3> QED BY <3>4, <3>5
  <2> QED BY <2>1, <2>2
<1> HIDE DEF l, clash
<1>10. A!Moved(db, i, old, new, at) \in Db
  BY <1>1, <1>2, <1>7
<1>11. A!Moved(db, i, old, new, at).ok => db.ok /\ ~clash /\ A!Moved(db, i, old, new, at) = m
  BY <1>1, <1>2, <1>4
<1>12. s = [db.slug EXCEPT ![i] = new]
  BY DEF s
<1>13. Apart(A!Moved(db, i, old, new, at).slug)
  BY <1>1, <1>2, <1>4, <1>7, <1>8
<1>14. A!Moved(db, i, old, new, at).ok /\ old = db.slug[i] /\ (i \in Subgroups => at = db.slug[parent[i]])
         => Follow(db, A!Moved(db, i, old, new, at))
  BY <1>7, <1>9, <1>11 DEF Follow
<1> QED BY <1>7, <1>10, <1>11, <1>12, <1>13, <1>14

\* A set with 0 and the successors of its members has every natural number.
LEMMA Numbers ==
  ASSUME NEW T, 0 \in T, \A n \in Nat : n \in T => n + 1 \in T
  PROVE  Nat \subseteq T
<1> SUFFICES ASSUME Nat \ T # {} PROVE FALSE
  OBVIOUS
<1>1. PICK n \in Nat \ T : \A m \in Nat \ T : ~(<<m, n>> \in OpToRel(<, Nat))
  BY NatLessThanWellFounded, WFMin
<1>2. \A m \in Nat : m < n => m \in T
  BY <1>1 DEF OpToRel
<1>3. n \in Nat /\ n # 0
  OBVIOUS
<1>4. n - 1 \in Nat /\ n - 1 < n /\ (n - 1) + 1 = n
  BY <1>3
<1> QED BY <1>2, <1>4

\* Of some changes one comes last.
LEMMA OneComesLast ==
  ASSUME NEW p, PlanOk(p), NEW Z, Z \subseteq p.ids, Z # {}
  PROVE  \E i \in Z : \A j \in Z \ {i} : A!Sooner(p, j, i)
<1> DEFINE n == Cardinality(A!Item)
           rank(i) == IF i \in Communities THEN p.order[i] ELSE n + p.order[i]
           D == {n + n - rank(i) : i \in Z}
<1>1. n \in Nat
  <2>1. IsFiniteSet(A!Item)
    BY FeedsAssumption, FS_Union DEF A!Item
  <2> QED BY <2>1, FS_CardinalityType
<1>2. p.order \in [A!Item -> 1 .. n] /\ \A i, j \in A!Item : i # j => p.order[i] # p.order[j]
  BY CountedInA DEF PlanOk, A!Orders
<1>3. Z \subseteq A!Item /\ A!Item = Communities \cup Subgroups /\ Communities \cap Subgroups = {}
  BY FeedsAssumption DEF PlanOk, A!Item
<1> HIDE DEF n
<1>4. \A i \in Z : rank(i) \in Nat /\ n + n - rank(i) \in Nat
  <2> TAKE i \in Z
  <2>1. p.order[i] \in 1 .. n
    BY <1>2, <1>3
  <2> QED BY <1>1, <2>1
<1>5. D \subseteq Nat /\ D # {}
  BY <1>4
<1>6. PICK d \in D : \A e \in D : ~(<<e, d>> \in OpToRel(<, Nat))
  BY <1>5, NatLessThanWellFounded, WFMin
<1>7. PICK i \in Z : d = n + n - rank(i)
  OBVIOUS
<1>8. ASSUME NEW j \in Z \ {i} PROVE A!Sooner(p, j, i)
  <2>1. n + n - rank(j) \in D /\ n + n - rank(j) \in Nat /\ d \in Nat
    BY <1>4, <1>5
  <2>2. ~(n + n - rank(j) < d)
    BY <1>6, <2>1 DEF OpToRel
  <2>3. rank(j) <= rank(i)
    BY <1>1, <1>4, <1>7, <2>2
  <2>4. p.order[i] \in 1 .. n /\ p.order[j] \in 1 .. n /\ p.order[i] # p.order[j]
    BY <1>2, <1>3
  <2>5. CASE i \in Communities /\ j \in Communities
    BY <2>3, <2>4, <2>5 DEF A!Sooner
  <2>6. CASE i \in Communities /\ j \notin Communities
    BY <1>1, <2>3, <2>4, <2>6
  <2>7. CASE i \notin Communities /\ j \in Communities
    BY <1>3, <2>7 DEF A!Sooner
  <2>8. CASE i \notin Communities /\ j \notin Communities
    BY <1>1, <2>3, <2>4, <2>8 DEF A!Sooner
  <2> QED BY <2>5, <2>6, <2>7, <2>8
<1> QED BY <1>8

\* The change that comes last, and the row and entries after the changes of Z when fn tells
\* those after fewer.
LastOf(p, Z) == CHOOSE i \in Z : \A j \in Z \ {i} : A!Sooner(p, j, i)
After(p, fn, Z) ==
    IF Z = {} THEN Present
    ELSE A!Moved(fn[Z \ {LastOf(p, Z)}], LastOf(p, Z), p.changes[LastOf(p, Z)].old, p.changes[LastOf(p, Z)].new,
                 IF LastOf(p, Z) \in Subgroups THEN A!ParentSlug(p, LastOf(p, Z)) ELSE 0)

\* What the transaction knows of the address of the community of the last change.
LEMMA LastIs ==
  ASSUME AddressInv, NEW p, PlanOk(p), NEW Z \in SUBSET p.ids, Z # {}
  PROVE  /\ LastOf(p, Z) \in Z /\ LastOf(p, Z) \in A!Item
         /\ \A j \in Z \ {LastOf(p, Z)} : A!Sooner(p, j, LastOf(p, Z))
         /\ p.changes[LastOf(p, Z)].new \in Length
         /\ (IF LastOf(p, Z) \in Subgroups THEN A!ParentSlug(p, LastOf(p, Z)) ELSE 0) \in Nat
<1>1. LastOf(p, Z) \in Z /\ \A j \in Z \ {LastOf(p, Z)} : A!Sooner(p, j, LastOf(p, Z))
  BY OneComesLast DEF LastOf
<1>2. p.changes[LastOf(p, Z)].new \in Length /\ LastOf(p, Z) \in A!Item
  BY <1>1 DEF PlanOk
<1>3. Length \subseteq Nat
  BY DEF Length
<1>4. ASSUME NEW i \in Subgroups PROVE A!ParentSlug(p, i) \in Nat
  <2>1. parent[i] \in A!Item
    BY DEF AddressInv, A!Item
  <2>2. p.read[parent[i]] \in Length
    BY <2>1 DEF PlanOk
  <2>3. parent[i] \in p.ids => p.changes[parent[i]].new \in Length
    BY DEF PlanOk
  <2> QED BY <1>3, <2>2, <2>3 DEF A!ParentSlug
<1> QED BY <1>1, <1>2, <1>4

\* The transaction applies one change after the other.
LEMMA AppliedIs ==
  ASSUME AddressInv, NEW p, PlanOk(p)
  PROVE  \E fn : fn[p.ids] = A!Applied(p) /\ \A Z \in SUBSET p.ids : fn[Z] = After(p, fn, Z)
<1> DEFINE Row(fn) == [Z \in SUBSET p.ids |-> After(p, fn, Z)]
           Good(fn, k) == /\ fn = [Z \in SUBSET p.ids |-> fn[Z]]
                         /\ \A Z \in SUBSET p.ids : Cardinality(Z) <= k => fn[Z] = After(p, fn, Z)
           db == CHOOSE fn : fn = Row(fn)
<1>1. A!Applied(p) = db[p.ids]
  BY DEF A!Applied, After, LastOf, Present
<1>3. \A Z \in SUBSET p.ids : IsFiniteSet(Z) /\ Cardinality(Z) \in Nat
  <2>1. IsFiniteSet(A!Item)
    BY FeedsAssumption, FS_Union DEF A!Item
  <2> QED BY <2>1, FS_Subset, FS_CardinalityType DEF PlanOk
<1>4. \A k \in Nat : \E fn : Good(fn, k)
  <2> DEFINE T == {k \in Nat : \E fn : Good(fn, k)}
  <2>1. 0 \in T
    <3> DEFINE fn == [Z \in SUBSET p.ids |-> Present]
    <3>1. ASSUME NEW Z \in SUBSET p.ids, Cardinality(Z) <= 0 PROVE fn[Z] = After(p, fn, Z)
      <4>1. Z = {}
        BY <1>3, <3>1, FS_EmptySet
      <4> QED BY <4>1 DEF After
    <3>2. fn = [Z \in SUBSET p.ids |-> fn[Z]]
      OBVIOUS
    <3>3. Good(fn, 0)
      BY <3>1, <3>2
    <3> QED BY <3>3
  <2>2. ASSUME NEW k \in Nat, k \in T PROVE k + 1 \in T
    <3>1. PICK fn : Good(fn, k)
      BY <2>2
    <3> DEFINE g == Row(fn)
    <3>3. g = [Z \in SUBSET p.ids |-> g[Z]]
      OBVIOUS
    <3>4. ASSUME NEW Z \in SUBSET p.ids, Cardinality(Z) <= k + 1 PROVE g[Z] = After(p, g, Z)
      <4>1. CASE Z = {}
        BY <4>1 DEF After
      <4>2. CASE Z # {}
        <5> DEFINE Y == Z \ {LastOf(p, Z)}
        <5>1. Cardinality(Y) <= k /\ Y \in SUBSET p.ids
          <6>1. LastOf(p, Z) \in Z
            BY <4>2, LastIs
          <6>2. Cardinality(Y) = Cardinality(Z) - 1
            BY <1>3, <6>1, FS_RemoveElement
          <6> QED BY <1>3, <3>4, <6>2
        <5>2. g[Y] = fn[Y]
          <6>1. g[Y] = After(p, fn, Y)
            BY <5>1
          <6>2. fn[Y] = After(p, fn, Y)
            BY <3>1, <5>1
          <6> QED BY <6>1, <6>2
        <5>3. g[Z] = After(p, fn, Z)
          OBVIOUS
        <5> HIDE DEF g
        <5> QED BY <4>2, <5>2, <5>3 DEF After
      <4> QED BY <4>1, <4>2
    <3>5. Good(g, k + 1)
      BY <3>3, <3>4
    <3> HIDE DEF Good
    <3> QED BY <3>5
  <2> HIDE DEF T
  <2>3. Nat \subseteq T
    BY <2>1, <2>2, Numbers
  <2> QED BY <2>3 DEF T
<1>5. PICK fn : Good(fn, Cardinality(p.ids))
  BY <1>3, <1>4
<1>6. \A Z \in SUBSET p.ids : Cardinality(Z) <= Cardinality(p.ids)
  BY <1>3, FS_Subset
<1>7. fn = Row(fn)
  BY <1>5, <1>6
<1>8. db = Row(db)
  <2> HIDE DEF Row
  <2> QED BY <1>7
<1>9. \A Z \in SUBSET p.ids : db[Z] = After(p, db, Z)
  <2> HIDE DEF db
  <2> QED BY <1>8
<1> QED BY <1>1, <1>9

\* The changes of Z are those that come first.
First(p, Z) == \A i \in Z, j \in p.ids : A!Sooner(p, j, i) => j \in Z

\* After the changes of Z: the addresses are free, and when the plan still told the truth
\* the entries lead where they did.
Done(p, Z, db) ==
    /\ db \in Db /\ Apart(db.slug)
    /\ db.ok =>
         /\ \A x \in A!Item : db.slug[x] = IF x \in Z THEN p.changes[x].new ELSE slug[x]
         /\ p.read = slug /\ First(p, Z) =>
              \A x \in A!Item : link[x] = Place(slug, x) => db.link[x] = Place(db.slug, x)

LEMMA OneMore ==
  ASSUME AddressInv, NEW p, PlanOk(p), NEW Z \in SUBSET p.ids, Z # {}, NEW fn,
         fn[Z] = After(p, fn, Z), Done(p, Z \ {LastOf(p, Z)}, fn[Z \ {LastOf(p, Z)}])
  PROVE  Done(p, Z, fn[Z])
<1> DEFINE i == LastOf(p, Z)
           Y == Z \ {i}
           old == p.changes[i].old
           new == p.changes[i].new
           at == IF i \in Subgroups THEN A!ParentSlug(p, i) ELSE 0
           db == fn[Y]
           m == A!Moved(db, i, old, new, at)
<1>1. i \in Z /\ i \in A!Item /\ new \in Length /\ at \in Nat /\ \A j \in Y : A!Sooner(p, j, i)
  BY LastIs
<1>2. fn[Z] = m
  BY DEF After
<1>3. db \in Db /\ Apart(db.slug)
  BY DEF Done
<1>4. db.ok => \A x \in A!Item : db.slug[x] = IF x \in Y THEN p.changes[x].new ELSE slug[x]
  BY DEF Done
<1>5. db.ok /\ p.read = slug /\ First(p, Y) =>
         \A x \in A!Item : link[x] = Place(slug, x) => db.link[x] = Place(db.slug, x)
  BY DEF Done
<1>6. old = p.read[i] /\ parent \in [Subgroups -> Communities]
  BY <1>1 DEF PlanOk, AddressInv
<1>7. ASSUME db.ok, p.read = slug PROVE old = db.slug[i]
  BY <1>1, <1>4, <1>6, <1>7
<1>8. ASSUME db.ok, p.read = slug, First(p, Z), i \in Subgroups PROVE at = db.slug[parent[i]]
  <2>1. parent[i] \in Communities /\ parent[i] \in A!Item /\ parent[i] # i /\ i \notin Communities
    BY <1>6, <1>8, FeedsAssumption DEF A!Item
  <2>2. A!Sooner(p, parent[i], i)
    BY <1>8, <2>1 DEF A!Sooner
  <2>3. parent[i] \in p.ids <=> parent[i] \in Y
    BY <1>1, <1>8, <2>1, <2>2 DEF First
  <2> QED BY <1>4, <1>8, <2>1, <2>2, <2>3 DEF A!ParentSlug
<1>9. ASSUME First(p, Z) PROVE First(p, Y)
  <2> SUFFICES ASSUME NEW a \in Y, NEW b \in p.ids, A!Sooner(p, b, a) PROVE b \in Y
    BY DEF First
  <2>1. b \in Z
    BY <1>9 DEF First
  <2>2. b # i
    <3>1. A!Sooner(p, a, i) /\ a \in A!Item
      BY <1>1 DEF PlanOk
    <3>2. p.order[a] \in Nat /\ p.order[i] \in Nat
      <4>1. \A n : 1 .. n \subseteq Nat
        OBVIOUS
      <4> QED BY <1>1, <3>1, <4>1 DEF PlanOk, A!Orders
    <3>3. Communities \cap Subgroups = {}
      BY FeedsAssumption
    <3> QED BY <3>1, <3>2, <3>3 DEF A!Sooner
  <2> QED BY <2>1, <2>2
<1> HIDE DEF i, old, new, at, db
<1>10. /\ m \in Db /\ Apart(m.slug)
       /\ m.ok => /\ db.ok /\ m.slug = [db.slug EXCEPT ![i] = new]
                  /\ old = db.slug[i] /\ (i \in Subgroups => at = db.slug[parent[i]]) => Follow(db, m)
  BY <1>1, <1>3, <1>6, MovedOn
<1> HIDE DEF m
<1>11. ASSUME m.ok, NEW x \in A!Item PROVE m.slug[x] = IF x \in Z THEN p.changes[x].new ELSE slug[x]
  <2>1. db.slug \in [A!Item -> Length]
    BY <1>3 DEF Db
  <2>2. CASE x = i
    BY <1>1, <1>10, <1>11, <2>1, <2>2 DEF new
  <2>3. CASE x # i
    BY <1>1, <1>4, <1>10, <1>11, <2>1, <2>3
  <2> QED BY <2>2, <2>3
<1>12. ASSUME m.ok, p.read = slug, First(p, Z), NEW x \in A!Item, link[x] = Place(slug, x)
       PROVE  m.link[x] = Place(m.slug, x)
  <2>1. db.ok /\ Follow(db, m)
    BY <1>7, <1>8, <1>10, <1>12
  <2>2. db.link[x] = Place(db.slug, x)
    BY <1>5, <1>9, <1>12, <2>1
  <2> QED BY <2>1, <2>2 DEF Follow
<1> QED BY <1>2, <1>10, <1>11, <1>12 DEF Done

LEMMA AppliedKeeps ==
  ASSUME AddressInv, NEW p, PlanOk(p)
  PROVE  Done(p, p.ids, A!Applied(p)) /\ First(p, p.ids)
<1>1. PICK fn : fn[p.ids] = A!Applied(p) /\ \A Z \in SUBSET p.ids : fn[Z] = After(p, fn, Z)
  BY AppliedIs
<1>2. \A Z \in SUBSET p.ids : IsFiniteSet(Z) /\ Cardinality(Z) \in Nat
  <2>1. IsFiniteSet(A!Item)
    BY FeedsAssumption, FS_Union DEF A!Item
  <2> QED BY <2>1, FS_Subset, FS_CardinalityType DEF PlanOk
<1>3. Done(p, {}, fn[{}])
  <2>1. fn[{}] = Present
    BY <1>1 DEF After
  <2>2. Present \in Db /\ Present.ok /\ Present.slug = slug /\ Present.link = link
    BY DEF Present, Db, AddressInv
  <2> QED BY <2>1, <2>2 DEF Done, AddressInv
<1> DEFINE T == {k \in Nat : \A Z \in SUBSET p.ids : Cardinality(Z) <= k => Done(p, Z, fn[Z])}
<1>4. 0 \in T
  <2>1. ASSUME NEW Z \in SUBSET p.ids, Cardinality(Z) <= 0 PROVE Z = {}
    BY <1>2, <2>1, FS_EmptySet
  <2> QED BY <1>3, <2>1
<1>5. ASSUME NEW k \in Nat, k \in T PROVE k + 1 \in T
  <2> SUFFICES ASSUME NEW Z \in SUBSET p.ids, Cardinality(Z) <= k + 1 PROVE Done(p, Z, fn[Z])
    OBVIOUS
  <2>1. CASE Z = {}
    BY <1>3, <2>1
  <2>2. CASE Z # {}
    <3>1. LastOf(p, Z) \in Z
      BY <2>2, LastIs
    <3>2. Cardinality(Z \ {LastOf(p, Z)}) <= k /\ Z \ {LastOf(p, Z)} \in SUBSET p.ids
      <4>1. Cardinality(Z \ {LastOf(p, Z)}) = Cardinality(Z) - 1
        BY <1>2, <3>1, FS_RemoveElement
      <4> QED BY <1>2, <4>1
    <3>3. Done(p, Z \ {LastOf(p, Z)}, fn[Z \ {LastOf(p, Z)}])
      BY <1>5, <3>2
    <3> QED BY <1>1, <2>2, <3>3, OneMore
  <2> QED BY <2>1, <2>2
<1> HIDE DEF T
<1>6. Nat \subseteq T
  BY <1>4, <1>5, Numbers
<1>7. Done(p, p.ids, fn[p.ids])
  BY <1>2, <1>6 DEF T
<1> QED BY <1>1, <1>7 DEF First

LEMMA AddressBegins == A!Init => AddressInv
<1> SUFFICES ASSUME A!Init PROVE AddressInv
  OBVIOUS
<1>1. parent \in [Subgroups -> Communities] /\ slug \in [A!Item -> Length] /\ Apart(slug)
      /\ renaming = nil /\ plan = nil /\ link = [i \in A!Item |-> A!Address(i)]
  BY DEF A!Init, Length, Apart
<1>2. ASSUME NEW i \in A!Item PROVE A!Address(i) \in Nat \X Nat
  <2>1. Length \subseteq Nat /\ 0 \in Nat /\ slug[i] \in Length
    BY <1>1 DEF Length
  <2>2. i \notin Communities => parent[i] \in A!Item
    BY <1>1 DEF A!Item
  <2>3. i \notin Communities => slug[parent[i]] \in Length
    BY <1>1, <2>2
  <2> QED BY <2>1, <2>3 DEF A!Address
<1> QED BY <1>1, <1>2 DEF AddressInv

\* What does not change an address.
LEMMA AddressesStay ==
  ASSUME AddressInv, UNCHANGED <<slug, link, parent>>,
         renaming' # nil => renaming' = renaming \/ (renaming'.community \in Communities /\ renaming'.new \in Length),
         plan' # nil => plan' = plan \/ PlanOk(plan')
  PROVE  AddressInv' /\ A!LinksFollow
<1>1. AddressInv'
  <2>1. Apart(slug)'
    BY DEF Apart, A!Scope, AddressInv
  <2>2. plan' # nil => PlanOk(plan')
    BY DEF AddressInv
  <2>3. plan' # nil => PlanOk(plan)'
    BY <2>2 DEF PlanOk
  <2> QED BY <2>1, <2>3 DEF AddressInv
<1>2. \A i : A!Leads(i)' <=> A!Leads(i)
  BY DEF A!Leads, A!Address
<1> QED BY <1>1, <1>2 DEF A!LinksFollow

LEMMA Planning ==
  ASSUME AddressInv, NEW order \in A!Orders, A!ReadPlan(order)
  PROVE  AddressInv' /\ A!LinksFollow
<1> DEFINE changes == A!PlanSlugReplace(waits.form, order)
           ids == waits.ids \cap DOMAIN changes
           new == [changes |-> changes, ids |-> ids, order |-> order, read |-> slug]
<1>1. UNCHANGED <<parent, renaming, slug, link>> /\ (plan' = nil \/ (plan' = new /\ ~\E i \in ids : changes[i].problem))
  BY DEF A!ReadPlan, A!Fails
<1>2. ASSUME ~\E i \in ids : changes[i].problem PROVE PlanOk(new)
  <2>1. DOMAIN changes \subseteq A!Item
    BY DEF A!PlanSlugReplace, A!Changed
  <2>2. ASSUME NEW i \in ids PROVE changes[i].old = slug[i] /\ changes[i].new \in Length
    <3>1. i \in A!Changed(waits.form) /\ i \in DOMAIN changes
      BY DEF A!PlanSlugReplace
    <3>2. changes[i] = [old |-> slug[i], new |-> A!Replaced(slug[i], waits.form),
                        problem |-> A!Problem(i, waits.form, order)]
      BY <3>1 DEF A!PlanSlugReplace
    <3>3. ~A!Problem(i, waits.form, order)
      BY <1>2, <3>2
    <3>4. A!Replaced(slug[i], waits.form) \in Length
      BY <3>3 DEF A!Problem, Length
    <3> QED BY <3>2, <3>4
  <2>3. slug \in [A!Item -> Length]
    BY DEF AddressInv
  <2> QED BY <2>1, <2>2, <2>3 DEF PlanOk
<1> HIDE DEF new
<1> QED BY <1>1, <1>2, AddressesStay

\* The transaction of the admins' tool.
LEMMA Applying ==
  ASSUME AddressInv, A!ApplyPlan
  PROVE  AddressInv' /\ A!LinksFollow
<1>1. CASE ~A!Applied(plan).ok
  <2>1. UNCHANGED <<slug, link, parent, renaming>> /\ plan' = nil
    BY <1>1 DEF A!ApplyPlan, A!Fails
  <2> QED BY <2>1, AddressesStay
<1>2. CASE A!Applied(plan).ok
  <2> DEFINE db == A!Applied(plan)
  <2>1. slug' = db.slug /\ link' = db.link /\ plan' = nil /\ parent' = parent /\ renaming' = renaming
    BY <1>2 DEF A!ApplyPlan
  <2>2. PlanOk(plan)
    BY DEF A!ApplyPlan, AddressInv
  <2>3. Done(plan, plan.ids, db) /\ First(plan, plan.ids)
    BY <2>2, AppliedKeeps
  <2> HIDE DEF db
  <2>4. db.slug \in [A!Item -> Length] /\ db.link \in [A!Item -> Nat \X Nat] /\ Apart(db.slug)
    BY <2>3 DEF Done, Db
  <2>5. AddressInv'
    <3>1. Apart(slug)'
      BY <2>1, <2>4 DEF Apart, A!Scope
    <3> QED BY <2>1, <2>4, <3>1 DEF AddressInv
  <2>6. ASSUME NEW i \in A!Item, A!Leads(i), plan.read = slug PROVE A!Leads(i)'
    <3>1. link[i] = Place(slug, i)
      BY <2>6 DEF A!Leads, A!Address, Place
    <3>2. db.ok
      BY <1>2 DEF db
    <3>3. db.link[i] = Place(db.slug, i)
      BY <2>3, <2>6, <3>1, <3>2 DEF Done
    <3> QED BY <2>1, <3>3 DEF A!Leads, A!Address, Place
  <2> QED BY <2>5, <2>6 DEF A!LinksFollow
<1> QED BY <1>1, <1>2

LEMMA Renaming ==
  ASSUME AddressInv, A!Rename
  PROVE  AddressInv' /\ A!LinksFollow
<1> DEFINE c == renaming.community
           m == A!Moved(Present, c, renaming.old, renaming.new, 0)
<1>1. c \in Communities /\ c \in A!Item /\ renaming.new \in Length /\ 0 \in Nat /\ c \notin Subgroups
  BY FeedsAssumption DEF A!Rename, AddressInv, A!Item
<1>2. Present \in Db /\ Present.slug = slug /\ Present.link = link /\ Apart(Present.slug) /\ parent \in [Subgroups -> Communities]
  BY DEF Present, Db, AddressInv
<1>3. /\ m \in Db /\ Apart(m.slug)
      /\ m.ok => (renaming.old = slug[c] => Follow(Present, m))
  <2>1. /\ m \in Db /\ Apart(m.slug)
        /\ m.ok => (renaming.old = Present.slug[c] /\ (c \in Subgroups => 0 = Present.slug[parent[c]]) => Follow(Present, m))
    BY <1>1, <1>2, MovedOn
  <2> QED BY <1>1, <1>2, <2>1
<1>4. renaming' = nil /\ parent' = parent /\ plan' = plan
      /\ IF m.ok THEN slug' = m.slug /\ link' = m.link ELSE UNCHANGED <<slug, link>>
  BY DEF A!Rename, Present, A!dbVars
<1> HIDE DEF m, Present
<1>5. CASE ~m.ok
  BY <1>4, <1>5, AddressesStay
<1>6. CASE m.ok
  <2>1. slug' = m.slug /\ link' = m.link
    BY <1>4, <1>6
  <2>2. m.slug \in [A!Item -> Length] /\ m.link \in [A!Item -> Nat \X Nat]
    BY <1>3 DEF Db
  <2>3. AddressInv'
    <3>1. Apart(slug)'
      BY <1>3, <1>4, <2>1 DEF Apart, A!Scope
    <3>2. plan # nil => PlanOk(plan)'
      BY <1>4 DEF AddressInv, PlanOk
    <3> QED BY <1>2, <1>4, <2>1, <2>2, <3>1, <3>2 DEF AddressInv
  <2>4. ASSUME NEW i \in A!Item, A!Leads(i), renaming.old = slug[c] PROVE A!Leads(i)'
    <3>1. Present.link[i] = Place(Present.slug, i)
      BY <1>2, <2>4 DEF A!Leads, A!Address, Place
    <3>2. m.link[i] = Place(m.slug, i)
      BY <1>3, <1>6, <2>4, <3>1 DEF Follow
    <3> QED BY <1>4, <2>1, <3>2 DEF A!Leads, A!Address, Place
  <2> QED BY <2>3, <2>4 DEF A!LinksFollow
<1> QED BY <1>5, <1>6

LEMMA AddressStep == AddressInv /\ [A!Next]_addressVars => AddressInv' /\ A!LinksFollow
<1> SUFFICES ASSUME AddressInv, [A!Next]_addressVars PROVE AddressInv' /\ A!LinksFollow
  OBVIOUS
<1>1. ASSUME \/ UNCHANGED addressVars
             \/ \E x \in Forms : A!EditForm(x)
             \/ A!Preview \/ A!Apply
             \/ \E i \in A!Item : A!Toggle(i)
             \/ \E order \in A!Orders : A!AnswerPreview(order)
      PROVE  AddressInv' /\ A!LinksFollow
  <2>1. UNCHANGED <<slug, link, parent, renaming, plan>>
    BY <1>1 DEF addressVars, A!EditForm, A!Preview, A!Apply, A!Toggle, A!AnswerPreview
  <2> QED BY <2>1, AddressesStay
<1>2. ASSUME NEW c \in Communities, NEW n \in 1 .. MaxLength, A!BeginRename(c, n)
      PROVE  AddressInv' /\ A!LinksFollow
  <2>1. UNCHANGED <<slug, link, parent, plan>> /\ renaming'.community = c /\ renaming'.new = n
    BY <1>2 DEF A!BeginRename
  <2> QED BY <2>1, AddressesStay DEF Length
<1> QED BY <1>1, <1>2, Planning, Applying, Renaming DEF A!Next

\* Entries of the inbox go with their page, when it is deleted, and come to point nowhere
\* only when they are written after.
LEMMA EntriesLead == [W!Next]_feedVars => W!LinksLeadSomewhere
<1> SUFFICES ASSUME [W!Next]_feedVars PROVE W!LinksLeadSomewhere
  OBVIOUS
<1>1. ASSUME NEW e \in W!Dangling' \ W!Dangling,
             inbox' \subseteq inbox \cup {x \in inbox' : x.page = Gone}, live \subseteq live'
      PROVE  FALSE
  BY <1>1 DEF W!Dangling
<1>2. ASSUME inbox' = inbox, live' = live PROVE W!LinksLeadSomewhere
  BY <1>1, <1>2 DEF W!LinksLeadSomewhere
<1>3. ASSUME NEW p \in Writers, W!InsertEntries(p) PROVE W!LinksLeadSomewhere
  <2>1. inbox' = inbox \cup {[to |-> u, page |-> writes[p].page] : u \in writes[p].told} /\ live' = live
    BY <1>3 DEF W!InsertEntries, W!pages
  <2>2. ASSUME NEW e \in W!Dangling' \ W!Dangling PROVE W!InsertEntries(p) /\ e.page = writes[p].page
    BY <1>3, <2>1 DEF W!Dangling
  <2> QED BY <2>1, <2>2 DEF W!LinksLeadSomewhere
<1>4. ASSUME NEW p \in Writers, W!TellMembers(p) PROVE W!LinksLeadSomewhere
  <2>1. inbox' = inbox \cup {W!Notice(u, writes[p].page) : u \in writes[p].told} /\ live' = live
    BY <1>4 DEF W!TellMembers, W!pages
  <2>2. \A u, g : W!Notice(u, g).page = Gone
    BY DEF W!Notice
  <2> QED BY <1>1, <2>1, <2>2 DEF W!LinksLeadSomewhere
<1>5. ASSUME NEW p \in Writers, W!DeleteRows(p) PROVE W!LinksLeadSomewhere
  <2> DEFINE g == writes[p].page
             gone == IF g = 0 THEN live ELSE {g}
  <2>1. live' = live \ gone /\ inbox' = inbox \ W!Pointing(g)
    BY <1>5 DEF W!DeleteRows, W!Community
  <2>2. \A e \in inbox : e.page = Gone => e \in inbox'
    BY <2>1 DEF W!Pointing
  <2>3. ASSUME NEW e \in W!Dangling' \ W!Dangling PROVE FALSE
    <3>1. e \in inbox /\ e \notin W!Pointing(g) /\ e.page # Gone /\ e.page \in gone
      BY <2>1, <2>3 DEF W!Dangling
    <3> QED BY <3>1 DEF W!Pointing, W!Community
  <2> QED BY <2>2, <2>3 DEF W!LinksLeadSomewhere
<1>6. ASSUME NEW u \in User, W!CreateSubgroup(u) PROVE W!LinksLeadSomewhere
  <2>1. inbox' = inbox /\ live \subseteq live'
    BY <1>6 DEF W!CreateSubgroup
  <2> QED BY <1>1, <2>1 DEF W!LinksLeadSomewhere
<1>7. ASSUME \/ UNCHANGED feedVars
             \/ \E r \in DOMAIN reports : W!Resolve(r)
             \/ \E u \in User : W!MembershipChanges(u)
             \/ W!Suspension
      PROVE  W!LinksLeadSomewhere
  <2>1. inbox' = inbox /\ live' = live
    BY <1>7 DEF feedVars, W!Resolve, W!MembershipChanges, W!Suspension, W!pages
  <2> QED BY <1>2, <2>1
<1>8. ASSUME NEW p \in Writers,
             \/ \E u \in User, g \in W!Page : W!BeginCreate(p, u, g)
             \/ \E u \in User, i \in DOMAIN posts : W!BeginAddComment(p, u, i) \/ W!BeginRemove(p, u, i)
             \/ \E u \in User, c \in DOMAIN comments : W!BeginRemoveComment(p, u, c)
             \/ \E u \in User, t \in W!Target : W!BeginReport(p, u, t)
             \/ \E u \in User \cup {Site} : W!BeginDelete(p, u) \/ \E g \in W!Page : W!BeginDrop(p, u, g)
      PROVE  W!LinksLeadSomewhere
  <2>1. inbox' = inbox /\ live' = live
    BY <1>8 DEF W!BeginCreate, W!BeginAddComment, W!BeginRemove, W!BeginRemoveComment, W!BeginReport,
                W!BeginDelete, W!BeginDrop, W!pages
  <2> QED BY <1>2, <2>1
<1>9. ASSUME NEW p \in Writers, \/ W!Create(p) \/ W!AddComment(p) \/ W!Commenters(p) \/ W!ReadAudience(p)
                                \/ W!Remove(p) \/ W!RemoveComment(p) \/ W!FileReport(p) \/ W!CloseReports(p)
      PROVE  W!LinksLeadSomewhere
  <2>1. inbox' = inbox /\ live' = live
    BY <1>9 DEF W!Create, W!AddComment, W!Commenters, W!ReadAudience, W!Remove, W!RemoveComment,
                W!FileReport, W!CloseReports, W!pages
  <2> QED BY <1>2, <2>1
<1> QED BY <1>3, <1>4, <1>5, <1>6, <1>7, <1>8, <1>9 DEF W!Next

\* Entries go with the page they point at, and follow it to its new address, except when
\* the address had changed since the request read it.
THEOREM EntriesLeadOn == PagesSpec => LinksLeadOn
<1> DEFINE Inv == half = "addresses" => AddressInv
           Follows == (half = "posts" => W!LinksLeadSomewhere) /\ (half = "addresses" => A!LinksFollow)
<1>1. PagesInit => Inv
  BY AddressBegins DEF PagesInit
<1>2. Inv /\ [PagesNext]_all => Inv'
  <2> SUFFICES ASSUME Inv, [PagesNext]_all, half' = "addresses" PROVE AddressInv'
    OBVIOUS
  <2>1. half = "addresses" /\ [A!Next]_addressVars
    BY DEF PagesNext, PostsStep, AddressesStep, all
  <2> QED BY <2>1, AddressStep
<1>3. Inv /\ [PagesNext]_all => [Follows]_all
  <2> SUFFICES ASSUME Inv, [PagesNext]_all PROVE Follows
    OBVIOUS
  <2>1. CASE half = "posts"
    <3>1. [W!Next]_feedVars
      BY <2>1 DEF PagesNext, PostsStep, AddressesStep, all
    <3> QED BY <2>1, <3>1, EntriesLead
  <2>2. CASE half = "addresses"
    <3>1. [A!Next]_addressVars
      BY <2>2 DEF PagesNext, PostsStep, AddressesStep, all
    <3> QED BY <2>2, <3>1, AddressStep
  <2> QED BY <2>1, <2>2
<1> QED BY <1>1, <1>2, <1>3, PTL DEF PagesSpec, LinksLeadOn

-----------------------------------------------------------------------------
(* The types of the feeds and of the addresses.                            *)

\* Who writes has an account, and so have those who are to be told.
Asks(w) ==
    /\ w.step \in {"post", "comment", "report"} => w.by \in User
    /\ w.step \in {"insert", "close", "rows", "notice"} => w.told \subseteq User

RowInv == FeedInv /\ W!TypeOK /\ \A p \in Writers : Asks(writes[p])

LEMMA OthersAsk ==
  ASSUME RowInv, NEW p \in Writers, NEW w, Asks(w),
         writes' = [writes EXCEPT ![p] = w]
  PROVE  (\A q \in Writers : Asks(writes[q]))'
<1> SUFFICES ASSUME NEW q \in Writers PROVE Asks(writes'[q])
  BY DEF Asks
<1>1. writes'[q] = IF q = p THEN w ELSE writes[q]
  BY DEF RowInv, FeedInv
<1> QED BY <1>1 DEF RowInv

LEMMA RowsStay ==
  ASSUME W!TypeOK, UNCHANGED <<live, born, crew, squad, posts, comments, reports, inbox>>
  PROVE  W!TypeOK'
BY DEF W!TypeOK, W!Rows, W!Crew

LEMMA RowsBegin ==
  ASSUME RowInv, NEW p \in Writers,
         \/ \E u \in User, g \in W!Page : W!BeginCreate(p, u, g)
         \/ \E u \in User, i \in DOMAIN posts : W!BeginAddComment(p, u, i) \/ W!BeginRemove(p, u, i)
         \/ \E u \in User, c \in DOMAIN comments : W!BeginRemoveComment(p, u, c)
         \/ \E u \in User, t \in W!Target : W!BeginReport(p, u, t)
         \/ \E u \in User \cup {Site} : W!BeginDelete(p, u) \/ \E g \in W!Page : W!BeginDrop(p, u, g)
  PROVE  W!TypeOK' /\ (\A q \in Writers : Asks(writes[q]))'
<1>1. W!TypeOK'
  <2>1. UNCHANGED <<live, born, crew, squad, posts, comments, reports, inbox>>
    BY DEF W!BeginCreate, W!BeginAddComment, W!BeginRemove, W!BeginRemoveComment, W!BeginReport,
           W!BeginDelete, W!BeginDrop, W!pages, W!feed
  <2> QED BY <2>1, RowsStay DEF RowInv
<1>2. W!Idle \in Write
  BY IdleIs
<1>3. \E w : Asks(w) /\ writes' = [writes EXCEPT ![p] = w]
  <2>1. ASSUME NEW u \in User, NEW g \in W!Page, W!BeginCreate(p, u, g) PROVE <1>3!:
    BY <1>2, <2>1 DEF W!BeginCreate, W!Starts, Write, Asks
  <2>2. ASSUME NEW u \in User, NEW i \in DOMAIN posts, W!BeginAddComment(p, u, i) PROVE <1>3!:
    BY <1>2, <2>2 DEF W!BeginAddComment, W!Starts, Write, Asks
  <2>3. ASSUME NEW u \in User, NEW i \in DOMAIN posts, W!BeginRemove(p, u, i) PROVE <1>3!:
    BY <1>2, <2>3 DEF W!BeginRemove, W!Starts, Write, Asks
  <2>4. ASSUME NEW u \in User, NEW c \in DOMAIN comments, W!BeginRemoveComment(p, u, c) PROVE <1>3!:
    BY <1>2, <2>4 DEF W!BeginRemoveComment, W!Starts, Write, Asks
  <2>5. ASSUME NEW u \in User, NEW t \in W!Target, W!BeginReport(p, u, t) PROVE <1>3!:
    BY <1>2, <2>5 DEF W!BeginReport, W!Starts, Write, Asks
  <2>6. ASSUME NEW u \in User \cup {Site}, W!BeginDelete(p, u) PROVE <1>3!:
    <3>1. W!Crew \ {u} \subseteq User
      BY DEF W!Crew
    <3> QED BY <1>2, <2>6, <3>1 DEF W!BeginDelete, W!Starts, Write, Asks
  <2>7. ASSUME NEW u \in User \cup {Site}, NEW g \in W!Page, W!BeginDrop(p, u, g) PROVE <1>3!:
    <3>1. W!Squad(g) \ {u} \subseteq User
      BY DEF W!Squad
    <3> QED BY <1>2, <2>7, <3>1 DEF W!BeginDrop, W!Starts, Write, Asks
  <2> QED BY <2>1, <2>2, <2>3, <2>4, <2>5, <2>6, <2>7
<1> QED BY <1>1, <1>3, OthersAsk

LEMMA IdleAsks == Asks(W!Idle)
  BY IdleIs DEF Asks

LEMMA RowsTell ==
  ASSUME RowInv, NEW p \in Writers,
         W!Commenters(p) \/ W!ReadAudience(p) \/ W!InsertEntries(p) \/ W!TellMembers(p) \/ W!CloseReports(p)
  PROVE  W!TypeOK' /\ (\A q \in Writers : Asks(writes[q]))'
<1>1. writes[p] \in Write /\ Asks(writes[p])
  BY DEF RowInv, FeedInv
<1>2. W!TypeOK'
  <2>1. CASE W!InsertEntries(p) \/ W!TellMembers(p)
    <3>1. UNCHANGED <<live, born, crew, squad, posts, comments, reports>>
      BY <2>1 DEF W!InsertEntries, W!TellMembers, W!pages, W!feed
    <3>2. writes[p].told \subseteq User /\ writes[p].page \in W!Page
      BY <1>1, <2>1 DEF W!InsertEntries, W!TellMembers, W!At, Asks, Write
    <3>3. inbox' \subseteq [to : User, page : W!Page \cup {Gone}]
      BY <2>1, <3>2 DEF W!InsertEntries, W!TellMembers, W!Notice, RowInv, W!TypeOK
    <3> QED BY <3>1, <3>3 DEF RowInv, W!TypeOK, W!Rows, W!Crew
  <2>2. CASE W!Commenters(p) \/ W!ReadAudience(p) \/ W!CloseReports(p)
    <3>1. UNCHANGED <<live, born, crew, squad, posts, comments, reports, inbox>>
      BY <2>2 DEF W!Commenters, W!ReadAudience, W!CloseReports, W!pages, W!feed
    <3> QED BY <3>1, RowsStay DEF RowInv
  <2> QED BY <2>1, <2>2
<1>3. \E w : Asks(w) /\ writes' = [writes EXCEPT ![p] = w]
  <2>1. ASSUME W!Ends(p) PROVE <1>3!:
    BY <2>1, IdleAsks DEF W!Ends
  <2>2. CASE W!Commenters(p)
    <3> DEFINE w == [writes[p] EXCEPT !.step = "answer",
                        !.told = @ \cup {comments[c].author : c \in W!Under({writes[p].item})}]
    <3>1. writes' = [writes EXCEPT ![p] = w]
      BY <2>2 DEF W!Commenters, RowInv, FeedInv
    <3>2. w.step = "answer"
      BY <1>1 DEF Write
    <3> HIDE DEF w
    <3>3. Asks(w)
      BY <3>2 DEF Asks
    <3> QED BY <3>1, <3>3
  <2>3. CASE W!ReadAudience(p) /\ ~W!Ends(p)
    <3>1. PICK who \in SUBSET User : writes' = [writes EXCEPT ![p].step = "insert", ![p].told = who]
      <4>1. W!Audience(writes[p].page, writes[p].by) \subseteq User
        BY DEF W!Audience, W!Crew, W!Squad, W!Admins
      <4> QED BY <2>3, <4>1 DEF W!ReadAudience
    <3> DEFINE w == [writes[p] EXCEPT !.step = "insert", !.told = who]
    <3>2. writes' = [writes EXCEPT ![p] = w]
      BY <3>1 DEF RowInv, FeedInv
    <3>3. w.step = "insert" /\ w.told = who
      BY <1>1 DEF Write
    <3> HIDE DEF w
    <3>4. Asks(w)
      BY <3>3 DEF Asks
    <3> QED BY <3>2, <3>4
  <2>4. CASE W!CloseReports(p)
    <3>1. PICK mine, n : writes' = [writes EXCEPT ![p].step = "rows", ![p].closes = mine, ![p].filed = n]
      BY <2>4 DEF W!CloseReports
    <3> DEFINE w == [writes[p] EXCEPT !.step = "rows", !.closes = mine, !.filed = n]
    <3>2. writes' = [writes EXCEPT ![p] = w]
      BY <3>1 DEF RowInv, FeedInv
    <3>3. w.step = "rows" /\ w.told = writes[p].told /\ writes[p].told \subseteq User
      BY <1>1, <2>4 DEF Write, W!CloseReports, W!At, Asks
    <3> HIDE DEF w
    <3>4. Asks(w)
      BY <3>3 DEF Asks
    <3> QED BY <3>2, <3>4
  <2> QED BY <2>1, <2>2, <2>3, <2>4 DEF W!InsertEntries, W!TellMembers
<1> QED BY <1>2, <1>3, OthersAsk

\* Rows of posts that go with their comments.
LEMMA RowsThin ==
  ASSUME RowInv, NEW X,
         DOMAIN posts' = DOMAIN posts, \A i \in DOMAIN posts : posts'[i] = IF i \in X THEN Gone ELSE posts[i],
         DOMAIN comments' = DOMAIN comments,
         \A c \in DOMAIN comments : comments'[c] = IF c \in W!Under(X) THEN Gone ELSE comments[c],
         \A i \in W!Rows(posts) \ X : posts[i].page \in live'
  PROVE  /\ (\A i \in W!Rows(posts) : posts[i].page \in live /\ posts[i].author \in User)'
         /\ (\A c \in W!Rows(comments) : comments[c].post \in W!Rows(posts) /\ comments[c].author \in User)'
<1>1. \A i : i \in W!Rows(posts)' <=> i \in W!Rows(posts) \ X
  BY DEF W!Rows, RowInv, W!TypeOK
<1>2. \A i \in W!Rows(posts)' : posts'[i] = posts[i] /\ posts[i].author \in User /\ posts[i].page \in live'
  BY <1>1 DEF W!Rows, RowInv, W!TypeOK
<1>3. \A c \in W!Rows(comments)' : c \in W!Rows(comments) /\ c \notin W!Under(X) /\ comments'[c] = comments[c]
  BY DEF W!Rows
<1>4. \A c \in W!Rows(comments)' : comments[c].post \in W!Rows(posts) /\ comments[c].post \notin X
                                   /\ comments[c].author \in User
  BY <1>3 DEF W!Under, RowInv, W!TypeOK
<1> QED BY <1>1, <1>2, <1>3, <1>4

\* What of the types a step of the rows leaves to show.
LEMMA RowsTyped ==
  ASSUME RowInv, UNCHANGED <<live, born, crew, squad>>,
         inbox' \subseteq inbox,
         (\A i \in W!Rows(posts) : posts[i].page \in live /\ posts[i].author \in User)',
         (\A c \in W!Rows(comments) : comments[c].post \in W!Rows(posts) /\ comments[c].author \in User)',
         (\A r \in DOMAIN reports : reports[r].by \in User /\ reports[r].target \in W!Target)'
  PROVE  W!TypeOK'
BY DEF RowInv, W!TypeOK, W!Crew

LEMMA RowsLeave ==
  ASSUME RowInv, NEW p \in Writers, W!Remove(p) \/ W!RemoveComment(p)
  PROVE  W!TypeOK' /\ (\A q \in Writers : Asks(writes[q]))'
<1>1. (\A q \in Writers : Asks(writes[q]))'
  BY IdleAsks, OthersAsk DEF W!Remove, W!RemoveComment, W!Ends
<1>2. UNCHANGED <<live, born, crew, squad, reports, inbox>>
  BY DEF W!Remove, W!RemoveComment, W!pages
<1>0. (\A r \in DOMAIN reports : reports[r].by \in User /\ reports[r].target \in W!Target)'
  BY <1>2 DEF RowInv, W!TypeOK
<1>3. CASE W!Remove(p)
  <2> DEFINE X == {writes[p].item}
  <2>1. posts' = W!Without(posts, X) /\ comments' = W!Without(comments, W!Under(X))
    BY <1>3 DEF W!Remove
  <2>2. DOMAIN posts' = DOMAIN posts /\ \A i \in DOMAIN posts : posts'[i] = IF i \in X THEN Gone ELSE posts[i]
    BY <2>1 DEF W!Without
  <2>3. DOMAIN comments' = DOMAIN comments
        /\ \A c \in DOMAIN comments : comments'[c] = IF c \in W!Under(X) THEN Gone ELSE comments[c]
    BY <2>1 DEF W!Without
  <2>4. \A i \in W!Rows(posts) \ X : posts[i].page \in live'
    BY <1>2 DEF RowInv, W!TypeOK
  <2> HIDE DEF X
  <2>5. /\ (\A i \in W!Rows(posts) : posts[i].page \in live /\ posts[i].author \in User)'
        /\ (\A c \in W!Rows(comments) : comments[c].post \in W!Rows(posts) /\ comments[c].author \in User)'
    BY <2>2, <2>3, <2>4, RowsThin
  <2> QED BY <1>0, <1>1, <1>2, <2>5, RowsTyped
<1>4. CASE W!RemoveComment(p)
  <2>1. comments' = W!Without(comments, {writes[p].item}) /\ posts' = posts
    BY <1>4 DEF W!RemoveComment
  <2>2. DOMAIN comments' = DOMAIN comments
        /\ \A c \in DOMAIN comments : comments'[c] = IF c \in {writes[p].item} THEN Gone ELSE comments[c]
    BY <2>1 DEF W!Without
  <2>3. \A c \in W!Rows(comments)' : c \in W!Rows(comments) /\ comments'[c] = comments[c]
    BY <2>2 DEF W!Rows
  <2>4. W!Rows(posts)' = W!Rows(posts)
    BY <2>1 DEF W!Rows
  <2> QED BY <1>0, <1>1, <1>2, <2>1, <2>3, <2>4, RowsTyped DEF RowInv, W!TypeOK
<1> QED BY <1>1, <1>3, <1>4

LEMMA RowsCome ==
  ASSUME RowInv, NEW p \in Writers, W!Create(p) \/ W!AddComment(p) \/ W!FileReport(p)
  PROVE  W!TypeOK' /\ (\A q \in Writers : Asks(writes[q]))'
<1>1. /\ UNCHANGED <<live, born, crew, squad, inbox>> /\ writes[p].by \in User /\ writes[p] \in Write
      /\ Numbered(posts) /\ Numbered(comments) /\ Numbered(reports)
  BY DEF W!Create, W!AddComment, W!FileReport, W!pages, W!At, RowInv, FeedInv, Asks
<1>2. CASE UNCHANGED <<posts, comments, reports>> /\ W!Ends(p)
  BY <1>1, <1>2, IdleAsks, OthersAsk, RowsStay DEF W!Ends, RowInv
<1>3. CASE W!Create(p) /\ writes[p].page \in live
  <2> DEFINE row == [page |-> writes[p].page, author |-> writes[p].by]
             n == Cardinality(DOMAIN posts) + 1
             w == [writes[p] EXCEPT !.step = "tell", !.item = n]
  <2>1. posts' = W!Grown(posts, row) /\ UNCHANGED <<comments, reports>> /\ row.page \in live' /\ row.author \in User
    BY <1>1, <1>3 DEF W!Create
  <2> HIDE DEF row
  <2>2. /\ DOMAIN W!Grown(posts, row) = DOMAIN posts \cup {n} /\ W!Grown(posts, row)[n] = row
        /\ \A i \in DOMAIN posts : W!Grown(posts, row)[i] = posts[i]
    BY <1>1, GrownIs
  <2>3. writes' = [writes EXCEPT ![p] = w]
    BY <1>3, CountedInP DEF W!Create, RowInv, FeedInv
  <2>4. w.step = "tell"
    BY <1>1 DEF Write
  <2> HIDE DEF n, w
  <2>5. Asks(w)
    BY <2>4 DEF Asks
  <2>6. \A i \in W!Rows(posts)' : (i \in W!Rows(posts) /\ posts'[i] = posts[i]) \/ posts'[i] = row
    BY <2>1, <2>2 DEF W!Rows
  <2>7. W!Rows(posts) \subseteq W!Rows(posts)'
    BY <2>1, <2>2 DEF W!Rows
  <2>8. W!Rows(comments)' = W!Rows(comments)
    BY <2>1 DEF W!Rows
  <2>9. /\ (\A i \in W!Rows(posts) : posts[i].page \in live /\ posts[i].author \in User)'
        /\ (\A c \in W!Rows(comments) : comments[c].post \in W!Rows(posts) /\ comments[c].author \in User)'
        /\ (\A r \in DOMAIN reports : reports[r].by \in User /\ reports[r].target \in W!Target)'
    BY <1>1, <2>1, <2>6, <2>7, <2>8 DEF RowInv, W!TypeOK
  <2> QED BY <1>1, <2>3, <2>5, <2>9, OthersAsk, RowsTyped
<1>4. CASE W!AddComment(p) /\ writes[p].item \in W!Rows(posts)
  <2> DEFINE row == [post |-> writes[p].item, author |-> writes[p].by]
             n == Cardinality(DOMAIN comments) + 1
             w == [writes[p] EXCEPT !.step = "commenters"]
  <2>1. comments' = W!Grown(comments, row) /\ UNCHANGED <<posts, reports>>
        /\ row.post \in W!Rows(posts) /\ row.author \in User
    BY <1>1, <1>4 DEF W!AddComment
  <2> HIDE DEF row
  <2>2. /\ DOMAIN W!Grown(comments, row) = DOMAIN comments \cup {n} /\ W!Grown(comments, row)[n] = row
        /\ \A i \in DOMAIN comments : W!Grown(comments, row)[i] = comments[i]
    BY <1>1, GrownIs
  <2>3. writes' = [writes EXCEPT ![p] = w]
    BY <1>4 DEF W!AddComment, W!Goes, RowInv, FeedInv
  <2>4. w.step = "commenters"
    BY <1>1 DEF Write
  <2> HIDE DEF n, w
  <2>5. Asks(w)
    BY <2>4 DEF Asks
  <2>6. \A c \in W!Rows(comments)' : (c \in W!Rows(comments) /\ comments'[c] = comments[c]) \/ comments'[c] = row
    BY <2>1, <2>2 DEF W!Rows
  <2>7. W!Rows(posts)' = W!Rows(posts)
    BY <2>1 DEF W!Rows
  <2>9. /\ (\A i \in W!Rows(posts) : posts[i].page \in live /\ posts[i].author \in User)'
        /\ (\A c \in W!Rows(comments) : comments[c].post \in W!Rows(posts) /\ comments[c].author \in User)'
        /\ (\A r \in DOMAIN reports : reports[r].by \in User /\ reports[r].target \in W!Target)'
    BY <1>1, <2>1, <2>6, <2>7 DEF RowInv, W!TypeOK
  <2> QED BY <1>1, <2>3, <2>5, <2>9, OthersAsk, RowsTyped
<1>5. CASE W!FileReport(p) /\ reports' # reports
  <2>1. PICK t \in W!Target : writes[p].told = {t}
    BY <1>5 DEF RowInv, FeedInv, W!FileReport, W!At
  <2>2. (CHOOSE x \in writes[p].told : TRUE) = t
    BY <2>1
  <2> DEFINE row == [by |-> writes[p].by, target |-> t, open |-> TRUE]
             n == Cardinality(DOMAIN reports) + 1
  <2>3. reports' = W!Grown(reports, row) /\ UNCHANGED <<posts, comments>> /\ row.by \in User /\ row.target \in W!Target
    BY <1>1, <1>5, <2>2 DEF W!FileReport, W!feed
  <2> HIDE DEF row
  <2>4. /\ DOMAIN W!Grown(reports, row) = DOMAIN reports \cup {n} /\ W!Grown(reports, row)[n] = row
        /\ \A i \in DOMAIN reports : W!Grown(reports, row)[i] = reports[i]
    BY <1>1, GrownIs
  <2> HIDE DEF n
  <2>5. (\A r \in DOMAIN reports : reports[r].by \in User /\ reports[r].target \in W!Target)'
    BY <2>3, <2>4 DEF RowInv, W!TypeOK
  <2>6. /\ (\A i \in W!Rows(posts) : posts[i].page \in live /\ posts[i].author \in User)'
        /\ (\A c \in W!Rows(comments) : comments[c].post \in W!Rows(posts) /\ comments[c].author \in User)'
    BY <1>1, <2>3 DEF RowInv, W!TypeOK, W!Rows
  <2>7. (\A q \in Writers : Asks(writes[q]))'
    BY <1>5, IdleAsks, OthersAsk DEF W!FileReport, W!Ends
  <2> QED BY <1>1, <2>5, <2>6, <2>7, RowsTyped
<1>6. CASE W!FileReport(p) /\ reports' = reports
  BY <1>2, <1>6 DEF W!FileReport, W!feed
<1> QED BY <1>2, <1>3, <1>4, <1>5, <1>6 DEF W!Create, W!AddComment

\* Closing keeps who reported what.
LEMMA ReportsTyped ==
  ASSUME RowInv, NEW Z, reports' = W!Closed(Z)
  PROVE  (\A r \in DOMAIN reports : reports[r].by \in User /\ reports[r].target \in W!Target)'
<1>1. DOMAIN reports' = DOMAIN reports
      /\ \A r \in DOMAIN reports : reports'[r] = [reports[r] EXCEPT !.open = @ /\ r \notin Z]
  BY ClosedIs DEF RowInv, FeedInv
<1>2. \A r \in DOMAIN reports : reports[r] \in ReportRow /\ reports[r].by \in User /\ reports[r].target \in W!Target
  BY DEF RowInv, FeedInv, W!TypeOK
<1>3. ASSUME NEW r \in DOMAIN reports PROVE reports'[r].by = reports[r].by /\ reports'[r].target = reports[r].target
  BY <1>1, <1>2 DEF ReportRow
<1> QED BY <1>1, <1>2, <1>3

LEMMA RowsGoWithPage ==
  ASSUME RowInv, NEW p \in Writers, W!DeleteRows(p)
  PROVE  W!TypeOK' /\ (\A q \in Writers : Asks(writes[q]))'
<1> DEFINE g == writes[p].page
           gone == IF g = 0 THEN live ELSE {g}
           X == {i \in W!Rows(posts) : posts[i].page \in gone}
           w == [writes[p] EXCEPT !.step = "notice", !.closes = {}]
<1>1. /\ live' = live \ gone /\ born' = born /\ inbox' \subseteq inbox
      /\ squad' \in {squad, [u \in User |-> "none"]}
      /\ crew' = IF g = 0 THEN [u \in User |-> "none"] ELSE crew
      /\ posts' = W!Without(posts, X) /\ comments' = W!Without(comments, W!Under(X))
      /\ reports' = W!Closed(writes[p].closes)
  BY DEF W!DeleteRows, W!Community
<1>2. (\A q \in Writers : Asks(writes[q]))'
  <2>1. writes' = [writes EXCEPT ![p] = w] /\ writes[p] \in Write /\ Asks(writes[p])
    BY DEF W!DeleteRows, RowInv, FeedInv
  <2>2. w.told = writes[p].told /\ w.step = "notice" /\ writes[p].told \subseteq User
    BY <2>1 DEF Write, Asks, W!DeleteRows, W!At
  <2> HIDE DEF w
  <2>3. Asks(w)
    BY <2>2 DEF Asks
  <2> QED BY <2>1, <2>3, OthersAsk
<1>3. \A i \in W!Rows(posts) \ X : posts[i].page \in live'
  BY <1>1 DEF RowInv, W!TypeOK
<1>4. DOMAIN posts' = DOMAIN posts /\ \A i \in DOMAIN posts : posts'[i] = IF i \in X THEN Gone ELSE posts[i]
  BY <1>1 DEF W!Without
<1>5. DOMAIN comments' = DOMAIN comments
      /\ \A c \in DOMAIN comments : comments'[c] = IF c \in W!Under(X) THEN Gone ELSE comments[c]
  BY <1>1 DEF W!Without
<1> HIDE DEF X
<1>6. /\ (\A i \in W!Rows(posts) : posts[i].page \in live /\ posts[i].author \in User)'
      /\ (\A c \in W!Rows(comments) : comments[c].post \in W!Rows(posts) /\ comments[c].author \in User)'
  BY <1>3, <1>4, <1>5, RowsThin
<1>7. (\A r \in DOMAIN reports : reports[r].by \in User /\ reports[r].target \in W!Target)'
  BY <1>1, ReportsTyped
<1>8. 0 \notin live' => live' = {} /\ W!Crew' = {}
  <2>1. CASE g = 0
    BY <1>1, <2>1 DEF W!Crew
  <2>2. CASE g # 0
    BY <1>1, <2>2 DEF RowInv, W!TypeOK, W!Crew, W!Community
  <2> QED BY <2>1, <2>2
<1>9. crew' \in [User -> {"none", "member", "admin"}] /\ squad' \in [User -> {"none", "member", "moderator"}]
  BY <1>1 DEF RowInv, W!TypeOK
<1>10. live' \subseteq W!Page /\ born' \in W!Page /\ (\A x \in live' : x <= born')
       /\ inbox' \subseteq [to : User, page : W!Page \cup {Gone}]
  BY <1>1 DEF RowInv, W!TypeOK
<1> QED BY <1>2, <1>6, <1>7, <1>8, <1>9, <1>10 DEF W!TypeOK, W!Community

LEMMA MembersChange ==
  ASSUME RowInv, NEW u \in User, W!MembershipChanges(u) \/ W!CreateSubgroup(u)
  PROVE  W!TypeOK' /\ (\A q \in Writers : Asks(writes[q]))'
<1>1. UNCHANGED <<posts, comments, reports, inbox, writes>>
  BY DEF W!MembershipChanges, W!CreateSubgroup, W!feed
<1>2. (\A q \in Writers : Asks(writes[q]))'
  BY <1>1 DEF RowInv, Asks
<1>3. /\ (\A c \in W!Rows(comments) : comments[c].post \in W!Rows(posts) /\ comments[c].author \in User)'
      /\ (\A r \in DOMAIN reports : reports[r].by \in User /\ reports[r].target \in W!Target)'
      /\ (inbox \subseteq [to : User, page : W!Page \cup {Gone}])'
      /\ W!Rows(posts)' = W!Rows(posts)
  BY <1>1 DEF RowInv, W!TypeOK, W!Rows
<1>4. crew \in [User -> {"none", "member", "admin"}] /\ squad \in [User -> {"none", "member", "moderator"}]
  BY DEF RowInv, W!TypeOK
<1>5. CASE W!MembershipChanges(u)
  <2>1. live' = live /\ born' = born /\ 0 \in live
    BY <1>5 DEF W!MembershipChanges, W!Community
  <2>2. crew' \in [User -> {"none", "member", "admin"}] /\ squad' \in [User -> {"none", "member", "moderator"}]
    BY <1>4, <1>5 DEF W!MembershipChanges
  <2>3. (\A i \in W!Rows(posts) : posts[i].page \in live /\ posts[i].author \in User)'
    BY <1>1, <1>3, <2>1 DEF RowInv, W!TypeOK
  <2> QED BY <1>2, <1>3, <2>1, <2>2, <2>3 DEF RowInv, W!TypeOK, W!Community
<1>6. CASE W!CreateSubgroup(u)
  <2>1. live' = live \cup {born + 1} /\ born' = born + 1 /\ crew' = crew /\ born < Pages /\ u \in W!Admins
        /\ squad' = [squad EXCEPT ![u] = "moderator"]
    BY <1>6 DEF W!CreateSubgroup
  <2>2. 0 \in live
    BY <2>1 DEF W!Admins, W!Crew, RowInv, W!TypeOK, W!Community
  <2>3. born \in Nat /\ born + 1 \in W!Page /\ live \subseteq Nat /\ \A x \in live : x <= born
    BY <2>1, FeedsAssumption DEF RowInv, W!TypeOK, W!Page
  <2>4. \A x \in live' : x <= born'
    BY <2>1, <2>3
  <2>5. (\A i \in W!Rows(posts) : posts[i].page \in live /\ posts[i].author \in User)'
    BY <1>1, <1>3, <2>1 DEF RowInv, W!TypeOK
  <2>6. live' \subseteq W!Page
    BY <2>1, <2>3 DEF RowInv, W!TypeOK
  <2>7. squad' \in [User -> {"none", "member", "moderator"}]
    BY <1>4, <2>1
  <2> QED BY <1>2, <1>3, <1>4, <2>1, <2>2, <2>3, <2>4, <2>5, <2>6, <2>7 DEF W!TypeOK, W!Community
<1> QED BY <1>5, <1>6

LEMMA RowStep == RowInv /\ [W!Next]_feedVars => RowInv'
<1> SUFFICES ASSUME RowInv, [W!Next]_feedVars PROVE RowInv'
  OBVIOUS
<1>1. FeedInv'
  BY FeedStep DEF RowInv
<1>2. ASSUME W!TypeOK' /\ (\A q \in Writers : Asks(writes[q]))' PROVE RowInv'
  BY <1>1, <1>2 DEF RowInv
<1>3. ASSUME UNCHANGED <<live, born, crew, squad, posts, comments, reports, inbox, writes>> PROVE RowInv'
  <2>1. (\A q \in Writers : Asks(writes[q]))'
    BY <1>3 DEF RowInv, Asks
  <2> QED BY <1>2, <1>3, <2>1, RowsStay DEF RowInv
<1>4. ASSUME W!Suspension \/ UNCHANGED feedVars PROVE RowInv'
  BY <1>3, <1>4 DEF W!Suspension, W!feed, feedVars
<1>5. ASSUME NEW r \in DOMAIN reports, W!Resolve(r) PROVE RowInv'
  <2>1. UNCHANGED <<live, born, crew, squad, posts, comments, inbox, writes>> /\ reports' = W!Closed({r})
    BY <1>5 DEF W!Resolve, W!pages, W!feed
  <2>2. (\A x \in DOMAIN reports : reports[x].by \in User /\ reports[x].target \in W!Target)'
    BY <2>1, ReportsTyped
  <2>3. /\ (\A i \in W!Rows(posts) : posts[i].page \in live /\ posts[i].author \in User)'
        /\ (\A c \in W!Rows(comments) : comments[c].post \in W!Rows(posts) /\ comments[c].author \in User)'
    BY <2>1 DEF RowInv, W!TypeOK, W!Rows
  <2>4. (\A q \in Writers : Asks(writes[q]))'
    BY <2>1 DEF RowInv, Asks
  <2>5. W!TypeOK'
    BY <2>1, <2>2, <2>3, RowsTyped
  <2> QED BY <1>2, <2>4, <2>5
<1>6. ASSUME NEW u \in User, W!MembershipChanges(u) \/ W!CreateSubgroup(u) PROVE RowInv'
  BY <1>2, <1>6, MembersChange
<1>7. ASSUME NEW p \in Writers,
             \/ \E u \in User, g \in W!Page : W!BeginCreate(p, u, g)
             \/ \E u \in User, i \in DOMAIN posts : W!BeginAddComment(p, u, i) \/ W!BeginRemove(p, u, i)
             \/ \E u \in User, c \in DOMAIN comments : W!BeginRemoveComment(p, u, c)
             \/ \E u \in User, t \in W!Target : W!BeginReport(p, u, t)
             \/ \E u \in User \cup {Site} : W!BeginDelete(p, u) \/ \E g \in W!Page : W!BeginDrop(p, u, g)
      PROVE  RowInv'
  <2> HIDE DEF RowInv
  <2>1. W!TypeOK' /\ (\A q \in Writers : Asks(writes[q]))'
    BY <1>7, RowsBegin
  <2> QED BY <1>2, <2>1
<1>8. ASSUME NEW p \in Writers, \/ W!Create(p) \/ W!AddComment(p) \/ W!Commenters(p) \/ W!ReadAudience(p)
                                \/ W!InsertEntries(p) \/ W!Remove(p) \/ W!RemoveComment(p) \/ W!FileReport(p)
                                \/ W!CloseReports(p) \/ W!DeleteRows(p) \/ W!TellMembers(p)
      PROVE  RowInv'
  BY <1>2, <1>8, RowsCome, RowsTell, RowsLeave, RowsGoWithPage
<1> QED BY <1>4, <1>5, <1>6, <1>7, <1>8 DEF W!Next

LEMMA RowsAtFirst == W!Init => RowInv
<1> SUFFICES ASSUME W!Init PROVE RowInv
  OBVIOUS
<1>1. live = {0, 1} /\ born = 1 /\ posts = <<>> /\ comments = <<>> /\ reports = <<>> /\ inbox = {}
      /\ writes = [p \in Writers |-> W!Idle]
  BY DEF W!Init, W!Community
<1>2. crew \in [User -> {"none", "member", "admin"}] /\ squad \in [User -> {"none", "member", "moderator"}]
  BY DEF W!Init
<1>3. 0 \in W!Page /\ 1 \in W!Page /\ DOMAIN posts = {} /\ DOMAIN comments = {} /\ DOMAIN reports = {}
  BY <1>1, FeedsAssumption DEF W!Page
<1>4. W!TypeOK
  BY <1>1, <1>2, <1>3 DEF W!TypeOK, W!Rows, W!Community
<1>5. \A p \in Writers : Asks(writes[p])
  BY <1>1, IdleAsks
<1> QED BY <1>4, <1>5, FeedBegins DEF RowInv

\* No address is a reserved word, nor will one be.
Allowed ==
    /\ \A i \in A!Item : slug[i] \notin A!ReservedIn(i)
    /\ renaming # nil => renaming.new \notin Reserved
    /\ plan # nil => \A i \in plan.ids : plan.changes[i].new \notin A!ReservedIn(i)

LEMMA AllowedStep == AddressInv /\ Allowed /\ [A!Next]_addressVars => Allowed'
<1> SUFFICES ASSUME AddressInv, Allowed, [A!Next]_addressVars PROVE Allowed'
  OBVIOUS
<1>1. ASSUME \/ UNCHANGED addressVars
             \/ \E x \in Forms : A!EditForm(x)
             \/ A!Preview \/ A!Apply
             \/ \E i \in A!Item : A!Toggle(i)
             \/ \E order \in A!Orders : A!AnswerPreview(order)
      PROVE  Allowed'
  <2>1. UNCHANGED <<slug, renaming, plan>>
    BY <1>1 DEF addressVars, A!EditForm, A!Preview, A!Apply, A!Toggle, A!AnswerPreview
  <2> QED BY <2>1 DEF Allowed
<1>2. ASSUME NEW c \in Communities, NEW n \in 1 .. MaxLength, A!BeginRename(c, n) PROVE Allowed'
  <2>1. UNCHANGED <<slug, plan>> /\ renaming'.new = n /\ n \notin Reserved
    BY <1>2 DEF A!BeginRename
  <2> QED BY <2>1 DEF Allowed
<1>3. ASSUME NEW order \in A!Orders, A!ReadPlan(order) PROVE Allowed'
  <2> DEFINE changes == A!PlanSlugReplace(waits.form, order)
             ids == waits.ids \cap DOMAIN changes
             new == [changes |-> changes, ids |-> ids, order |-> order, read |-> slug]
  <2>1. UNCHANGED <<renaming, slug>> /\ (plan' = nil \/ (plan' = new /\ ~\E i \in ids : changes[i].problem))
    BY <1>3 DEF A!ReadPlan, A!Fails
  <2>2. ASSUME ~\E i \in ids : changes[i].problem, NEW i \in ids PROVE changes[i].new \notin A!ReservedIn(i)
    <3>1. i \in A!Changed(waits.form) /\ i \in DOMAIN changes
      BY DEF A!PlanSlugReplace
    <3>2. changes[i] = [old |-> slug[i], new |-> A!Replaced(slug[i], waits.form),
                        problem |-> A!Problem(i, waits.form, order)]
      BY <3>1 DEF A!PlanSlugReplace
    <3>3. ~A!Problem(i, waits.form, order)
      BY <2>2, <3>2
    <3> QED BY <3>2, <3>3 DEF A!Problem
  <2>3. new.changes = changes /\ new.ids = ids
    OBVIOUS
  <2> HIDE DEF new, changes, ids
  <2> QED BY <2>1, <2>2, <2>3 DEF Allowed
<1>4. ASSUME A!ApplyPlan PROVE Allowed'
  <2>1. CASE ~A!Applied(plan).ok
    <3>1. UNCHANGED <<slug, renaming>> /\ plan' = nil
      BY <1>4, <2>1 DEF A!ApplyPlan, A!Fails
    <3> QED BY <3>1 DEF Allowed
  <2>2. CASE A!Applied(plan).ok
    <3>1. slug' = A!Applied(plan).slug /\ plan' = nil /\ renaming' = renaming
      BY <1>4, <2>2 DEF A!ApplyPlan
    <3>2. PlanOk(plan) /\ plan # nil
      BY <1>4 DEF A!ApplyPlan, AddressInv
    <3>3. Done(plan, plan.ids, A!Applied(plan))
      BY <3>2, AppliedKeeps
    <3>4. \A x \in A!Item : slug'[x] = IF x \in plan.ids THEN plan.changes[x].new ELSE slug[x]
      BY <2>2, <3>1, <3>3 DEF Done
    <3> QED BY <3>1, <3>2, <3>4 DEF Allowed
  <2> QED BY <2>1, <2>2
<1>5. ASSUME A!Rename PROVE Allowed'
  <2> DEFINE c == renaming.community
             m == A!Moved(Present, c, renaming.old, renaming.new, 0)
  <2>1. renaming # nil /\ renaming' = nil /\ plan' = plan /\ (slug' = slug \/ (m.ok /\ slug' = m.slug))
    BY <1>5 DEF A!Rename, Present, A!dbVars
  <2>2. c \in Communities /\ c \in A!Item /\ renaming.new \in Length /\ 0 \in Nat
    BY <2>1 DEF AddressInv, A!Item
  <2>3. Present \in Db /\ Present.slug = slug /\ Apart(Present.slug) /\ parent \in [Subgroups -> Communities]
    BY DEF Present, Db, AddressInv
  <2>4. m.ok => m.slug = [slug EXCEPT ![c] = renaming.new]
    BY <2>2, <2>3, MovedOn
  <2> HIDE DEF m
  <2>5. \A i \in A!Item : slug'[i] = slug[i] \/ (i = c /\ slug'[i] = renaming.new)
    BY <2>1, <2>2, <2>4 DEF AddressInv
  <2>6. A!ReservedIn(c) = Reserved
    BY <2>2 DEF A!ReservedIn
  <2> QED BY <2>1, <2>5, <2>6 DEF Allowed
<1> QED BY <1>1, <1>2, <1>3, <1>4, <1>5 DEF A!Next

\* Rows of the feed belong to a page, a post and a person that are there, and addresses are
\* valid, free of reserved words, and one community's or subgroup's alone.
THEOREM FeedsTypeCorrect == PagesSpec => []TypesKept
<1> DEFINE Inv == (half = "posts" => RowInv) /\ (half = "addresses" => AddressInv /\ Allowed)
<1>1. PagesInit => Inv
  <2>1. A!Init => Allowed
    BY DEF A!Init, Allowed
  <2> QED BY <2>1, RowsAtFirst, AddressBegins DEF PagesInit
<1>2. Inv /\ [PagesNext]_all => Inv'
  <2> SUFFICES ASSUME Inv, [PagesNext]_all PROVE Inv'
    OBVIOUS
  <2>1. ASSUME half' = "posts" PROVE RowInv'
    <3>1. half = "posts" /\ [W!Next]_feedVars
      BY <2>1 DEF PagesNext, PostsStep, AddressesStep, all
    <3> QED BY <3>1, RowStep
  <2>2. ASSUME half' = "addresses" PROVE AddressInv' /\ Allowed'
    <3>1. half = "addresses" /\ [A!Next]_addressVars
      BY <2>2 DEF PagesNext, PostsStep, AddressesStep, all
    <3> QED BY <3>1, AddressStep, AllowedStep
  <2> QED BY <2>1, <2>2
<1>3. Inv => TypesKept
  <2>1. ASSUME AddressInv, Allowed PROVE A!TypeOK
    BY <2>1 DEF AddressInv, Allowed, Apart, Length, A!TypeOK
  <2> QED BY <2>1 DEF TypesKept, RowInv
<1> QED BY <1>1, <1>2, <1>3, PTL DEF PagesSpec
=============================================================================
