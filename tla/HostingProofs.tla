--------------------------- MODULE HostingProofs ---------------------------
(***************************************************************************)
(* What is shared stays public, one row per audience, routes brought by    *)
(* their owners, a series stopped whole and lists that agree, for any      *)
(* number of people, events, shares and requests; and GPX files that are   *)
(* there, and pictures that rows show, for any number of requests and any  *)
(* limit; and the form of an event, which saves what is entered.           *)
(*                                                                         *)
(* Nobody ever hosts an event that was open, and the other way round.      *)
(* Whatever says how an event is hosted - its row, the row an update is    *)
(* about to save, a share of it or one about to be written - says the same *)
(* (Tells), for ids that were handed out.  Rows and requests show routes   *)
(* somebody brought (RoutesInv), a stop takes the rows of the series it    *)
(* read (SeriesInv), roles and columns have their types (ViewInv), and an  *)
(* answer is for an audience the event has (AnswersInv).                   *)
(***************************************************************************)
EXTENDS MCHosting, Sequences, FiniteSetTheorems, TLAPS

(* A row, or a share, has its columns. *)
IsRow(entry) == {"host", "listing"} \subseteq DOMAIN entry
IsShare(entry) == {"event", "host"} \subseteq DOMAIN entry

PublicIfOpen(entry) == IsRow(entry) /\ (entry.host = "open" => entry.listing = "public")

Tells(e, h) ==
    \/ e \in DOMAIN events /\ h = events[e].host
    \/ \E p \in Proc : At(p, "save") /\ req[p].event = e /\ h = req[p].row.host
    \/ h = "open" /\ \E p \in Proc : At(p, "share") /\ req[p].shared.event = e
    \/ h = "open" /\ \E s \in DOMAIN shares : shares[s].event = e

Shape ==
    /\ DOMAIN req = Proc
    /\ mix \in Mixes
    /\ made \in Nat
    /\ \A e \in DOMAIN events : PublicIfOpen(events[e])
    /\ \A s \in DOMAIN shares : IsShare(shares[s]) /\ shares[s].event \in DOMAIN events
    /\ \A p \in Proc : At(p, "insert") \/ At(p, "save") => PublicIfOpen(req[p].row)
    /\ \A p \in Proc : At(p, "share") => IsShare(req[p].shared)

Agree ==
    /\ \A e, h : Tells(e, h) => e \in 1 .. made
    /\ \A e, g, h : Tells(e, g) /\ Tells(e, h) => g = h

IInv == Shape /\ Agree

\* A step says nothing new of ids that were handed out before.
Kept == \A e, h : Tells(e, h)' => Tells(e, h) \/ e \notin 1 .. made

-----------------------------------------------------------------------------
(* The invariant makes shares public. *)
LEMMA AgreedSharesPublic == IInv => SharesStayPublic
  <1> SUFFICES ASSUME IInv, NEW s \in DOMAIN shares
               PROVE  events[shares[s].event].host = "open" /\ events[shares[s].event].listing = "public"
    BY DEF SharesStayPublic
  <1>1. Tells(shares[s].event, "open") /\ Tells(shares[s].event, events[shares[s].event].host)
    BY DEF IInv, Shape, Tells
  <1> QED BY <1>1 DEF IInv, Agree, Shape, PublicIfOpen

LEMMA InitAgrees == Init => IInv
  <1> SUFFICES ASSUME Init PROVE IInv
    OBVIOUS
  <1>1. \A p \in Proc : req[p].step = "idle"
    BY DEF Init, Idle
  <1>2. Shape
    BY <1>1 DEF Init, Shape, At
  <1>3. Agree
    BY <1>1 DEF Init, Agree, Tells, At
  <1> QED BY <1>2, <1>3 DEF IInv

(* A form never makes an open event anything but public. *)
LEMMA EditedPublic ==
  ASSUME NEW entry, PublicIfOpen(entry), NEW l, NEW d, NEW r
  PROVE  PublicIfOpen(Edited(entry, l, d, r)) /\ Edited(entry, l, d, r).host = entry.host
  BY DEF PublicIfOpen, IsRow, Edited

(* A request that begins something else than to create, update or share says nothing. *)
LEMMA BeginsElse ==
  ASSUME IInv, NEW p \in Proc, NEW r, req' = [req EXCEPT ![p] = r],
         r.step \notin {"insert", "save", "share"},
         UNCHANGED <<events, shares, made, mix>>
  PROVE  IInv' /\ Kept
  <1>1. \A q \in Proc : req'[q] = IF q = p THEN r ELSE req[q]
    BY DEF IInv, Shape
  <1>2. \A e, h : Tells(e, h)' => Tells(e, h)
    BY <1>1 DEF Tells, At
  <1>3. Shape'
    BY <1>1 DEF IInv, Shape, At, PublicIfOpen, IsRow, IsShare
  <1>4. Agree'
    BY <1>2 DEF IInv, Agree
  <1> QED BY <1>2, <1>3, <1>4 DEF IInv, Kept

(* Events and shares that go take their words with them. *)
LEMMA Drops ==
  ASSUME IInv, NEW p \in Proc, Ends(p), UNCHANGED <<made, mix>>,
         NEW E, events' = Without(events, E),
         NEW S, shares' = Without(shares, S),
         \A s \in DOMAIN shares : shares[s].event \in E => s \in S
  PROVE  IInv' /\ Kept
  <1>1. \A q \in Proc : req'[q] = IF q = p THEN Idle ELSE req[q]
    BY DEF IInv, Shape, Ends
  <1>2. /\ DOMAIN events' = DOMAIN events \ E /\ \A e \in DOMAIN events' : events'[e] = events[e]
        /\ DOMAIN shares' = DOMAIN shares \ S /\ \A s \in DOMAIN shares' : shares'[s] = shares[s]
    BY DEF Without
  <1>3. \A e, h : Tells(e, h)' => Tells(e, h)
    BY <1>1, <1>2 DEF Tells, At, Idle
  <1>4. Shape'
    BY <1>1, <1>2 DEF IInv, Shape, At, PublicIfOpen, IsRow, IsShare, Idle, Ends
  <1>5. Agree'
    BY <1>3 DEF IInv, Agree
  <1> QED BY <1>3, <1>4, <1>5 DEF IInv, Kept

(* A request that is about to say what somebody said already. *)
LEMMA BeginsSaying ==
  ASSUME IInv, NEW p \in Proc, NEW r, req' = [req EXCEPT ![p] = r],
         UNCHANGED <<events, shares, made, mix>>,
         r.step \in {"insert", "save"} => PublicIfOpen(r.row),
         r.step = "save" => Tells(r.event, r.row.host),
         r.step = "share" => IsShare(r.shared) /\ Tells(r.shared.event, "open")
  PROVE  IInv' /\ Kept
  <1>1. \A q \in Proc : req'[q] = IF q = p THEN r ELSE req[q]
    BY DEF IInv, Shape
  <1>2. ASSUME NEW e, NEW h, Tells(e, h)' PROVE Tells(e, h)
    <2>1. CASE e \in DOMAIN events' /\ h = events'[e].host
      BY <2>1 DEF Tells
    <2>2. CASE \E q \in Proc : At(q, "save")' /\ req'[q].event = e /\ h = req'[q].row.host
      BY <2>2, <1>1 DEF Tells, At
    <2>3. CASE h = "open" /\ \E q \in Proc : At(q, "share")' /\ req'[q].shared.event = e
      BY <2>3, <1>1 DEF Tells, At
    <2>4. CASE h = "open" /\ \E s \in DOMAIN shares' : shares'[s].event = e
      BY <2>4 DEF Tells
    <2> QED BY <1>2, <2>1, <2>2, <2>3, <2>4 DEF Tells
  <1>3. Shape'
    BY <1>1 DEF IInv, Shape, At, PublicIfOpen, IsRow, IsShare
  <1>4. Agree'
    BY <1>2 DEF IInv, Agree
  <1> QED BY <1>2, <1>3, <1>4 DEF IInv, Kept

LEMMA CreateBegins ==
  ASSUME IInv, NEW p \in Proc, NEW u \in User, BeginCreate(p, u)
  PROVE  IInv' /\ Kept
  <1> USE BoundsAssumption, MixesAssumption
  <1>1. PICK host \in mix.hosts, listing \in Listing,
             track \in {None} \cup {x \in {u} : "route" \in mix.edits},
             routes \in SUBSET {x \in {u} : "groups" \in mix.ops} :
          /\ host = "open" => listing = "public"
          /\ req' = [req EXCEPT ![p] = [Idle EXCEPT !.step = "insert", !.who = u, !.ids = routes,
                       !.row = [NoRow EXCEPT !.host = host, !.listing = listing, !.owner = u,
                                             !.route = track]]]
    BY DEF BeginCreate, Starts
  <1> DEFINE entry == [NoRow EXCEPT !.host = host, !.listing = listing, !.owner = u, !.route = track]
             r == [Idle EXCEPT !.step = "insert", !.who = u, !.ids = routes, !.row = entry]
  <1>3. PublicIfOpen(entry)
    BY <1>1 DEF PublicIfOpen, NoRow, IsRow
  <1>4. r.step = "insert" /\ r.row = entry
    BY DEF Idle
  <1> HIDE DEF entry, r
  <1>5. req' = [req EXCEPT ![p] = r] /\ UNCHANGED <<events, shares, made, mix>>
    BY <1>1 DEF r, entry, BeginCreate, Offers, issued
  <1> QED BY <1>3, <1>4, <1>5, BeginsSaying

LEMMA InsertAgrees ==
  ASSUME IInv, NEW p \in Proc, Insert(p)
  PROVE  IInv' /\ Kept
  <1>1. PICK n \in 1 .. mix.events - made :
          /\ made' = made + n
          /\ events' = [e \in DOMAIN events \cup (made + 1 .. made + n) |->
                          IF e \notin made + 1 .. made + n THEN events[e]
                          ELSE [req[p].row EXCEPT !.day = e - made,
                                                  !.series = IF n = 1 THEN None ELSE made + 1]]
    BY DEF Insert
  <1>2. At(p, "insert") /\ Ends(p) /\ UNCHANGED <<shares, mix>>
    BY DEF Insert
  <1>3. \A q \in Proc : req'[q] = IF q = p THEN Idle ELSE req[q]
    BY <1>2 DEF IInv, Shape, Ends
  <1>4. mix.events \in Nat /\ made \in Nat
    <2>1. mix \in Mix /\ Events \in Nat
      BY BoundsAssumption, MixesAssumption DEF IInv, Shape
    <2> QED BY <2>1 DEF Mix, Event, IInv, Shape
  <1>5. \A e \in made + 1 .. made + n : PublicIfOpen(events'[e])
    <2>1. PublicIfOpen(req[p].row)
      BY <1>2 DEF IInv, Shape
    <2>2. ASSUME NEW d, NEW t PROVE PublicIfOpen([req[p].row EXCEPT !.day = d, !.series = t])
      BY <2>1 DEF PublicIfOpen, IsRow
    <2> QED BY <1>1, <2>2
  <1>6. \A e \in DOMAIN events : e \in 1 .. made
    BY DEF IInv, Agree, Tells
  <1>7. \A e \in DOMAIN events : events'[e] = events[e]
    <2>1. \A e \in DOMAIN events : e \notin made + 1 .. made + n
      BY <1>4, <1>6
    <2> QED BY <1>1, <2>1
  <1>8. \A e, h : Tells(e, h)' => Tells(e, h) \/ (e \in made + 1 .. made + n /\ h = events'[e].host)
    <2> SUFFICES ASSUME NEW e, NEW h, Tells(e, h)', ~(e \in made + 1 .. made + n /\ h = events'[e].host)
                 PROVE  Tells(e, h)
      OBVIOUS
    <2>1. CASE e \in DOMAIN events' /\ h = events'[e].host
      BY <2>1, <1>1, <1>7 DEF Tells
    <2>2. CASE \E q \in Proc : At(q, "save")' /\ req'[q].event = e /\ h = req'[q].row.host
      BY <2>2, <1>3 DEF Tells, At, Idle
    <2>3. CASE h = "open" /\ \E q \in Proc : At(q, "share")' /\ req'[q].shared.event = e
      BY <2>3, <1>3 DEF Tells, At, Idle
    <2>4. CASE h = "open" /\ \E s \in DOMAIN shares' : shares'[s].event = e
      BY <2>4, <1>2 DEF Tells
    <2> QED BY <2>1, <2>2, <2>3, <2>4 DEF Tells
  <1>9. Shape'
    <2>1. \A e \in DOMAIN events' : PublicIfOpen(events'[e])
      BY <1>1, <1>5, <1>7 DEF IInv, Shape
    <2>2. \A s \in DOMAIN shares' : IsShare(shares'[s]) /\ shares'[s].event \in DOMAIN events'
      BY <1>1, <1>2 DEF IInv, Shape
    <2>3. DOMAIN req' = Proc /\ mix' \in Mixes /\ made' \in Nat
      <3>1. made + n \in Nat
        BY <1>4
      <3> QED BY <1>1, <1>2, <3>1 DEF IInv, Shape, Ends
    <2>4. ASSUME NEW q \in Proc, (At(q, "insert") \/ At(q, "save"))' PROVE PublicIfOpen(req'[q].row)
      BY <2>4, <1>3 DEF IInv, Shape, At, Idle
    <2>5. \A q \in Proc : At(q, "share")' => IsShare(req'[q].shared)
      BY <1>3 DEF IInv, Shape, At, Idle
    <2> QED BY <2>1, <2>2, <2>3, <2>4, <2>5 DEF Shape, PublicIfOpen, IsRow, IsShare
  <1>10. Agree'
    <2>1. \A e, h : Tells(e, h) => e \in 1 .. made
      BY DEF IInv, Agree
    <2>2. \A e, h : Tells(e, h)' => e \in 1 .. made'
      <3>1. \A e : e \in 1 .. made \/ e \in made + 1 .. made + n => e \in 1 .. made + n
        BY <1>4
      <3> QED BY <2>1, <1>1, <1>8, <3>1
    <2>3. \A e : e \in made + 1 .. made + n => e \notin 1 .. made
      BY <1>4
    <2>4. \A e, g, h : Tells(e, g)' /\ Tells(e, h)' => g = h
      BY <2>1, <2>3, <1>8 DEF IInv, Agree
    <2> QED BY <2>2, <2>4 DEF Agree
  <1> QED BY <1>4, <1>8, <1>9, <1>10 DEF IInv, Kept

LEMMA UpdateBegins ==
  ASSUME IInv, NEW p \in Proc, NEW u \in User, NEW e \in DOMAIN events, BeginUpdate(p, u, e)
  PROVE  IInv' /\ Kept
  <1>1. PICK l \in {events[e].listing} \cup {x \in Listing : "listing" \in mix.edits},
             d \in {events[e].day} \cup {x \in Event : "day" \in mix.edits},
             t \in {events[e].route} \cup {x \in {None, u} : "route" \in mix.edits} :
          req' = [req EXCEPT ![p] = [Idle EXCEPT !.step = "save", !.who = u, !.event = e,
                                       !.row = Edited(events[e], l, d, t)]]
    BY DEF BeginUpdate, Starts
  <1> DEFINE entry == Edited(events[e], l, d, t)
             r == [Idle EXCEPT !.step = "save", !.who = u, !.event = e, !.row = entry]
  <1>2. PublicIfOpen(events[e])
    BY DEF IInv, Shape
  <1>4. PublicIfOpen(entry) /\ entry.host = events[e].host
    BY <1>2, EditedPublic
  <1>5. r.step = "save" /\ r.row = entry /\ r.event = e
    BY DEF Idle
  <1> HIDE DEF entry, r
  <1>6. req' = [req EXCEPT ![p] = r] /\ UNCHANGED <<events, shares, made, mix>>
    BY <1>1 DEF r, entry, BeginUpdate, Offers, issued
  <1>7. Tells(e, entry.host)
    BY <1>4 DEF Tells
  <1> QED BY <1>4, <1>5, <1>6, <1>7, BeginsSaying

LEMMA SaveAgrees ==
  ASSUME IInv, NEW p \in Proc, SaveEvent(p)
  PROVE  IInv' /\ Kept
  <1> DEFINE i == req[p].event
  <1>1. /\ At(p, "save") /\ Ends(p) /\ UNCHANGED <<shares, mix, made>>
        /\ events' = Put(events, i, req[p].row)
    BY DEF SaveEvent, issued
  <1>2. \A q \in Proc : req'[q] = IF q = p THEN Idle ELSE req[q]
    BY <1>1 DEF IInv, Shape, Ends
  <1>3. PublicIfOpen(req[p].row) /\ Tells(i, req[p].row.host)
    BY <1>1 DEF IInv, Shape, Tells
  <1> HIDE DEF i
  <1>4. /\ DOMAIN events' = DOMAIN events \cup {i}
        /\ \A e \in DOMAIN events' : events'[e] = IF e = i THEN req[p].row ELSE events[e]
    BY <1>1 DEF Put
  <1>5. \A e, h : Tells(e, h)' => Tells(e, h)
    BY <1>1, <1>2, <1>3, <1>4 DEF Tells, At, Idle
  <1>6. Shape'
    BY <1>1, <1>2, <1>3, <1>4 DEF IInv, Shape, At, PublicIfOpen, IsRow, IsShare, Idle, Ends
  <1>7. Agree'
    BY <1>1, <1>5 DEF IInv, Agree
  <1> QED BY <1>5, <1>6, <1>7 DEF IInv, Kept

LEMMA ShareBegins ==
  ASSUME IInv, NEW p \in Proc, NEW u \in User, NEW e \in DOMAIN events, NEW ctx \in Host,
         BeginShare(p, u, ctx, e)
  PROVE  IInv' /\ Kept
  <1>1. PICK s \in IF SharesOf(e, ctx) = {} THEN {None} ELSE SharesOf(e, ctx),
             t \in {"unsent"} \cup {x \in Place : "meetup" \in mix.edits} :
          req' = [req EXCEPT ![p] =
                    [Idle EXCEPT !.step = "share", !.event = e, !.share = s, !.text = t,
                       !.shared = IF s = None THEN [NoShare EXCEPT !.event = e, !.host = ctx]
                                  ELSE shares[s]]]
    BY DEF BeginShare, Starts
  <1> DEFINE entry == IF s = None THEN [NoShare EXCEPT !.event = e, !.host = ctx] ELSE shares[s]
             r == [Idle EXCEPT !.step = "share", !.event = e, !.share = s, !.text = t,
                               !.shared = entry]
  <1>2. e \in Nat /\ Tells(e, "open")
    BY DEF IInv, Shape, Agree, Tells, BeginShare
  <1>3. s # None => s \in DOMAIN shares /\ shares[s].event = e
    BY DEF SharesOf
  <1>4. IsShare(entry) /\ entry.event = e
    BY <1>2, <1>3 DEF IInv, Shape, IsShare, NoShare
  <1>5. r.step = "share" /\ r.shared = entry
    BY DEF Idle
  <1> HIDE DEF entry, r
  <1>6. req' = [req EXCEPT ![p] = r] /\ UNCHANGED <<events, shares, made, mix>>
    BY <1>1 DEF r, entry, BeginShare, Offers, issued
  <1> QED BY <1>2, <1>4, <1>5, <1>6, BeginsSaying

LEMMA ShareAgrees ==
  ASSUME IInv, NEW p \in Proc, WriteShare(p)
  PROVE  IInv' /\ Kept
  <1> DEFINE entry == Merged(req[p].shared, req[p].text)
  <1>1. /\ At(p, "share") /\ Ends(p) /\ UNCHANGED <<events, mix, made>>
        /\ \/ UNCHANGED shares
           \/ entry.event \in DOMAIN events /\ \E s : shares' = Put(shares, s, entry)
    BY DEF WriteShare
  <1>2. \A q \in Proc : req'[q] = IF q = p THEN Idle ELSE req[q]
    BY <1>1 DEF IInv, Shape, Ends
  <1>3. IsShare(entry) /\ entry.event = req[p].shared.event /\ Tells(entry.event, "open")
    BY <1>1 DEF IInv, Shape, IsShare, Merged, Tells
  <1> HIDE DEF entry
  <1>4. CASE UNCHANGED shares
    <2>1. \A e, h : Tells(e, h)' => Tells(e, h)
      BY <1>1, <1>2, <1>4 DEF Tells, At, Idle
    <2>2. Shape'
      BY <1>1, <1>2, <1>4 DEF IInv, Shape, At, PublicIfOpen, IsRow, IsShare, Idle, Ends
    <2> QED BY <1>1, <2>1, <2>2 DEF IInv, Agree, Kept
  <1>5. ASSUME NEW s, entry.event \in DOMAIN events, shares' = Put(shares, s, entry)
        PROVE  IInv' /\ Kept
    <2>1. /\ DOMAIN shares' = DOMAIN shares \cup {s}
          /\ \A t \in DOMAIN shares' : shares'[t] = IF t = s THEN entry ELSE shares[t]
      BY <1>5 DEF Put
    <2>2. \A e, h : Tells(e, h)' => Tells(e, h)
      BY <1>1, <1>2, <1>3, <2>1 DEF Tells, At, Idle
    <2>3. Shape'
      BY <1>1, <1>2, <1>3, <1>5, <2>1 DEF IInv, Shape, At, PublicIfOpen, IsRow, IsShare, Idle, Ends
    <2> QED BY <1>1, <2>2, <2>3 DEF IInv, Agree, Kept
  <1> QED BY <1>1, <1>4, <1>5

LEMMA StepAgrees == IInv /\ [Next]_vars => IInv' /\ Kept
  <1> SUFFICES ASSUME IInv, [Next]_vars PROVE IInv' /\ Kept
    OBVIOUS
  <1>1. ASSUME NEW p \in Proc, NEW u \in User, BeginCreate(p, u) PROVE IInv' /\ Kept
    BY <1>1, CreateBegins
  <1>2. ASSUME NEW p \in Proc, NEW u \in User, NEW e \in DOMAIN events, BeginUpdate(p, u, e) PROVE IInv' /\ Kept
    BY <1>2, UpdateBegins
  <1>3. ASSUME NEW p \in Proc, NEW u \in User, NEW e, BeginRemove(p, u, e) PROVE IInv' /\ Kept
    <2>1. UNCHANGED <<events, shares, made, mix>>
      BY <1>3 DEF BeginRemove, Offers, issued
    <2> QED BY <1>3, <2>1, BeginsElse DEF BeginRemove, Starts, Idle
  <1>4. ASSUME NEW p \in Proc, NEW u \in User, NEW e, BeginStop(p, u, e) PROVE IInv' /\ Kept
    <2>1. UNCHANGED <<events, shares, made, mix>>
      BY <1>4 DEF BeginStop, Offers, issued
    <2> QED BY <1>4, <2>1, BeginsElse DEF BeginStop, Starts, Idle
  <1>5. ASSUME NEW p \in Proc, NEW u \in User, NEW e, BeginGroups(p, u, e) PROVE IInv' /\ Kept
    <2>1. UNCHANGED <<events, shares, made, mix>>
      BY <1>5 DEF BeginGroups, Offers, issued
    <2> QED BY <1>5, <2>1, BeginsElse DEF BeginGroups, Starts, Idle
  <1>6. ASSUME NEW p \in Proc, NEW u \in User, NEW e \in DOMAIN events, NEW ctx \in Host,
               BeginShare(p, u, ctx, e)
        PROVE  IInv' /\ Kept
    BY <1>6, ShareBegins
  <1>7. ASSUME NEW p \in Proc, NEW u \in User, NEW e, NEW ctx, BeginUnshare(p, u, ctx, e) PROVE IInv' /\ Kept
    <2>1. UNCHANGED <<events, shares, made, mix>>
      BY <1>7 DEF BeginUnshare, Offers, issued
    <2> QED BY <1>7, <2>1, BeginsElse DEF BeginUnshare, Starts, Idle
  <1>8. ASSUME NEW p \in Proc, NEW u \in User, NEW e, NEW ctx, BeginRsvp(p, u, e, ctx) PROVE IInv' /\ Kept
    <2>1. UNCHANGED <<events, shares, made, mix>>
      BY <1>8 DEF BeginRsvp, Offers, issued
    <2> QED BY <1>8, <2>1, BeginsElse DEF BeginRsvp, Starts, Idle
  <1>9. ASSUME NEW p \in Proc, NEW u \in User, NEW e, NEW ctx, BeginComment(p, u, e, ctx) PROVE IInv' /\ Kept
    <2>1. UNCHANGED <<events, shares, made, mix>>
      BY <1>9 DEF BeginComment, Offers, issued
    <2> QED BY <1>9, <2>1, BeginsElse DEF BeginComment, Starts, Idle
  <1>10. ASSUME NEW p \in Proc, NEW u \in User, NEW c, NEW ctx, BeginUncomment(p, u, c, ctx) PROVE IInv' /\ Kept
    <2>1. UNCHANGED <<events, shares, made, mix>>
      BY <1>10 DEF BeginUncomment, Offers, issued
    <2> QED BY <1>10, <2>1, BeginsElse DEF BeginUncomment, Starts, Idle
  <1>11. ASSUME NEW p \in Proc, Insert(p) PROVE IInv' /\ Kept
    BY <1>11, InsertAgrees
  <1>12. ASSUME NEW p \in Proc, SaveEvent(p) PROVE IInv' /\ Kept
    BY <1>12, SaveAgrees
  <1>13. ASSUME NEW p \in Proc, NEW E, DropEvents(E), Ends(p), UNCHANGED <<made, mix>> PROVE IInv' /\ Kept
    <2> DEFINE gone == {s \in DOMAIN shares : shares[s].event \in E}
    <2>1. events' = Without(events, E) /\ shares' = Without(shares, gone)
      BY <1>13 DEF DropEvents
    <2>2. \A s \in DOMAIN shares : shares[s].event \in E => s \in gone
      OBVIOUS
    <2> HIDE DEF gone
    <2> QED BY <1>13, <2>1, <2>2, Drops
  <1>14. ASSUME NEW p \in Proc, Remove(p) PROVE IInv' /\ Kept
    BY <1>13, <1>14 DEF Remove, issued
  <1>15. ASSUME NEW p \in Proc, StopSeries(p) PROVE IInv' /\ Kept
    BY <1>13, <1>15 DEF StopSeries, issued
  <1>16. ASSUME NEW p \in Proc, ReadLater(p) PROVE IInv' /\ Kept
    <2>1. UNCHANGED <<events, shares, made, mix>>
      BY <1>16 DEF ReadLater, issued
    <2> QED BY <1>16, <2>1, BeginsElse DEF ReadLater, Idle
  <1>17. ASSUME NEW p \in Proc, ClearGroups(p) PROVE IInv' /\ Kept
    <2>1. UNCHANGED <<events, shares, made, mix>>
      BY <1>17 DEF ClearGroups, issued
    <2> QED BY <1>17, <2>1, BeginsElse DEF ClearGroups, Idle
  <1>18. ASSUME NEW p \in Proc, WriteGroups(p) \/ SaveRsvp(p) \/ AddComment(p) \/ DeleteComment(p) PROVE IInv' /\ Kept
    <2>1. UNCHANGED <<events, shares, made, mix>> /\ Ends(p)
      BY <1>18 DEF WriteGroups, SaveRsvp, AddComment, DeleteComment, issued
    <2> QED BY <1>18, <2>1, BeginsElse DEF Ends, Idle
  <1>19. ASSUME NEW p \in Proc, WriteShare(p) PROVE IInv' /\ Kept
    BY <1>19, ShareAgrees
  <1>20. ASSUME NEW p \in Proc, Unshare(p) PROVE IInv' /\ Kept
    <2>1. shares' = Without(shares, {req[p].share}) /\ Ends(p) /\ UNCHANGED <<made, mix, events>>
      BY <1>20 DEF Unshare, issued
    <2>2. \A q \in Proc : req'[q] = IF q = p THEN Idle ELSE req[q]
      BY <2>1 DEF IInv, Shape, Ends
    <2>3. /\ DOMAIN shares' = DOMAIN shares \ {req[p].share}
          /\ \A s \in DOMAIN shares' : shares'[s] = shares[s]
      BY <2>1 DEF Without
    <2>4. ASSUME NEW e, NEW h, Tells(e, h)' PROVE Tells(e, h)
      <3>1. CASE e \in DOMAIN events' /\ h = events'[e].host
        BY <2>1, <3>1 DEF Tells
      <3>2. CASE \E q \in Proc : At(q, "save")' /\ req'[q].event = e /\ h = req'[q].row.host
        BY <3>2, <2>2 DEF Tells, At, Idle
      <3>3. CASE h = "open" /\ \E q \in Proc : At(q, "share")' /\ req'[q].shared.event = e
        BY <3>3, <2>2 DEF Tells, At, Idle
      <3>4. CASE h = "open" /\ \E s \in DOMAIN shares' : shares'[s].event = e
        BY <3>4, <2>3 DEF Tells
      <3> QED BY <2>4, <3>1, <3>2, <3>3, <3>4 DEF Tells
    <2>5. Shape'
      <3>1. \A q \in Proc, s \in {"insert", "save", "share"} : At(q, s)' => At(q, s) /\ req'[q] = req[q]
        BY <2>2 DEF At, Idle
      <3>2. DOMAIN req' = Proc
        BY <2>1 DEF IInv, Shape, Ends
      <3>3. UNCHANGED <<made, mix, events>>
        BY <2>1
      <3> QED BY <2>3, <3>1, <3>2, <3>3 DEF IInv, Shape
    <2> QED BY <2>1, <2>4, <2>5 DEF IInv, Agree, Kept
  <1>21. ASSUME UNCHANGED <<events, shares, made, mix, req>> PROVE IInv' /\ Kept
    <2>1. \A e, h : Tells(e, h)' => Tells(e, h)
      BY <1>21 DEF Tells, At
    <2>2. Shape'
      BY <1>21 DEF IInv, Shape, At, PublicIfOpen, IsRow, IsShare
    <2> QED BY <1>21, <2>1, <2>2 DEF IInv, Agree, Kept
  <1>22. ASSUME NEW u \in User, NEW role, MembershipChanges(u, role) PROVE IInv' /\ Kept
    BY <1>21, <1>22 DEF MembershipChanges, issued
  <1>23. CASE SuspensionChanges
    BY <1>21, <1>23 DEF SuspensionChanges, issued
  <1>24. CASE UNCHANGED vars
    BY <1>21, <1>24 DEF vars, issued
  <1> QED
    BY <1>1, <1>2, <1>3, <1>4, <1>5, <1>6, <1>7, <1>8, <1>9, <1>10, <1>11, <1>12, <1>14, <1>15,
       <1>16, <1>17, <1>18, <1>19, <1>20, <1>22, <1>23, <1>24 DEF Next

(* What a club shared stays a public event nobody hosts, however many requests edit,
   share, remove and bring back events at once. *)
THEOREM SharedIsPublic == Spec => []SharesStayPublic
  <1>1. Spec => []IInv
    BY InitAgrees, StepAgrees, PTL DEF Spec
  <1> QED BY <1>1, AgreedSharesPublic, PTL

-----------------------------------------------------------------------------
LEMMA OneStep == OnePerAudience /\ [Next]_vars => OnePerAudience'
  <1> SUFFICES ASSUME OnePerAudience, [Next]_vars PROVE OnePerAudience'
    OBVIOUS
  <1>1. ASSUME NEW S, shares' = Without(shares, S), rsvps' \subseteq rsvps PROVE OnePerAudience'
    BY <1>1 DEF OnePerAudience, Without
  <1>2. ASSUME UNCHANGED <<shares, rsvps>> PROVE OnePerAudience'
    BY <1>2 DEF OnePerAudience
  <1>3. ASSUME NEW p \in Proc, WriteShare(p) PROVE OnePerAudience'
    <2> DEFINE entry == Merged(req[p].shared, req[p].text)
    <2>1. UNCHANGED rsvps /\ (UNCHANGED shares \/ \E s : ~Clash(s, entry) /\ shares' = Put(shares, s, entry))
      BY <1>3 DEF WriteShare, talk
    <2> HIDE DEF entry
    <2>2. ASSUME NEW s, ~Clash(s, entry), shares' = Put(shares, s, entry)
          PROVE  \A x, y \in DOMAIN shares' :
                   shares'[x].event = shares'[y].event /\ shares'[x].host = shares'[y].host => x = y
      <3>1. \A x \in DOMAIN shares' : shares'[x] = IF x = s THEN entry ELSE shares[x]
        BY <2>2 DEF Put
      <3>2. DOMAIN shares' = DOMAIN shares \cup {s}
        BY <2>2 DEF Put
      <3>3. \A x \in DOMAIN shares : shares[x].event = entry.event /\ shares[x].host = entry.host => x = s
        BY <2>2 DEF Clash, SharesOf
      <3> QED BY <3>1, <3>2, <3>3 DEF OnePerAudience
    <2> QED BY <2>1, <2>2 DEF OnePerAudience
  <1>4. ASSUME NEW p \in Proc, SaveRsvp(p) PROVE OnePerAudience'
    <2> DEFINE q == req[p]
               new == [event |-> q.event, share |-> q.share, user |-> q.who, status |-> q.text]
    <2>1. UNCHANGED shares /\ (UNCHANGED rsvps
             \/ rsvps' = {r \in rsvps : ~SameAnswer(r, q.event, q.share, q.who)} \cup {new})
      BY <1>4 DEF SaveRsvp
    <2>2. new.event = q.event /\ new.share = q.share /\ new.user = q.who
      OBVIOUS
    <2> HIDE DEF new, q
    <2> QED BY <2>1, <2>2 DEF OnePerAudience, SameAnswer
  <1>5. ASSUME NEW p \in Proc, Remove(p) \/ StopSeries(p) PROVE OnePerAudience'
    BY <1>1, <1>5 DEF Remove, StopSeries, DropEvents
  <1>6. ASSUME NEW p \in Proc, Unshare(p) PROVE OnePerAudience'
    BY <1>1, <1>6 DEF Unshare, WithShare
  <1>7. ASSUME NEW p \in Proc, Insert(p) \/ SaveEvent(p) \/ ReadLater(p) \/ ClearGroups(p) \/ WriteGroups(p)
                               \/ AddComment(p) \/ DeleteComment(p)
        PROVE  OnePerAudience'
    BY <1>2, <1>7, ZenonT(40) DEF Insert, SaveEvent, ReadLater, ClearGroups, WriteGroups, AddComment, DeleteComment, talk
  <1>8. ASSUME NEW p \in Proc, NEW u \in User, NEW e, NEW ctx,
               BeginCreate(p, u) \/ BeginUpdate(p, u, e) \/ BeginRemove(p, u, e) \/ BeginStop(p, u, e)
               \/ BeginGroups(p, u, e) \/ BeginShare(p, u, ctx, e) \/ BeginUnshare(p, u, ctx, e)
               \/ BeginRsvp(p, u, e, ctx) \/ BeginComment(p, u, e, ctx) \/ BeginUncomment(p, u, e, ctx)
        PROVE  OnePerAudience'
    BY <1>2, <1>8 DEF BeginCreate, BeginUpdate, BeginRemove, BeginStop, BeginGroups, BeginShare, BeginUnshare,
                      BeginRsvp, BeginComment, BeginUncomment, talk
  <1>9. CASE SuspensionChanges \/ UNCHANGED vars \/ \E u \in User, role \in mix.roles : MembershipChanges(u, role)
    BY <1>2, <1>9 DEF SuspensionChanges, MembershipChanges, talk, vars
  <1> QED BY <1>3, <1>4, <1>5, <1>6, <1>7, <1>8, <1>9 DEF Next

(* Shares and answers at once never leave two rows for one audience. *)
THEOREM OneRowPerAudience == Spec => []OnePerAudience
  <1>1. Init => OnePerAudience
    BY DEF Init, OnePerAudience
  <1> QED BY <1>1, OneStep, PTL DEF Spec

-----------------------------------------------------------------------------
(***************************************************************************)
(* Routes.                                                                 *)
(***************************************************************************)

\* Routes event e may have: those brought so far, and those of u who is about to bring one.
May(e, u) == {u} \cup brought[e]

\* What a request is about to write is its own or was brought before it looked.
Brings(r) ==
    /\ r.step \in {"insert", "save"} => "route" \in DOMAIN r.row
    /\ r.step = "save" => r.event \in 1 .. made /\ r.row.route \in {None} \cup May(r.event, r.who)
    /\ r.step \in {"clear", "write"} => r.event \in 1 .. made /\ r.ids \subseteq May(r.event, r.who)

EventBrought(e) == "route" \in DOMAIN events[e] /\ events[e].route \in {None} \cup brought[e]
GroupBrought(g) == g.event \in 1 .. made /\ g.route \in brought[g.event]

RoutesInv ==
    /\ DOMAIN brought = Event /\ made =< mix.events
    /\ \A e \in DOMAIN events : EventBrought(e)
    /\ \A g \in groups : GroupBrought(g)
    /\ \A p \in Proc : Brings(req[p])

LEMMA BroughtByOwners == RoutesInv => RoutesBroughtByOwners
  BY DEF RoutesInv, EventBrought, GroupBrought, RoutesBroughtByOwners, GroupsOf

LEMMA InitRoutes == Init => RoutesInv
  <1> SUFFICES ASSUME Init PROVE RoutesInv
    OBVIOUS
  <1>1. mix \in Mix
    BY MixesAssumption DEF Init
  <1>2. 0 =< mix.events
    BY <1>1, BoundsAssumption DEF Mix, Event
  <1>3. \A p \in Proc : Brings(req[p])
    BY DEF Init, Brings, Idle
  <1> QED BY <1>2, <1>3 DEF Init, RoutesInv, NoRow

(* Ids handed out lie in the range of ids. *)
LEMMA MadeInEvent == IInv /\ RoutesInv => 1 .. made \subseteq Event /\ made \in Nat /\ mix.events \in Nat
                                          /\ DOMAIN events \subseteq 1 .. made
  <1> SUFFICES ASSUME IInv, RoutesInv
               PROVE  1 .. made \subseteq Event /\ made \in Nat /\ mix.events \in Nat /\ DOMAIN events \subseteq 1 .. made
    OBVIOUS
  <1>1. mix \in Mix /\ Events \in Nat
    BY BoundsAssumption, MixesAssumption DEF IInv, Shape
  <1>2. mix.events \in 1 .. Events /\ made \in Nat /\ made =< mix.events
    BY <1>1 DEF Mix, Event, IInv, Shape, RoutesInv
  <1>3. DOMAIN events \subseteq 1 .. made
    BY DEF IInv, Agree, Tells
  <1> QED BY <1>1, <1>2, <1>3 DEF Event

(* A request that begins or goes on, and changes no route. *)
LEMMA BringsNothing ==
  ASSUME IInv, RoutesInv, NEW p \in Proc, NEW r, req' = [req EXCEPT ![p] = r], Brings(r),
         UNCHANGED <<events, groups, brought, made, mix>>
  PROVE  RoutesInv'
  <1>1. \A q \in Proc : req'[q] = IF q = p THEN r ELSE req[q]
    BY DEF IInv, Shape
  <1>2. \A x : Brings(x)' => Brings(x)
    BY DEF Brings, May
  <1>3. \A q \in Proc : Brings(req[q])'
    BY <1>1 DEF RoutesInv, Brings, May
  <1> QED BY <1>3 DEF RoutesInv, EventBrought, GroupBrought

(* Events and groups that go, and a request that ends. *)
LEMMA BringsLess ==
  ASSUME IInv, RoutesInv, NEW p \in Proc, Ends(p),
         DOMAIN events' \subseteq DOMAIN events, \A e \in DOMAIN events' : events'[e] = events[e],
         groups' \subseteq groups, UNCHANGED <<brought, made, mix>>
  PROVE  RoutesInv'
  <1>1. \A q \in Proc : req'[q] = IF q = p THEN Idle ELSE req[q]
    BY DEF IInv, Shape, Ends
  <1>3. \A q \in Proc : Brings(req[q])'
    BY <1>1 DEF RoutesInv, Brings, May, Idle
  <1> QED BY <1>3 DEF RoutesInv, EventBrought, GroupBrought

(* What is brought to events that were there stays brought. *)
LEMMA BringsMore ==
  ASSUME IInv, RoutesInv, NEW p \in Proc, Ends(p),
         made' \in Nat, made =< made', \A e \in 1 .. made : brought[e] \subseteq brought'[e]
  PROVE  \A q \in Proc : Brings(req[q])'
  <1>1. \A q \in Proc : req'[q] = IF q = p THEN Idle ELSE req[q]
    BY DEF IInv, Shape, Ends
  <1>2. \A e : e \in 1 .. made => e \in 1 .. made'
    BY DEF IInv, Shape
  <1>3. \A e \in 1 .. made : \A u : May(e, u) \subseteq May(e, u)'
    BY DEF May
  <1> QED BY <1>1, <1>2, <1>3 DEF RoutesInv, Brings, May, Idle

LEMMA InsertBrings ==
  ASSUME IInv, RoutesInv, NEW p \in Proc, Insert(p)
  PROVE  RoutesInv'
  <1>1. PICK n \in 1 .. mix.events - made :
          LET S == made + 1 .. made + n IN
          /\ made' = made + n
          /\ events' = [e \in DOMAIN events \cup S |->
                          IF e \notin S THEN events[e]
                          ELSE [req[p].row EXCEPT !.day = e - made,
                                                  !.series = IF n = 1 THEN None ELSE made + 1]]
          /\ groups' = groups \cup [event : S, route : req[p].ids, by : {p}]
          /\ brought' = [e \in Event |-> IF e \in S THEN ({req[p].row.route} \ {None}) \cup req[p].ids
                                         ELSE brought[e]]
    BY DEF Insert
  <1> DEFINE S == made + 1 .. made + n
  <1>2. /\ 1 .. made \subseteq Event /\ DOMAIN events \subseteq 1 .. made
        /\ made \in Nat /\ mix.events \in Nat /\ Events \in Nat
    BY MadeInEvent, BoundsAssumption
  <1>3. made + n \in Nat /\ made + n =< mix.events /\ made =< made + n
    BY <1>2
  <1>4. mix.events \in Event
    BY MixesAssumption DEF IInv, Shape, Mix
  <1>5. S \subseteq Event /\ 1 .. made \cap S = {} /\ S \subseteq 1 .. made + n
    BY <1>2, <1>3, <1>4 DEF Event
  <1>6. At(p, "insert") /\ Ends(p) /\ UNCHANGED mix
    BY DEF Insert
  <1>7. "route" \in DOMAIN req[p].row
    BY <1>6 DEF RoutesInv, Brings, At
  <1> HIDE DEF S
  <1>8. /\ \A e \in 1 .. made : brought'[e] = brought[e]
        /\ \A e \in S : brought'[e] = ({req[p].row.route} \ {None}) \cup req[p].ids
        /\ DOMAIN brought' = Event
    BY <1>1, <1>2, <1>5 DEF S
  <1>9. \A q \in Proc : Brings(req[q])'
    BY <1>1, <1>3, <1>6, <1>8, BringsMore
  <1>10. ASSUME NEW e \in DOMAIN events' PROVE EventBrought(e)'
    <2>1. CASE e \in S
      <3> DEFINE entry == [req[p].row EXCEPT !.day = e - made, !.series = IF n = 1 THEN None ELSE made + 1]
      <3>1. events'[e] = entry
        BY <1>1, <2>1 DEF S
      <3>2. "route" \in DOMAIN entry /\ entry.route = req[p].row.route
        BY <1>7
      <3> QED BY <3>1, <3>2, <1>8, <2>1 DEF EventBrought
    <2>2. CASE e \in DOMAIN events /\ e \notin S
      <3>1. events'[e] = events[e] /\ EventBrought(e) /\ brought'[e] = brought[e]
        BY <1>1, <1>2, <1>8, <2>2 DEF S, RoutesInv
      <3> QED BY <3>1 DEF EventBrought
    <2> QED BY <1>1, <2>1, <2>2 DEF S
  <1>11. made' = made + n
    BY <1>1
  <1>12. ASSUME NEW g \in groups' PROVE GroupBrought(g)'
    <2>1. CASE g \in groups
      <3>1. g.event \in 1 .. made /\ g.route \in brought[g.event]
        BY <2>1 DEF RoutesInv, GroupBrought
      <3>2. g.event \in 1 .. made'
        BY <3>1, <1>2, <1>3, <1>11
      <3> QED BY <3>1, <3>2, <1>8 DEF GroupBrought
    <2>2. CASE g \in [event : S, route : req[p].ids, by : {p}]
      <3>1. g.event \in S /\ g.route \in req[p].ids
        BY <2>2
      <3>2. g.event \in 1 .. made'
        BY <3>1, <1>1, <1>5
      <3> QED BY <3>1, <3>2, <1>8 DEF GroupBrought
    <2> QED BY <1>1, <2>1, <2>2 DEF S
  <1> QED BY <1>1, <1>3, <1>6, <1>8, <1>9, <1>10, <1>12 DEF RoutesInv

LEMMA SaveBrings ==
  ASSUME IInv, RoutesInv, NEW p \in Proc, SaveEvent(p)
  PROVE  RoutesInv'
  <1> DEFINE i == req[p].event
             entry == req[p].row
             u == req[p].who
  <1>1. /\ At(p, "save") /\ Ends(p) /\ UNCHANGED <<groups, mix, made>>
        /\ events' = Put(events, i, entry)
        /\ brought' = [brought EXCEPT ![i] = @ \cup ({entry.route} \cap {u})]
    BY DEF SaveEvent, issued
  <1>2. i \in 1 .. made /\ "route" \in DOMAIN entry /\ entry.route \in {None, u} \cup brought[i]
    BY <1>1 DEF RoutesInv, Brings, At, May
  <1>3. 1 .. made \subseteq Event /\ DOMAIN events \subseteq 1 .. made /\ made \in Nat
    BY MadeInEvent
  <1> HIDE DEF i, entry, u
  <1>4. /\ DOMAIN brought' = Event
        /\ \A e \in Event : brought'[e] = IF e = i THEN brought[e] \cup ({entry.route} \cap {u}) ELSE brought[e]
    BY <1>1, <1>2, <1>3 DEF RoutesInv
  <1>5. /\ DOMAIN events' = DOMAIN events \cup {i}
        /\ \A e \in DOMAIN events' : events'[e] = IF e = i THEN entry ELSE events[e]
    BY <1>1 DEF Put
  <1>6. \A e \in 1 .. made : brought[e] \subseteq brought'[e]
    BY <1>3, <1>4
  <1>7. \A q \in Proc : Brings(req[q])'
    BY <1>1, <1>3, <1>6, BringsMore
  <1>8. \A e \in DOMAIN events' : EventBrought(e)'
    BY <1>2, <1>3, <1>4, <1>5 DEF RoutesInv, EventBrought
  <1>9. \A g \in groups' : GroupBrought(g)'
    BY <1>1, <1>6 DEF RoutesInv, GroupBrought
  <1> QED BY <1>1, <1>4, <1>7, <1>8, <1>9 DEF RoutesInv

LEMMA WriteBrings ==
  ASSUME IInv, RoutesInv, NEW p \in Proc, WriteGroups(p)
  PROVE  RoutesInv'
  <1> DEFINE i == req[p].event
             routes == req[p].ids
             u == req[p].who
             new == [event : {i}, route : routes, by : {p}]
  <1>1. /\ At(p, "write") /\ Ends(p) /\ UNCHANGED <<events, mix, made>>
        /\ \/ UNCHANGED <<groups, brought>>
           \/ /\ groups' = (groups \ req[p].seen) \cup new
              /\ brought' = [brought EXCEPT ![i] = @ \cup (routes \cap {u})]
    BY DEF WriteGroups, issued
  <1>2. i \in 1 .. made /\ routes \subseteq {u} \cup brought[i]
    BY <1>1 DEF RoutesInv, Brings, At, May
  <1>3. 1 .. made \subseteq Event /\ DOMAIN events \subseteq 1 .. made /\ made \in Nat
    BY MadeInEvent
  <1>4. \A g \in new : g.event = i /\ g.route \in routes
    OBVIOUS
  <1> HIDE DEF i, routes, u, new
  <1>5. CASE UNCHANGED <<groups, brought>>
    BY <1>1, <1>5, BringsLess
  <1>6. CASE /\ groups' = (groups \ req[p].seen) \cup new
             /\ brought' = [brought EXCEPT ![i] = @ \cup (routes \cap {u})]
    <2>1. /\ DOMAIN brought' = Event
          /\ \A e \in Event : brought'[e] = IF e = i THEN brought[e] \cup (routes \cap {u}) ELSE brought[e]
      BY <1>2, <1>3, <1>6 DEF RoutesInv
    <2>2. \A e \in 1 .. made : brought[e] \subseteq brought'[e]
      BY <1>3, <2>1
    <2>3. \A q \in Proc : Brings(req[q])'
      BY <1>1, <1>3, <2>2, BringsMore
    <2>4. \A e \in DOMAIN events' : EventBrought(e)'
      BY <1>1, <1>3, <2>2 DEF RoutesInv, EventBrought
    <2>5. ASSUME NEW g \in groups' PROVE GroupBrought(g)'
      <3>1. CASE g \in groups
        BY <3>1, <1>1, <2>2 DEF RoutesInv, GroupBrought
      <3>2. CASE g \in new
        <4>1. g.event = i /\ g.route \in brought'[i]
          BY <3>2, <1>2, <1>3, <1>4, <2>1
        <4> QED BY <4>1, <1>1, <1>2 DEF GroupBrought
      <3> QED BY <1>6, <3>1, <3>2
    <2> QED BY <1>1, <2>1, <2>3, <2>4, <2>5 DEF RoutesInv
  <1> QED BY <1>1, <1>5, <1>6

LEMMA StepRoutes == IInv /\ RoutesInv /\ [Next]_vars => RoutesInv'
  <1> SUFFICES ASSUME IInv, RoutesInv, [Next]_vars PROVE RoutesInv'
    OBVIOUS
  <1>1. ASSUME NEW p \in Proc, NEW u \in User, BeginCreate(p, u) PROVE RoutesInv'
    <2>1. PICK host \in mix.hosts, listing \in Listing,
               track \in {None} \cup {x \in {u} : "route" \in mix.edits},
               routes \in SUBSET {x \in {u} : "groups" \in mix.ops} :
            req' = [req EXCEPT ![p] = [Idle EXCEPT !.step = "insert", !.who = u, !.ids = routes,
                      !.row = [NoRow EXCEPT !.host = host, !.listing = listing, !.owner = u, !.route = track]]]
      BY <1>1 DEF BeginCreate, Starts
    <2>2. UNCHANGED <<events, groups, brought, made, mix>>
      BY <1>1 DEF BeginCreate, Offers, issued
    <2> QED BY <2>1, <2>2, BringsNothing DEF Brings, Idle, NoRow
  <1>2. ASSUME NEW p \in Proc, NEW u \in User, NEW e \in DOMAIN events, BeginUpdate(p, u, e) PROVE RoutesInv'
    <2>1. PICK l \in {events[e].listing} \cup {x \in Listing : "listing" \in mix.edits},
               d \in {events[e].day} \cup {x \in Event : "day" \in mix.edits},
               t \in {events[e].route} \cup {x \in {None, u} : "route" \in mix.edits} :
            req' = [req EXCEPT ![p] = [Idle EXCEPT !.step = "save", !.who = u, !.event = e,
                                         !.row = Edited(events[e], l, d, t)]]
      BY <1>2 DEF BeginUpdate, Starts
    <2>2. UNCHANGED <<events, groups, brought, made, mix>>
      BY <1>2 DEF BeginUpdate, Offers, issued
    <2>3. "route" \in DOMAIN Edited(events[e], l, d, t) /\ Edited(events[e], l, d, t).route = t
      BY DEF RoutesInv, EventBrought, Edited
    <2>4. e \in 1 .. made
      BY MadeInEvent
    <2>5. t \in {None} \cup May(e, u)
      BY <2>1 DEF RoutesInv, EventBrought, May
    <2> DEFINE entry == Edited(events[e], l, d, t)
               r == [Idle EXCEPT !.step = "save", !.who = u, !.event = e, !.row = entry]
    <2>6. r.step = "save" /\ r.who = u /\ r.event = e /\ r.row = entry
      BY DEF Idle
    <2>7. "route" \in DOMAIN entry /\ entry.route = t /\ req' = [req EXCEPT ![p] = r]
      BY <2>1, <2>3
    <2> HIDE DEF entry, r
    <2>8. Brings(r)
      BY <2>4, <2>5, <2>6, <2>7 DEF Brings
    <2> QED BY <2>2, <2>7, <2>8, BringsNothing
  <1>3. ASSUME NEW p \in Proc, NEW u \in User, NEW e \in DOMAIN events, BeginGroups(p, u, e) PROVE RoutesInv'
    <2>1. PICK routes \in SUBSET Usable(e, u) :
            req' = [req EXCEPT ![p] = [Idle EXCEPT !.step = "clear", !.who = u, !.event = e, !.ids = routes]]
      BY <1>3 DEF BeginGroups, Starts
    <2>2. UNCHANGED <<events, groups, brought, made, mix>>
      BY <1>3 DEF BeginGroups, Offers, issued
    <2>3. e \in 1 .. made
      BY MadeInEvent
    <2>4. routes \subseteq May(e, u)
      BY <2>1 DEF Usable, GroupsOf, May, RoutesInv, EventBrought, GroupBrought
    <2> QED BY <2>1, <2>2, <2>3, <2>4, BringsNothing DEF Brings, Idle
  <1>4. ASSUME NEW p \in Proc, ClearGroups(p) PROVE RoutesInv'
    <2>1. UNCHANGED <<events, groups, brought, made, mix>> /\ At(p, "clear")
      BY <1>4 DEF ClearGroups, issued
    <2>2. req[p].event \in 1 .. made /\ req[p].ids \subseteq May(req[p].event, req[p].who)
      BY <2>1 DEF RoutesInv, Brings, At
    <2> QED BY <1>4, <2>1, <2>2, BringsNothing DEF ClearGroups, Brings, Idle
  <1>5. ASSUME NEW p \in Proc, ReadLater(p) PROVE RoutesInv'
    <2>1. UNCHANGED <<events, groups, brought, made, mix>>
      BY <1>5 DEF ReadLater, issued
    <2> QED BY <1>5, <2>1, BringsNothing DEF ReadLater, Brings, Idle
  <1>6. ASSUME NEW p \in Proc, NEW u \in User, NEW e, BeginRemove(p, u, e) \/ BeginStop(p, u, e) PROVE RoutesInv'
    <2>1. UNCHANGED <<events, groups, brought, made, mix>>
      BY <1>6 DEF BeginRemove, BeginStop, Offers, issued
    <2> QED BY <1>6, <2>1, BringsNothing DEF BeginRemove, BeginStop, Starts, Brings, Idle
  <1>7. ASSUME NEW p \in Proc, NEW u \in User, NEW e, NEW ctx,
               BeginShare(p, u, ctx, e) \/ BeginUnshare(p, u, ctx, e)
        PROVE  RoutesInv'
    <2>1. UNCHANGED <<events, groups, brought, made, mix>>
      BY <1>7 DEF BeginShare, BeginUnshare, Offers, issued
    <2>2. ASSUME NEW r, req' = [req EXCEPT ![p] = r], r.step \in {"share", "unshare"} PROVE RoutesInv'
      BY <2>1, <2>2, BringsNothing DEF Brings
    <2>3. CASE BeginShare(p, u, ctx, e)
      <3>1. PICK s \in IF SharesOf(e, ctx) = {} THEN {None} ELSE SharesOf(e, ctx),
                 t \in {"unsent"} \cup {x \in Place : "meetup" \in mix.edits} :
              req' = [req EXCEPT ![p] =
                        [Idle EXCEPT !.step = "share", !.event = e, !.share = s, !.text = t,
                           !.shared = IF s = None THEN [NoShare EXCEPT !.event = e, !.host = ctx]
                                      ELSE shares[s]]]
        BY <2>3 DEF BeginShare, Starts
      <3> DEFINE r == [Idle EXCEPT !.step = "share", !.event = e, !.share = s, !.text = t,
                         !.shared = IF s = None THEN [NoShare EXCEPT !.event = e, !.host = ctx]
                                    ELSE shares[s]]
      <3>2. r.step = "share"
        BY DEF Idle
      <3>3. req' = [req EXCEPT ![p] = r]
        BY <3>1
      <3> HIDE DEF r
      <3> QED BY <3>2, <3>3, <2>2
    <2>4. CASE BeginUnshare(p, u, ctx, e)
      BY <2>2, <2>4 DEF BeginUnshare, Starts, Idle
    <2> QED BY <1>7, <2>3, <2>4
  <1>8. ASSUME NEW p \in Proc, NEW u \in User, NEW e, NEW ctx,
               BeginRsvp(p, u, e, ctx) \/ BeginComment(p, u, e, ctx) \/ BeginUncomment(p, u, e, ctx)
        PROVE  RoutesInv'
    <2>1. UNCHANGED <<events, groups, brought, made, mix>>
      BY <1>8 DEF BeginRsvp, BeginComment, BeginUncomment, Offers, issued
    <2>2. ASSUME NEW r, req' = [req EXCEPT ![p] = r], r.step \in {"rsvp", "comment", "uncomment"}
          PROVE  RoutesInv'
      BY <2>1, <2>2, BringsNothing DEF Brings
    <2>3. CASE BeginRsvp(p, u, e, ctx)
      BY <2>2, <2>3 DEF BeginRsvp, Starts, Idle
    <2>4. CASE BeginComment(p, u, e, ctx)
      BY <2>2, <2>4 DEF BeginComment, Starts, Idle
    <2>5. CASE BeginUncomment(p, u, e, ctx)
      BY <2>2, <2>5 DEF BeginUncomment, Starts, Idle
    <2> QED BY <1>8, <2>3, <2>4, <2>5
  <1>9. ASSUME NEW p \in Proc, Remove(p) \/ StopSeries(p) PROVE RoutesInv'
    <2>1. PICK E : DropEvents(E) /\ Ends(p) /\ UNCHANGED <<brought, made, mix>>
      BY <1>9 DEF Remove, StopSeries, issued
    <2>2. groups' \subseteq groups /\ DOMAIN events' \subseteq DOMAIN events /\ \A e \in DOMAIN events' : events'[e] = events[e]
      BY <2>1 DEF DropEvents, Without
    <2> QED BY <2>1, <2>2, BringsLess
  <1>10. ASSUME NEW p \in Proc, WriteShare(p) \/ Unshare(p) \/ SaveRsvp(p) \/ AddComment(p) \/ DeleteComment(p)
         PROVE  RoutesInv'
    <2>1. UNCHANGED <<events, groups, brought, made, mix>> /\ Ends(p)
      BY <1>10 DEF WriteShare, Unshare, SaveRsvp, AddComment, DeleteComment, issued
    <2> QED BY <2>1, BringsLess
  <1>11. ASSUME NEW p \in Proc, Insert(p) \/ SaveEvent(p) \/ WriteGroups(p) PROVE RoutesInv'
    BY <1>11, InsertBrings, SaveBrings, WriteBrings
  <1>12. CASE UNCHANGED vars \/ SuspensionChanges \/ \E u \in User, role \in mix.roles : MembershipChanges(u, role)
    <2>1. UNCHANGED <<events, groups, brought, made, mix, req>>
      BY <1>12 DEF vars, SuspensionChanges, MembershipChanges, issued
    <2> QED BY <2>1 DEF RoutesInv, EventBrought, GroupBrought, Brings, May
  <1> QED BY <1>1, <1>2, <1>3, <1>4, <1>5, <1>6, <1>7, <1>8, <1>9, <1>10, <1>11, <1>12 DEF Next

(* An event has no route that its owner did not once bring: whoever edits it or its pace
   groups, at once or with what was read before, keeps routes of others and adds none. *)
THEOREM OthersRoutesAreKept == Spec => []RoutesBroughtByOwners
  <1>1. Spec => [](IInv /\ RoutesInv)
    <2>1. Init => IInv /\ RoutesInv
      BY InitAgrees, InitRoutes
    <2>2. IInv /\ RoutesInv /\ [Next]_vars => (IInv /\ RoutesInv)'
      BY StepAgrees, StepRoutes
    <2> QED BY <2>1, <2>2, PTL DEF Spec
  <1>2. IInv /\ RoutesInv => RoutesBroughtByOwners
    BY BroughtByOwners
  <1> QED BY <1>1, <1>2, PTL

-----------------------------------------------------------------------------
(***************************************************************************)
(* Stopped series.                                                         *)
(***************************************************************************)

\* A series is named by an id that was handed out.
RowSeries(entry) == "series" \in DOMAIN entry /\ entry.series \in {None} \cup 1 .. made

EventSeries(e) == RowSeries(events[e])

AboutSeries(r) ==
    /\ r.step = "insert" => "series" \in DOMAIN r.row
    /\ r.step = "save" => RowSeries(r.row)
    /\ r.step \in {"later", "stop"} => r.row.series \in (1 .. made) \ {None}

\* What a stop read of the series is what is still there of it, but for what was saved.
ReadIsThere(p) ==
    \A e \in DOMAIN events \ saved[p] :
        events[e].series = req[p].row.series => (e \in req[p].ids <=> events[e].day >= req[p].row.day)

SeriesInv ==
    /\ DOMAIN saved = Proc
    /\ \A e \in DOMAIN events : EventSeries(e)
    /\ \A p \in Proc : AboutSeries(req[p])
    /\ \A p \in Proc : At(p, "stop") => ReadIsThere(p)

LEMMA InitSeries == Init => SeriesInv
  BY DEF Init, SeriesInv, AboutSeries, At, Idle

(* A request that begins or goes on leaves the events as they are. *)
LEMMA SeriesStay ==
  ASSUME IInv, SeriesInv, NEW p \in Proc, NEW r, req' = [req EXCEPT ![p] = r], AboutSeries(r),
         r.step # "stop", UNCHANGED <<events, saved, made>>
  PROVE  SeriesInv'
  <1>1. \A q \in Proc : req'[q] = IF q = p THEN r ELSE req[q]
    BY DEF IInv, Shape
  <1>2. \A q \in Proc : AboutSeries(req[q])'
    BY <1>1 DEF SeriesInv, AboutSeries, EventSeries, RowSeries
  <1>3. ASSUME NEW q \in Proc, At(q, "stop")' PROVE ReadIsThere(q)'
    <2>1. q # p /\ At(q, "stop") /\ req'[q] = req[q]
      BY <1>1, <1>3 DEF At
    <2> QED BY <2>1 DEF SeriesInv, ReadIsThere
  <1> QED BY <1>2, <1>3 DEF SeriesInv, EventSeries, RowSeries

(* A request that ends having changed events: those left as they were are in the series they
   were in, and new ones in none that was there before. *)
LEMMA SeriesChange ==
  ASSUME IInv, SeriesInv, NEW p \in Proc, Ends(p), made' \in Nat, made =< made',
         DOMAIN saved' = Proc, \A q \in Proc : saved[q] \subseteq saved'[q],
         \A e \in DOMAIN events' : EventSeries(e)',
         \A e \in DOMAIN events' : \/ e \in DOMAIN events /\ events'[e] = events[e]
                                   \/ \A q \in Proc : e \in saved'[q]
                                   \/ events'[e].series \notin (1 .. made) \ {None}
  PROVE  SeriesInv'
  <1>1. \A q \in Proc : req'[q] = IF q = p THEN Idle ELSE req[q]
    BY DEF IInv, Shape, Ends
  <1>2. \A t : t \in 1 .. made => t \in 1 .. made'
    BY DEF IInv, Shape
  <1>3. \A q \in Proc : AboutSeries(req[q])'
    BY <1>1, <1>2 DEF SeriesInv, AboutSeries, EventSeries, RowSeries, Idle
  <1>4. ASSUME NEW q \in Proc, At(q, "stop")' PROVE ReadIsThere(q)'
    <2>1. At(q, "stop") /\ req'[q] = req[q]
      BY <1>1, <1>4 DEF At, Idle
    <2>2. req[q].row.series \in (1 .. made) \ {None} /\ ReadIsThere(q)
      BY <2>1 DEF SeriesInv, AboutSeries, At
    <2>3. ASSUME NEW e \in DOMAIN events' \ saved'[q], events'[e].series = req[q].row.series
          PROVE  e \in req[q].ids <=> events'[e].day >= req[q].row.day
      BY <2>2, <2>3 DEF ReadIsThere
    <2> QED BY <2>1, <2>3 DEF ReadIsThere
  <1> QED BY <1>3, <1>4 DEF SeriesInv

LEMMA InsertSeries ==
  ASSUME IInv, RoutesInv, SeriesInv, NEW p \in Proc, Insert(p)
  PROVE  SeriesInv'
  <1>1. PICK n \in 1 .. mix.events - made :
          /\ made' = made + n
          /\ events' = [e \in DOMAIN events \cup (made + 1 .. made + n) |->
                          IF e \notin made + 1 .. made + n THEN events[e]
                          ELSE [req[p].row EXCEPT !.day = e - made,
                                                  !.series = IF n = 1 THEN None ELSE made + 1]]
    BY DEF Insert
  <1> DEFINE S == made + 1 .. made + n
  <1>2. /\ DOMAIN events \subseteq 1 .. made /\ made \in Nat /\ mix.events \in Nat
        /\ At(p, "insert") /\ Ends(p) /\ UNCHANGED saved
    BY MadeInEvent DEF Insert
  <1>3. made' \in Nat /\ made =< made' /\ made + 1 \in 1 .. made' /\ made + 1 \notin 1 .. made
    <2>1. made' = made + n
      BY <1>1
    <2>2. n \in Nat /\ 1 =< n
      BY <1>2
    <2> QED BY <1>2, <2>1, <2>2
  <1>4. "series" \in DOMAIN req[p].row
    BY <1>2 DEF SeriesInv, AboutSeries, At
  <1>5. ASSUME NEW e \in S
        PROVE  /\ "series" \in DOMAIN events'[e]
               /\ events'[e].series \in {None, made + 1}
    <2>1. events'[e] = [req[p].row EXCEPT !.day = e - made, !.series = IF n = 1 THEN None ELSE made + 1]
      BY <1>1
    <2> QED BY <1>4, <2>1
  <1>6. \A e \in DOMAIN events' : e \in S \/ (e \in DOMAIN events /\ events'[e] = events[e])
    BY <1>1
  <1> HIDE DEF S
  <1>7. \A e \in DOMAIN events' : EventSeries(e)'
    <2>1. \A t : t \in 1 .. made => t \in 1 .. made'
      BY <1>2, <1>3
    <2> QED BY <1>3, <1>5, <1>6, <2>1 DEF SeriesInv, EventSeries, RowSeries
  <1>8. \A e \in DOMAIN events' : \/ e \in DOMAIN events /\ events'[e] = events[e]
                                  \/ events'[e].series \notin (1 .. made) \ {None}
    BY <1>3, <1>5, <1>6
  <1> QED BY <1>2, <1>3, <1>7, <1>8, SeriesChange, SMTT(30) DEF SeriesInv

LEMMA SaveSeries ==
  ASSUME IInv, SeriesInv, NEW p \in Proc, SaveEvent(p)
  PROVE  SeriesInv'
  <1>1. /\ At(p, "save") /\ Ends(p) /\ UNCHANGED made
        /\ events' = Put(events, req[p].event, req[p].row)
        /\ saved' = [q \in Proc |-> saved[q] \cup {req[p].event}]
    BY DEF SaveEvent, issued
  <1>2. RowSeries(req[p].row)
    BY <1>1 DEF SeriesInv, AboutSeries, At
  <1>3. \A e \in DOMAIN events' : \/ e = req[p].event /\ events'[e] = req[p].row
                                  \/ e \in DOMAIN events /\ events'[e] = events[e]
    BY <1>1 DEF Put
  <1>4. \A e \in DOMAIN events' : EventSeries(e)'
    BY <1>1, <1>2, <1>3 DEF SeriesInv, EventSeries, RowSeries
  <1>5. made' \in Nat /\ made =< made'
    BY <1>1 DEF IInv, Shape
  <1> QED BY <1>1, <1>3, <1>4, <1>5, SeriesChange

LEMMA ReadSeries ==
  ASSUME IInv, SeriesInv, NEW p \in Proc, ReadLater(p)
  PROVE  SeriesInv'
  <1> DEFINE r == [Idle EXCEPT !.step = "stop", !.event = req[p].event, !.row = req[p].row,
                               !.ids = Later(req[p].row)]
  <1>1. At(p, "later") /\ req' = [req EXCEPT ![p] = r] /\ saved' = [saved EXCEPT ![p] = {}]
        /\ UNCHANGED <<events, made>>
    BY DEF ReadLater, issued
  <1>2. r.step = "stop" /\ r.row = req[p].row /\ r.ids = Later(req[p].row)
    BY DEF Idle
  <1> HIDE DEF r
  <1>3. \A q \in Proc : req'[q] = IF q = p THEN r ELSE req[q]
    BY <1>1 DEF IInv, Shape
  <1>4. \A q \in Proc : AboutSeries(req[q])'
    BY <1>1, <1>2, <1>3 DEF SeriesInv, AboutSeries, EventSeries, RowSeries, At
  <1>5. ASSUME NEW q \in Proc, At(q, "stop")' PROVE ReadIsThere(q)'
    <2>1. CASE q = p
      BY <1>1, <1>2, <1>3, <2>1 DEF ReadIsThere, Later
    <2>2. CASE q # p
      <3>1. At(q, "stop") /\ req'[q] = req[q] /\ saved'[q] = saved[q]
        BY <1>1, <1>3, <1>5, <2>2 DEF At, SeriesInv
      <3> QED BY <1>1, <3>1 DEF SeriesInv, ReadIsThere
    <2> QED BY <2>1, <2>2
  <1> QED BY <1>1, <1>4, <1>5 DEF SeriesInv, EventSeries, RowSeries

LEMMA StepSeries == IInv /\ RoutesInv /\ SeriesInv /\ [Next]_vars => SeriesInv'
  <1> SUFFICES ASSUME IInv, RoutesInv, SeriesInv, [Next]_vars PROVE SeriesInv'
    OBVIOUS
  <1>1. ASSUME NEW p \in Proc, NEW u \in User, BeginCreate(p, u) PROVE SeriesInv'
    <2>1. PICK host \in mix.hosts, listing \in Listing,
               track \in {None} \cup {x \in {u} : "route" \in mix.edits},
               routes \in SUBSET {x \in {u} : "groups" \in mix.ops} :
            req' = [req EXCEPT ![p] = [Idle EXCEPT !.step = "insert", !.who = u, !.ids = routes,
                      !.row = [NoRow EXCEPT !.host = host, !.listing = listing, !.owner = u, !.route = track]]]
      BY <1>1 DEF BeginCreate, Starts
    <2>2. UNCHANGED <<events, saved, made>>
      BY <1>1 DEF BeginCreate, Offers, issued
    <2> DEFINE entry == [NoRow EXCEPT !.host = host, !.listing = listing, !.owner = u, !.route = track]
               r == [Idle EXCEPT !.step = "insert", !.who = u, !.ids = routes, !.row = entry]
    <2>3. "series" \in DOMAIN entry
      BY DEF NoRow
    <2>4. r.step = "insert" /\ r.row = entry /\ req' = [req EXCEPT ![p] = r]
      BY <2>1 DEF Idle
    <2> HIDE DEF entry, r
    <2> QED BY <2>2, <2>3, <2>4, SeriesStay DEF AboutSeries
  <1>2. ASSUME NEW p \in Proc, NEW u \in User, NEW e \in DOMAIN events, BeginUpdate(p, u, e) PROVE SeriesInv'
    <2>1. PICK l \in {events[e].listing} \cup {x \in Listing : "listing" \in mix.edits},
               d \in {events[e].day} \cup {x \in Event : "day" \in mix.edits},
               t \in {events[e].route} \cup {x \in {None, u} : "route" \in mix.edits} :
            req' = [req EXCEPT ![p] = [Idle EXCEPT !.step = "save", !.who = u, !.event = e,
                                         !.row = Edited(events[e], l, d, t)]]
      BY <1>2 DEF BeginUpdate, Starts
    <2>2. UNCHANGED <<events, saved, made>>
      BY <1>2 DEF BeginUpdate, Offers, issued
    <2> DEFINE entry == Edited(events[e], l, d, t)
               r == [Idle EXCEPT !.step = "save", !.who = u, !.event = e, !.row = entry]
    <2>3. RowSeries(entry)
      BY DEF SeriesInv, EventSeries, RowSeries, Edited
    <2>4. r.step = "save" /\ r.row = entry /\ req' = [req EXCEPT ![p] = r]
      BY <2>1 DEF Idle
    <2> HIDE DEF entry, r
    <2> QED BY <2>2, <2>3, <2>4, SeriesStay DEF AboutSeries
  <1>3. ASSUME NEW p \in Proc, NEW u \in User, NEW e \in DOMAIN events, BeginStop(p, u, e) PROVE SeriesInv'
    <2>1. req' = [req EXCEPT ![p] = [Idle EXCEPT !.step = "later", !.event = e, !.row = events[e]]]
          /\ events[e].series # None /\ UNCHANGED <<events, saved, made>>
      BY <1>3 DEF BeginStop, Starts, Offers, issued
    <2>2. events[e].series \in 1 .. made
      BY <2>1 DEF SeriesInv, EventSeries, RowSeries
    <2> DEFINE r == [Idle EXCEPT !.step = "later", !.event = e, !.row = events[e]]
    <2>3. r.step = "later" /\ r.row = events[e] /\ req' = [req EXCEPT ![p] = r]
      BY <2>1 DEF Idle
    <2> HIDE DEF r
    <2> QED BY <2>1, <2>2, <2>3, SeriesStay DEF AboutSeries
  <1>4. ASSUME NEW p \in Proc, NEW u \in User, NEW e, BeginRemove(p, u, e) \/ BeginGroups(p, u, e) PROVE SeriesInv'
    <2>1. UNCHANGED <<events, saved, made>>
      BY <1>4 DEF BeginRemove, BeginGroups, issued
    <2>2. ASSUME NEW r, req' = [req EXCEPT ![p] = r], r.step \in {"remove", "clear"} PROVE SeriesInv'
      BY <2>1, <2>2, SeriesStay DEF AboutSeries
    <2> QED BY <1>4, <2>2 DEF BeginRemove, BeginGroups, Starts, Idle
  <1>5. ASSUME NEW p \in Proc, ClearGroups(p) PROVE SeriesInv'
    <2>1. UNCHANGED <<events, saved, made>>
      BY <1>5 DEF ClearGroups, issued
    <2>2. ASSUME NEW r, req' = [req EXCEPT ![p] = r], r.step = "write" PROVE SeriesInv'
      BY <2>1, <2>2, SeriesStay DEF AboutSeries
    <2> QED BY <1>5, <2>2 DEF ClearGroups, Idle
  <1>6. ASSUME NEW p \in Proc, NEW u \in User, NEW e, NEW ctx,
               BeginShare(p, u, ctx, e) \/ BeginUnshare(p, u, ctx, e)
        PROVE  SeriesInv'
    <2>1. UNCHANGED <<events, saved, made>>
      BY <1>6 DEF BeginShare, BeginUnshare, issued
    <2>2. ASSUME NEW r, req' = [req EXCEPT ![p] = r], r.step \in {"share", "unshare"} PROVE SeriesInv'
      BY <2>1, <2>2, SeriesStay DEF AboutSeries
    <2>3. CASE BeginShare(p, u, ctx, e)
      <3>1. PICK s \in IF SharesOf(e, ctx) = {} THEN {None} ELSE SharesOf(e, ctx),
                 t \in {"unsent"} \cup {x \in Place : "meetup" \in mix.edits} :
              req' = [req EXCEPT ![p] =
                        [Idle EXCEPT !.step = "share", !.event = e, !.share = s, !.text = t,
                           !.shared = IF s = None THEN [NoShare EXCEPT !.event = e, !.host = ctx]
                                      ELSE shares[s]]]
        BY <2>3 DEF BeginShare, Starts
      <3> DEFINE r == [Idle EXCEPT !.step = "share", !.event = e, !.share = s, !.text = t,
                         !.shared = IF s = None THEN [NoShare EXCEPT !.event = e, !.host = ctx]
                                    ELSE shares[s]]
      <3>2. r.step = "share" /\ req' = [req EXCEPT ![p] = r]
        BY <3>1 DEF Idle
      <3> HIDE DEF r
      <3> QED BY <3>2, <2>2
    <2>4. CASE BeginUnshare(p, u, ctx, e)
      BY <2>2, <2>4 DEF BeginUnshare, Starts, Idle
    <2> QED BY <1>6, <2>3, <2>4
  <1>7. ASSUME NEW p \in Proc, NEW u \in User, NEW e, NEW ctx,
               BeginRsvp(p, u, e, ctx) \/ BeginComment(p, u, e, ctx) \/ BeginUncomment(p, u, e, ctx)
        PROVE  SeriesInv'
    <2>1. UNCHANGED <<events, saved, made>>
      BY <1>7 DEF BeginRsvp, BeginComment, BeginUncomment, issued
    <2>2. ASSUME NEW r, req' = [req EXCEPT ![p] = r], r.step \in {"rsvp", "comment", "uncomment"}
          PROVE  SeriesInv'
      BY <2>1, <2>2, SeriesStay DEF AboutSeries
    <2>3. CASE BeginRsvp(p, u, e, ctx)
      BY <2>2, <2>3 DEF BeginRsvp, Starts, Idle
    <2>4. CASE BeginComment(p, u, e, ctx)
      BY <2>2, <2>4 DEF BeginComment, Starts, Idle
    <2>5. CASE BeginUncomment(p, u, e, ctx)
      BY <2>2, <2>5 DEF BeginUncomment, Starts, Idle
    <2> QED BY <1>7, <2>3, <2>4, <2>5
  <1>8. ASSUME NEW p \in Proc, Ends(p), UNCHANGED <<saved, made>>,
               DOMAIN events' \subseteq DOMAIN events, \A e \in DOMAIN events' : events'[e] = events[e]
        PROVE  SeriesInv'
    <2>1. \A e \in DOMAIN events' : EventSeries(e)'
      BY <1>8 DEF SeriesInv, EventSeries, RowSeries
    <2>2. made' \in Nat /\ made =< made'
      BY <1>8 DEF IInv, Shape
    <2> QED BY <1>8, <2>1, <2>2, SeriesChange DEF SeriesInv
  <1>9. ASSUME NEW p \in Proc, Remove(p) \/ StopSeries(p) PROVE SeriesInv'
    <2>1. PICK E : DropEvents(E) /\ Ends(p) /\ UNCHANGED <<saved, made>>
      BY <1>9 DEF Remove, StopSeries, issued
    <2> QED BY <2>1, <1>8 DEF DropEvents, Without
  <1>10. ASSUME NEW p \in Proc, WriteGroups(p) \/ WriteShare(p) \/ Unshare(p) \/ SaveRsvp(p)
                                \/ AddComment(p) \/ DeleteComment(p)
         PROVE  SeriesInv'
    <2>1. UNCHANGED <<events, saved, made>> /\ Ends(p)
      BY <1>10 DEF WriteGroups, WriteShare, Unshare, SaveRsvp, AddComment, DeleteComment, issued
    <2> QED BY <2>1, <1>8
  <1>11. ASSUME NEW p \in Proc, Insert(p) \/ SaveEvent(p) \/ ReadLater(p) PROVE SeriesInv'
    BY <1>11, InsertSeries, SaveSeries, ReadSeries
  <1>12. CASE UNCHANGED vars \/ SuspensionChanges \/ \E u \in User, role \in mix.roles : MembershipChanges(u, role)
    <2>1. UNCHANGED <<events, saved, made, req>>
      BY <1>12 DEF vars, SuspensionChanges, MembershipChanges, issued
    <2> QED BY <2>1 DEF SeriesInv, AboutSeries, EventSeries, RowSeries, ReadIsThere, At
  <1> QED BY <1>1, <1>2, <1>3, <1>4, <1>5, <1>6, <1>7, <1>9, <1>10, <1>11, <1>12 DEF Next

(* A stop leaves its step by its delete alone, which takes what the invariant names. *)
LEMMA StopStep == IInv /\ SeriesInv /\ [Next]_vars => StopTakes
  <1> SUFFICES ASSUME IInv, SeriesInv, [Next]_vars,
                      NEW p \in Proc, At(p, "stop"), ~At(p, "stop")',
                      NEW e \in DOMAIN events \ saved[p], events[e].series = req[p].row.series
               PROVE  e \notin DOMAIN events' <=> events[e].day >= req[p].row.day
    BY DEF StopTakes
  <1>1. e \in req[p].ids <=> events[e].day >= req[p].row.day
    BY DEF SeriesInv, ReadIsThere
  <1>2. CASE StopSeries(p)
    <2>1. DOMAIN events' = DOMAIN events \ req[p].ids
      BY <1>2 DEF StopSeries, DropEvents, Without
    <2> QED BY <1>1, <2>1
  <1>3. ASSUME NEW q, NEW r, q # p, req' = [req EXCEPT ![q] = r] PROVE FALSE
    BY <1>3 DEF IInv, Shape, At
  <1>4. ASSUME NEW q \in Proc, NEW u \in User, NEW x, NEW ctx,
               BeginCreate(q, u) \/ BeginUpdate(q, u, x) \/ BeginRemove(q, u, x) \/ BeginStop(q, u, x)
               \/ BeginGroups(q, u, x) \/ BeginShare(q, u, ctx, x) \/ BeginUnshare(q, u, ctx, x)
               \/ BeginRsvp(q, u, x, ctx) \/ BeginComment(q, u, x, ctx) \/ BeginUncomment(q, u, x, ctx)
        PROVE  FALSE
    <2>1. \E r : Starts(q, r)
      BY <1>4 DEF BeginCreate, BeginUpdate, BeginRemove, BeginStop, BeginGroups, BeginShare, BeginUnshare,
                  BeginRsvp, BeginComment, BeginUncomment
    <2> QED BY <2>1, <1>3, SMTT(30) DEF Starts, At
  <1>5. ASSUME NEW q \in Proc, q # p \/ ~StopSeries(q),
               Insert(q) \/ SaveEvent(q) \/ Remove(q) \/ ReadLater(q) \/ StopSeries(q) \/ ClearGroups(q)
               \/ WriteGroups(q) \/ WriteShare(q) \/ Unshare(q) \/ SaveRsvp(q) \/ AddComment(q)
               \/ DeleteComment(q)
        PROVE  FALSE
    <2>1. q # p
      BY <1>5, ZenonT(40) DEF Insert, SaveEvent, Remove, ReadLater, ClearGroups, WriteGroups, WriteShare, Unshare,
                  SaveRsvp, AddComment, DeleteComment, At
    <2>2. \E r : req' = [req EXCEPT ![q] = r]
      BY <1>5 DEF Insert, SaveEvent, Remove, ReadLater, StopSeries, ClearGroups, WriteGroups, WriteShare,
                  Unshare, SaveRsvp, AddComment, DeleteComment, Ends
    <2> QED BY <2>1, <2>2, <1>3
  <1>6. ASSUME UNCHANGED req PROVE FALSE
    BY <1>6 DEF At
  <1> QED BY <1>2, <1>4, <1>5, <1>6 DEF Next, SuspensionChanges, MembershipChanges, vars

(* A stop takes what is left of its series from its day on, and nothing earlier, whatever
   other requests insert, remove and stop between its read and its delete. *)
THEOREM StopsTakeTheRest == Spec => StopTakesTheRest
  <1>1. Spec => [](IInv /\ RoutesInv /\ SeriesInv)
    <2>1. Init => IInv /\ RoutesInv /\ SeriesInv
      BY InitAgrees, InitRoutes, InitSeries
    <2>2. IInv /\ RoutesInv /\ SeriesInv /\ [Next]_vars => (IInv /\ RoutesInv /\ SeriesInv)'
      BY StepAgrees, StepRoutes, StepSeries
    <2> QED BY <2>1, <2>2, PTL DEF Spec
  <1>2. IInv /\ SeriesInv /\ [Next]_vars => StopTakes
    BY StopStep
  <1> QED BY <1>1, <1>2, PTL DEF Spec, StopTakesTheRest

-----------------------------------------------------------------------------
(***************************************************************************)
(* What people see.                                                        *)
(***************************************************************************)

Crews == [User -> {"none", "member", "admin"}]
Subs == [User -> {"none", "member", "moderator"}]

\* Riders of the subgroup belong to the community.
People == crew \in Crews /\ sub \in Subs /\ \A u \in User : sub[u] # "none" => crew[u] # "none"

RowIn(entry) == entry.host \in Host /\ entry.listing \in Listing
EventIn(e) == RowIn(events[e])
Audiences == Host \ {"open"}

ViewInv ==
    /\ People
    /\ \A e \in DOMAIN events : EventIn(e)
    /\ \A p \in Proc : At(p, "insert") \/ At(p, "save") => RowIn(req[p].row)
    /\ \A s \in DOMAIN shares : shares[s].host \in Audiences
    /\ \A p \in Proc : At(p, "share") => req[p].shared.host \in Audiences

LEMMA InitViews == Init => ViewInv
  <1> SUFFICES ASSUME Init PROVE ViewInv
    OBVIOUS
  <1>1. PICK role \in [User -> mix.roles] :
          crew = [u \in User |-> role[u][1]] /\ sub = [u \in User |-> role[u][2]]
    BY DEF Init
  <1>2. mix.roles \subseteq Role
    BY MixesAssumption DEF Init, Mix
  <1>3. \A r \in Role : /\ r[1] \in {"none", "member", "admin"} /\ r[2] \in {"none", "member", "moderator"}
                        /\ r[2] # "none" => r[1] # "none"
    BY DEF Role
  <1>4. People
    BY <1>1, <1>2, <1>3 DEF People, Crews, Subs
  <1> QED BY <1>4 DEF Init, ViewInv, At, Idle

(* A request that begins or goes on. *)
LEMMA ViewsStay ==
  ASSUME IInv, ViewInv, NEW p \in Proc, NEW r, req' = [req EXCEPT ![p] = r],
         r.step \in {"insert", "save"} => RowIn(r.row), r.step = "share" => r.shared.host \in Audiences,
         UNCHANGED <<people, events, shares>>
  PROVE  ViewInv'
  <1>1. \A q \in Proc : req'[q] = IF q = p THEN r ELSE req[q]
    BY DEF IInv, Shape
  <1> QED BY <1>1 DEF ViewInv, People, EventIn, At, people

(* A request that ends with events and shares as it had them or as they were. *)
LEMMA ViewsChange ==
  ASSUME IInv, ViewInv, NEW p \in Proc, Ends(p), UNCHANGED people,
         \A e \in DOMAIN events' : EventIn(e)', \A s \in DOMAIN shares' : shares'[s].host \in Audiences
  PROVE  ViewInv'
  <1>1. \A q \in Proc : req'[q] = IF q = p THEN Idle ELSE req[q]
    BY DEF IInv, Shape, Ends
  <1>2. \A q \in Proc, x \in {"insert", "save", "share"} : At(q, x)' => At(q, x) /\ req'[q] = req[q]
    BY <1>1 DEF At, Idle
  <1> QED BY <1>2 DEF ViewInv, People, people

LEMMA StepViews == IInv /\ ViewInv /\ [Next]_vars => ViewInv'
  <1> SUFFICES ASSUME IInv, ViewInv, [Next]_vars PROVE ViewInv'
    OBVIOUS
  <1>1. ASSUME NEW p \in Proc, NEW u \in User, BeginCreate(p, u) PROVE ViewInv'
    <2>1. PICK host \in mix.hosts, listing \in Listing,
               track \in {None} \cup {x \in {u} : "route" \in mix.edits},
               routes \in SUBSET {x \in {u} : "groups" \in mix.ops} :
            req' = [req EXCEPT ![p] = [Idle EXCEPT !.step = "insert", !.who = u, !.ids = routes,
                      !.row = [NoRow EXCEPT !.host = host, !.listing = listing, !.owner = u, !.route = track]]]
      BY <1>1 DEF BeginCreate, Starts
    <2>2. UNCHANGED <<people, events, shares>>
      BY <1>1 DEF BeginCreate, Offers
    <2> DEFINE entry == [NoRow EXCEPT !.host = host, !.listing = listing, !.owner = u, !.route = track]
               r == [Idle EXCEPT !.step = "insert", !.who = u, !.ids = routes, !.row = entry]
    <2>3. host \in Host
      BY MixesAssumption DEF IInv, Shape, Mix
    <2>4. RowIn(entry)
      BY <2>3 DEF RowIn, NoRow
    <2>5. r.step = "insert" /\ r.row = entry /\ req' = [req EXCEPT ![p] = r]
      BY <2>1 DEF Idle
    <2> HIDE DEF entry, r
    <2> QED BY <2>2, <2>4, <2>5, ViewsStay
  <1>2. ASSUME NEW p \in Proc, NEW u \in User, NEW e \in DOMAIN events, BeginUpdate(p, u, e) PROVE ViewInv'
    <2>1. PICK l \in {events[e].listing} \cup {x \in Listing : "listing" \in mix.edits},
               d \in {events[e].day} \cup {x \in Event : "day" \in mix.edits},
               t \in {events[e].route} \cup {x \in {None, u} : "route" \in mix.edits} :
            req' = [req EXCEPT ![p] = [Idle EXCEPT !.step = "save", !.who = u, !.event = e,
                                         !.row = Edited(events[e], l, d, t)]]
      BY <1>2 DEF BeginUpdate, Starts
    <2>2. UNCHANGED <<people, events, shares>>
      BY <1>2 DEF BeginUpdate, Offers
    <2> DEFINE entry == Edited(events[e], l, d, t)
               r == [Idle EXCEPT !.step = "save", !.who = u, !.event = e, !.row = entry]
    <2>3. RowIn(events[e]) /\ l \in Listing /\ IsRow(events[e])
      BY DEF ViewInv, EventIn, RowIn, IInv, Shape, PublicIfOpen
    <2>4. RowIn(entry)
      BY <2>3 DEF RowIn, Edited, IsRow
    <2>5. r.step = "save" /\ r.row = entry /\ req' = [req EXCEPT ![p] = r]
      BY <2>1 DEF Idle
    <2> HIDE DEF entry, r
    <2> QED BY <2>2, <2>4, <2>5, ViewsStay
  <1>3. ASSUME NEW p \in Proc, NEW u \in User, NEW e \in DOMAIN events, NEW ctx \in Audiences,
               BeginShare(p, u, ctx, e)
        PROVE  ViewInv'
    <2>1. PICK s \in IF SharesOf(e, ctx) = {} THEN {None} ELSE SharesOf(e, ctx),
               t \in {"unsent"} \cup {x \in Place : "meetup" \in mix.edits} :
            req' = [req EXCEPT ![p] =
                      [Idle EXCEPT !.step = "share", !.event = e, !.share = s, !.text = t,
                         !.shared = IF s = None THEN [NoShare EXCEPT !.event = e, !.host = ctx]
                                    ELSE shares[s]]]
      BY <1>3 DEF BeginShare, Starts
    <2>2. UNCHANGED <<people, events, shares>>
      BY <1>3 DEF BeginShare, Offers
    <2> DEFINE entry == IF s = None THEN [NoShare EXCEPT !.event = e, !.host = ctx] ELSE shares[s]
               r == [Idle EXCEPT !.step = "share", !.event = e, !.share = s, !.text = t, !.shared = entry]
    <2>3. entry.host \in Audiences
      BY DEF ViewInv, SharesOf, NoShare
    <2>4. r.step = "share" /\ r.shared = entry /\ req' = [req EXCEPT ![p] = r]
      BY <2>1 DEF Idle
    <2> HIDE DEF entry, r
    <2> QED BY <2>2, <2>3, <2>4, ViewsStay
  <1>4. ASSUME NEW p \in Proc, NEW r, req' = [req EXCEPT ![p] = r], UNCHANGED <<people, events, shares>>,
               r.step \notin {"insert", "save", "share"}
        PROVE  ViewInv'
    BY <1>4, ViewsStay
  <1>5. ASSUME NEW p \in Proc, NEW u \in User, NEW e,
               BeginRemove(p, u, e) \/ BeginStop(p, u, e) \/ BeginGroups(p, u, e)
        PROVE  ViewInv'
    <2>1. UNCHANGED <<people, events, shares>>
      BY <1>5 DEF BeginRemove, BeginStop, BeginGroups, Offers
    <2> QED BY <1>4, <1>5, <2>1 DEF BeginRemove, BeginStop, BeginGroups, Starts, Idle
  <1>6. ASSUME NEW p \in Proc, NEW u \in User, NEW e, NEW ctx,
               BeginUnshare(p, u, ctx, e) \/ BeginRsvp(p, u, e, ctx) \/ BeginComment(p, u, e, ctx)
               \/ BeginUncomment(p, u, e, ctx)
        PROVE  ViewInv'
    <2>1. UNCHANGED <<people, events, shares>>
      BY <1>6 DEF BeginUnshare, BeginRsvp, BeginComment, BeginUncomment, Offers
    <2>2. CASE BeginUnshare(p, u, ctx, e)
      BY <1>4, <2>1, <2>2 DEF BeginUnshare, Starts, Idle
    <2>3. CASE BeginRsvp(p, u, e, ctx)
      BY <1>4, <2>1, <2>3 DEF BeginRsvp, Starts, Idle
    <2>4. CASE BeginComment(p, u, e, ctx)
      BY <1>4, <2>1, <2>4 DEF BeginComment, Starts, Idle
    <2>5. CASE BeginUncomment(p, u, e, ctx)
      BY <1>4, <2>1, <2>5 DEF BeginUncomment, Starts, Idle
    <2> QED BY <1>6, <2>2, <2>3, <2>4, <2>5, SMTT(30)
  <1>7. ASSUME NEW p \in Proc, ReadLater(p) \/ ClearGroups(p) PROVE ViewInv'
    <2>1. UNCHANGED <<people, events, shares>>
      BY <1>7 DEF ReadLater, ClearGroups
    <2> QED BY <1>4, <1>7, <2>1 DEF ReadLater, ClearGroups, Idle
  <1>8. ASSUME NEW p \in Proc, Insert(p) PROVE ViewInv'
    <2>1. PICK n : /\ events' = [e \in DOMAIN events \cup (made + 1 .. made + n) |->
                                   IF e \notin made + 1 .. made + n THEN events[e]
                                   ELSE [req[p].row EXCEPT !.day = e - made,
                                                           !.series = IF n = 1 THEN None ELSE made + 1]]
                   /\ At(p, "insert") /\ Ends(p) /\ UNCHANGED <<people, shares>>
      BY <1>8 DEF Insert
    <2>2. RowIn(req[p].row) /\ IsRow(req[p].row)
      BY <2>1 DEF ViewInv, IInv, Shape, PublicIfOpen
    <2>3. ASSUME NEW d, NEW t PROVE RowIn([req[p].row EXCEPT !.day = d, !.series = t])
      BY <2>2 DEF RowIn, IsRow
    <2>4. \A e \in DOMAIN events' : EventIn(e)'
      BY <2>1, <2>3 DEF ViewInv, EventIn
    <2> QED BY <2>1, <2>4, ViewsChange, ZenonT(40) DEF ViewInv
  <1>9. ASSUME NEW p \in Proc, SaveEvent(p) PROVE ViewInv'
    <2>1. /\ events' = Put(events, req[p].event, req[p].row)
          /\ At(p, "save") /\ Ends(p) /\ UNCHANGED <<people, shares>>
      BY <1>9 DEF SaveEvent
    <2>2. \A e \in DOMAIN events' : EventIn(e)'
      BY <2>1 DEF ViewInv, EventIn, Put
    <2> QED BY <2>1, <2>2, ViewsChange DEF ViewInv
  <1>10. ASSUME NEW p \in Proc, WriteShare(p) PROVE ViewInv'
    <2> DEFINE entry == Merged(req[p].shared, req[p].text)
    <2>1. /\ UNCHANGED shares \/ \E s : shares' = Put(shares, s, entry)
          /\ At(p, "share") /\ Ends(p) /\ UNCHANGED <<people, events>>
      BY <1>10 DEF WriteShare
    <2>2. entry.host \in Audiences
      BY <2>1 DEF ViewInv, IInv, Shape, IsShare, Merged
    <2> HIDE DEF entry
    <2>3. \A s \in DOMAIN shares' : shares'[s].host \in Audiences
      BY <2>1, <2>2 DEF ViewInv, Put
    <2> QED BY <2>1, <2>3, ViewsChange DEF ViewInv, EventIn
  <1>11. ASSUME NEW p \in Proc, Remove(p) \/ StopSeries(p) \/ Unshare(p) PROVE ViewInv'
    <2>1. /\ Ends(p) /\ UNCHANGED people
          /\ UNCHANGED events \/ \E E : events' = Without(events, E)
          /\ \E S : shares' = Without(shares, S)
      BY <1>11 DEF Remove, StopSeries, Unshare, DropEvents
    <2>2. \A e \in DOMAIN events' : EventIn(e)'
      BY <2>1 DEF ViewInv, EventIn, Without
    <2>3. \A s \in DOMAIN shares' : shares'[s].host \in Audiences
      BY <2>1 DEF ViewInv, Without
    <2> QED BY <2>1, <2>2, <2>3, ViewsChange
  <1>12. ASSUME NEW p \in Proc, WriteGroups(p) \/ SaveRsvp(p) \/ AddComment(p) \/ DeleteComment(p) PROVE ViewInv'
    <2>1. UNCHANGED <<people, events, shares>> /\ Ends(p)
      BY <1>12 DEF WriteGroups, SaveRsvp, AddComment, DeleteComment
    <2> QED BY <2>1, ViewsChange DEF ViewInv, EventIn
  <1>13. ASSUME NEW u \in User, NEW role \in mix.roles, MembershipChanges(u, role) PROVE ViewInv'
    <2>1. role \in Role
      BY MixesAssumption DEF IInv, Shape, Mix
    <2>2. /\ role[1] \in {"none", "member", "admin"} /\ role[2] \in {"none", "member", "moderator"}
          /\ role[2] # "none" => role[1] # "none"
      BY <2>1 DEF Role
    <2>3. People'
      BY <1>13, <2>2 DEF MembershipChanges, ViewInv, People, Crews, Subs
    <2> QED BY <1>13, <2>3 DEF MembershipChanges, ViewInv, EventIn, At
  <1>14. CASE SuspensionChanges \/ UNCHANGED vars
    BY <1>14 DEF SuspensionChanges, vars, people, ViewInv, People, EventIn, At
  <1> QED BY <1>1, <1>2, <1>3, <1>5, <1>6, <1>7, <1>8, <1>9, <1>10, <1>11, <1>12, <1>13, <1>14 DEF Next, Audiences

(* The lists and the page of an event, and a page of events, agree. *)
LEMMA ListsAgree ==
  ASSUME People, NEW entry, RowIn(entry), NEW u \in User \cup {None}
  PROVE  Listed(entry, u) <=> CanSee(entry, u)
  BY DEF RowIn, Host, Listing, Listed, CanSee, HostRole, Audience, InCrew, InSub, IsAdmin

LEMMA MapAgrees ==
  ASSUME People, NEW S, \A entry \in S : RowIn(entry), NEW u \in User \cup {None}
  PROVE  AccessMap(S, u) = [entry \in S |-> HostRole(entry, u)]
  <1> DEFINE clubs == {s.host : s \in S} \ {"open"}
             inClub == clubs # {} /\ InCrew(u)
             inRide == "subgroup" \in clubs /\ InSub(u)
             role(e) == IF e.host = "open" THEN [member |-> FALSE, manager |-> u # None /\ e.owner = u]
                         ELSE IF e.host = "community" THEN [member |-> inClub, manager |-> inClub /\ IsAdmin(u)]
                         ELSE [member |-> (inClub /\ IsAdmin(u)) \/ inRide,
                               manager |-> (inClub /\ IsAdmin(u)) \/ (inRide /\ IsModerator(u))]
  <1>1. AccessMap(S, u) = [entry \in S |-> role(entry)]
    BY DEF AccessMap
  <1>2. (IsAdmin(u) => InCrew(u)) /\ (IsModerator(u) => InSub(u))
    BY DEF People, IsAdmin, IsModerator, InCrew, InSub
  <1>3. ASSUME NEW entry \in S PROVE role(entry) = HostRole(entry, u)
    <2>1. entry.host \in Host
      BY DEF RowIn
    <2>2. CASE entry.host = "open"
      BY <2>2 DEF HostRole
    <2>3. CASE entry.host = "community"
      <3>1. inClub = InCrew(u)
        BY <2>3 DEF InCrew
      <3> QED BY <1>2, <2>3, <3>1 DEF HostRole, IsAdmin, InCrew
    <2>4. CASE entry.host = "subgroup"
      <3>1. inClub = InCrew(u) /\ inRide = InSub(u)
        BY <2>4 DEF InCrew, InSub
      <3> QED BY <1>2, <2>4, <3>1 DEF HostRole, IsAdmin, InCrew, InSub, IsModerator
    <2> QED BY <2>1, <2>2, <2>3, <2>4 DEF Host
  <1> HIDE DEF role
  <1> QED BY <1>1, <1>3

LEMMA Agreement == IInv /\ ViewInv => ViewsAgree
  <1> SUFFICES ASSUME IInv, ViewInv, NEW u \in User \cup {None}
               PROVE  LET rows == {events[e] : e \in DOMAIN events} IN
                      /\ \A r \in rows : Listed(r, u) <=> CanSee(r, u)
                      /\ AccessMap(rows, u) = [r \in rows |-> HostRole(r, u)]
                      /\ \A ctx \in Host \ {"open"} :
                           /\ Found(ctx, u) => \A e \in OnHostPage(ctx, u) : CanSee(events[e], u)
                           /\ \A e \in DOMAIN events : suspended \/ PageKeeps(e, u, ctx)
    BY DEF ViewsAgree
  <1> DEFINE rows == {events[e] : e \in DOMAIN events}
  <1>1. \A r \in rows : RowIn(r)
    BY DEF ViewInv, EventIn
  <1>2. \A e \in DOMAIN events : events[e].host \in Host /\ events[e].listing \in Listing
    BY DEF ViewInv, EventIn, RowIn
  <1>3. People
    BY DEF ViewInv
  <1>4. (IsAdmin(u) => InCrew(u)) /\ (IsModerator(u) => InSub(u))
    BY <1>3 DEF People, IsAdmin, IsModerator, InCrew, InSub
  <1>5. SharesStayPublic
    BY AgreedSharesPublic
  <1>6. ASSUME NEW ctx \in Host \ {"open"}, Found(ctx, u), NEW e \in OnHostPage(ctx, u)
        PROVE  CanSee(events[e], u)
    <2>1. e \in DOMAIN events /\ ~suspended
      BY <1>6 DEF OnHostPage, Found
    <2>2. CASE events[e].host = ctx /\ CanSeeMembers(ctx, u)
      BY <2>1, <2>2 DEF CanSee, HostRole, CanSeeMembers, Host
    <2>3. CASE events[e].listing = "public"
      BY <2>1, <2>3 DEF CanSee
    <2> QED BY <1>6, <2>2, <2>3 DEF OnHostPage
  <1>7. ASSUME NEW ctx \in Host \ {"open"}, NEW e \in DOMAIN events, ~suspended
        PROVE  PageKeeps(e, u, ctx)
    <2> DEFINE entry == events[e]
               role == HostRole(entry, u)
               scopes == IF entry.host = "open" \/ u # None THEN Scopes(e, u, ctx) ELSE {}
    <2>1. CanSee(entry, u) <=> (entry.listing = "members" => role.member)
      BY <1>7 DEF CanSee
    <2>2. /\ entry.host # "open" /\ role.manager => role.member
          /\ entry.host = "open" => ~role.member
          /\ role.member => u # None
      BY <1>2, <1>4 DEF HostRole, Host, InCrew, InSub, IsAdmin, IsModerator
    <2>3. CASE entry.host = "open"
      <3>1. scopes # {} => entry.listing = "public"
        BY <1>5, <2>3 DEF Scopes, SharesOf, SharesStayPublic
      <3> QED BY <2>1, <2>2, <2>3, <3>1 DEF PageKeeps, Page
    <2>4. CASE entry.host # "open"
      <3>1. scopes # {} <=> role.member
        BY <2>2, <2>4 DEF Scopes
      <3>2. CanMutate(entry, u) <=> CanSee(entry, u) /\ role.manager
        BY DEF CanMutate
      <3> QED BY <2>1, <2>2, <2>4, <3>1, <3>2 DEF PageKeeps, Page
    <2> QED BY <2>3, <2>4
  <1>8. \A r \in rows : Listed(r, u) <=> CanSee(r, u)
    BY <1>1, <1>3, ListsAgree
  <1>9. AccessMap(rows, u) = [r \in rows |-> HostRole(r, u)]
    BY <1>1, <1>3, MapAgrees
  <1> HIDE DEF rows
  <1> QED BY <1>6, <1>7, <1>8, <1>9 DEF rows

-----------------------------------------------------------------------------
(***************************************************************************)
(* Answers.                                                                *)
(***************************************************************************)

\* Whatever names a share - its row, a share about to be written, an answer about to be
\* saved - says which event it is a share of.
Says(s, e) ==
    \/ s \in DOMAIN shares /\ shares[s].event = e
    \/ \E p \in Proc : At(p, "share") /\ req[p].share = s /\ s # None /\ req[p].shared.event = e
    \/ \E p \in Proc : At(p, "rsvp") /\ req[p].share = s /\ s # None /\ req[p].event = e

\* An answer is for an event and an audience it has.
Placed(r) ==
    /\ r.event \in DOMAIN events
    /\ IF r.share = None THEN events[r.event].host # "open"
       ELSE r.share \in DOMAIN shares /\ shares[r.share].event = r.event

\* An answer about to be saved without a share is for a hosted event.
Hosted(e) == e \in 1 .. made /\ ~Tells(e, "open")

AnswersInv ==
    /\ passed \in Nat
    /\ \A s, e : Says(s, e) => s \in 1 .. passed /\ s # None
    /\ \A s, d, e : Says(s, d) /\ Says(s, e) => d = e
    /\ \A r \in rsvps : Placed(r)
    /\ \A p \in Proc : At(p, "rsvp") /\ req[p].share = None => Hosted(req[p].event)

(* What is on one's list can be opened and answered there. *)
LEMMA ListedCanAnswer == IInv /\ ViewInv /\ AnswersInv => UpcomingCanBeAnswered
  <1> SUFFICES ASSUME IInv, ViewInv, AnswersInv, NEW u \in User, NEW r \in Upcoming(u)
               PROVE  /\ CanSee(events[r.event], u)
                      /\ \/ \E ctx \in Host \ {"open"} : r.share \in Scopes(r.event, u, ctx)
                         \/ r.share # None /\ suspended
    BY DEF UpcomingCanBeAnswered
  <1> DEFINE entry == events[r.event]
  <1>1. /\ r \in rsvps /\ r.user = u /\ ~(entry.host # "open" /\ suspended)
        /\ r.share # None => Audience(shares[r.share].host, u)
        /\ entry.host # "open" => Audience(entry.host, u)
    BY DEF Upcoming
  <1>2. Placed(r) /\ u # None /\ People
    BY <1>1, NoneAssumption DEF AnswersInv, ViewInv
  <1>3. CASE r.share = None
    <2>1. entry.host # "open" /\ ~suspended /\ Audience(entry.host, u)
      BY <1>1, <1>2, <1>3 DEF Placed
    <2>2. HostRole(entry, u).member
      BY <2>1 DEF Audience, HostRole
    <2>3. None \in Scopes(r.event, u, "community")
      BY <2>1, <2>2 DEF Scopes
    <2> QED BY <2>1, <2>2, <2>3, <1>3 DEF CanSee, Host
  <1>4. CASE r.share # None
    <2> DEFINE host == shares[r.share].host
    <2>1. r.share \in DOMAIN shares /\ shares[r.share].event = r.event /\ Audience(host, u)
      BY <1>1, <1>2, <1>4 DEF Placed
    <2>2. entry.host = "open" /\ entry.listing = "public"
      BY <2>1, AgreedSharesPublic DEF SharesStayPublic
    <2>3. host \in Host \ {"open"}
      BY <2>1 DEF ViewInv, Audiences
    <2>4. r.share \in SharesOf(r.event, host)
      BY <2>1 DEF SharesOf
    <2>5. ASSUME ~suspended PROVE Found(host, u) /\ CanSeeMembers(host, u)
      <3>1. InSub(u) \/ IsAdmin(u) => InCrew(u)
        BY <1>2 DEF People, InSub, InCrew, IsAdmin
      <3> HIDE DEF host
      <3> QED BY <2>1, <2>3, <2>5, <3>1 DEF Found, CanSeeMembers, Audience
    <2>6. suspended \/ r.share \in Scopes(r.event, u, host)
      BY <2>2, <2>4, <2>5 DEF Scopes
    <2> QED BY <1>4, <2>2, <2>3, <2>6 DEF CanSee
  <1> QED BY <1>3, <1>4

LEMMA InitAnswers == Init => AnswersInv
  BY DEF Init, AnswersInv, Says, At, Idle

(* Events that stay keep their answers, and hosted ones stay hosted. *)
LEMMA HostedStay ==
  ASSUME IInv, IInv', Kept, made =< made', NEW e, Hosted(e)
  PROVE  Hosted(e)'
  <1>1. made \in Nat /\ made' \in Nat
    BY DEF IInv, Shape
  <1>2. e \in 1 .. made'
    BY <1>1 DEF Hosted
  <1> QED BY <1>2 DEF Hosted, Kept

(* A request that begins or goes on. *)
LEMMA AnswersStay ==
  ASSUME IInv, IInv', Kept, AnswersInv, NEW p \in Proc, NEW r, req' = [req EXCEPT ![p] = r],
         UNCHANGED <<events, shares, rsvps, made, passed>>,
         r.step = "share" /\ r.share # None => Says(r.share, r.shared.event),
         r.step = "rsvp" => IF r.share = None THEN Hosted(r.event) ELSE Says(r.share, r.event)
  PROVE  AnswersInv'
  <1>1. \A q \in Proc : req'[q] = IF q = p THEN r ELSE req[q]
    BY DEF IInv, Shape
  <1>2. ASSUME NEW s, NEW e, Says(s, e)' PROVE Says(s, e)
    <2>1. CASE s \in DOMAIN shares' /\ shares'[s].event = e
      BY <2>1 DEF Says
    <2>2. CASE \E q \in Proc : At(q, "share")' /\ req'[q].share = s /\ s # None /\ req'[q].shared.event = e
      BY <2>2, <1>1 DEF Says, At
    <2>3. CASE \E q \in Proc : At(q, "rsvp")' /\ req'[q].share = s /\ s # None /\ req'[q].event = e
      BY <2>3, <1>1 DEF Says, At
    <2> QED BY <1>2, <2>1, <2>2, <2>3 DEF Says
  <1>3. \A e : Hosted(e) => Hosted(e)'
    <2>1. made =< made'
      BY DEF IInv, Shape
    <2> QED BY <2>1, HostedStay
  <1>4. \A q \in Proc : At(q, "rsvp")' /\ req'[q].share = None => Hosted(req'[q].event)
    BY <1>1 DEF AnswersInv, At
  <1> QED BY <1>2, <1>3, <1>4 DEF AnswersInv, Placed, Hosted

(* A request that ends. *)
LEMMA AnswersChange ==
  ASSUME IInv, IInv', Kept, AnswersInv, NEW p \in Proc, Ends(p), made =< made',
         passed' \in Nat, passed =< passed',
         \A s \in DOMAIN shares' : \/ Says(s, shares'[s].event)
                                   \/ s \in 1 .. passed' /\ s \notin 1 .. passed /\ s # None,
         \A r \in rsvps' : Placed(r)'
  PROVE  AnswersInv'
  <1>1. \A q \in Proc : req'[q] = IF q = p THEN Idle ELSE req[q]
    BY DEF IInv, Shape, Ends
  <1>2. ASSUME NEW s, NEW e, Says(s, e)'
        PROVE  Says(s, e) \/ (s \in 1 .. passed' /\ s \notin 1 .. passed /\ s # None /\ e = shares'[s].event)
    <2>1. CASE s \in DOMAIN shares' /\ shares'[s].event = e
      BY <2>1
    <2>2. CASE \E q \in Proc : At(q, "share")' /\ req'[q].share = s /\ s # None /\ req'[q].shared.event = e
      BY <2>2, <1>1 DEF Says, At, Idle
    <2>3. CASE \E q \in Proc : At(q, "rsvp")' /\ req'[q].share = s /\ s # None /\ req'[q].event = e
      BY <2>3, <1>1 DEF Says, At, Idle
    <2> QED BY <1>2, <2>1, <2>2, <2>3 DEF Says
  <1>3. \A s : s \in 1 .. passed => s \in 1 .. passed'
    BY DEF AnswersInv
  <1>4. \A s, e : Says(s, e)' => s \in 1 .. passed' /\ s # None
    BY <1>2, <1>3 DEF AnswersInv
  <1>5. \A s, d, e : Says(s, d)' /\ Says(s, e)' => d = e
    BY <1>2 DEF AnswersInv
  <1>6. ASSUME NEW q \in Proc, At(q, "rsvp")', req'[q].share = None PROVE Hosted(req[q].event)'
    <2>1. At(q, "rsvp") /\ req'[q] = req[q]
      BY <1>1, <1>6 DEF At, Idle
    <2>2. Hosted(req[q].event)
      BY <1>6, <2>1 DEF AnswersInv
    <2> QED BY <2>1, <2>2, HostedStay
  <1> QED BY <1>4, <1>5, <1>6 DEF AnswersInv

(* Rows that go take their answers with them. *)
LEMMA AnswersDrop ==
  ASSUME IInv, IInv', Kept, AnswersInv, NEW p \in Proc, NEW E, DropEvents(E), Ends(p), UNCHANGED <<made, passed>>
  PROVE  AnswersInv'
  <1>1. /\ DOMAIN events' = DOMAIN events \ E /\ \A e \in DOMAIN events' : events'[e] = events[e]
        /\ DOMAIN shares' = {s \in DOMAIN shares : shares[s].event \notin E}
        /\ \A s \in DOMAIN shares' : shares'[s] = shares[s]
        /\ rsvps' = {r \in rsvps : r.event \notin E}
    BY DEF DropEvents, Without
  <1>2. \A r \in rsvps' : Placed(r)'
    BY <1>1 DEF AnswersInv, Placed
  <1>3. \A s \in DOMAIN shares' : Says(s, shares'[s].event)
    BY <1>1 DEF Says
  <1>4. made =< made' /\ passed' \in Nat /\ passed =< passed'
    BY DEF IInv, Shape, AnswersInv
  <1> QED BY <1>2, <1>3, <1>4, AnswersChange

LEMMA UnshareAnswers ==
  ASSUME IInv, IInv', Kept, AnswersInv, NEW p \in Proc, Unshare(p)
  PROVE  AnswersInv'
  <1>1. /\ DOMAIN shares' = DOMAIN shares \ {req[p].share} /\ \A s \in DOMAIN shares' : shares'[s] = shares[s]
        /\ rsvps' = {r \in rsvps : r.share # req[p].share}
        /\ Ends(p) /\ UNCHANGED <<events, made, passed>>
    BY DEF Unshare, WithShare, Without, issued
  <1>2. \A r \in rsvps' : Placed(r)'
    BY <1>1 DEF AnswersInv, Placed
  <1>3. \A s \in DOMAIN shares' : Says(s, shares'[s].event)
    BY <1>1 DEF Says
  <1>4. made =< made' /\ passed' \in Nat /\ passed =< passed'
    BY <1>1 DEF IInv, Shape, AnswersInv
  <1> QED BY <1>1, <1>2, <1>3, <1>4, AnswersChange

LEMMA ShareAnswers ==
  ASSUME IInv, IInv', Kept, AnswersInv, NEW p \in Proc, WriteShare(p)
  PROVE  AnswersInv'
  <1> DEFINE entry == Merged(req[p].shared, req[p].text)
  <1>1. PICK s \in IF req[p].share = None THEN {passed + 1} \cap Share ELSE {req[p].share} :
          \/ UNCHANGED <<shares, passed>>
          \/ shares' = Put(shares, s, entry) /\ passed' = IF s > passed THEN s ELSE passed
    BY DEF WriteShare
  <1>2. At(p, "share") /\ Ends(p) /\ UNCHANGED <<events, rsvps, made>>
    BY DEF WriteShare, talk
  <1>3. entry.event = req[p].shared.event
    BY <1>2 DEF IInv, Shape, IsShare, Merged
  <1>4. \/ s = passed + 1 /\ s # None
        \/ Says(s, entry.event)
    BY <1>1, <1>2, <1>3, NoneAssumption DEF Says
  <1>5. made =< made' /\ passed \in Nat
    BY <1>2 DEF IInv, Shape, AnswersInv
  <1> HIDE DEF entry
  <1>6. CASE UNCHANGED <<shares, passed>>
    <2>1. \A r \in rsvps' : Placed(r)'
      BY <1>2, <1>6 DEF AnswersInv, Placed
    <2>2. \A t \in DOMAIN shares' : Says(t, shares'[t].event)
      BY <1>6 DEF Says
    <2> QED BY <1>2, <1>5, <1>6, <2>1, <2>2, AnswersChange
  <1>7. CASE shares' = Put(shares, s, entry) /\ passed' = IF s > passed THEN s ELSE passed
    <2>1. /\ DOMAIN shares' = DOMAIN shares \cup {s}
          /\ \A t \in DOMAIN shares' : shares'[t] = IF t = s THEN entry ELSE shares[t]
      BY <1>7 DEF Put
    <2>2. passed' \in Nat /\ passed =< passed'
      BY <1>4, <1>5, <1>7 DEF AnswersInv
    <2>3. \A t \in DOMAIN shares' : \/ Says(t, shares'[t].event)
                                    \/ t \in 1 .. passed' /\ t \notin 1 .. passed /\ t # None
      <3>1. CASE s = passed + 1 /\ s # None
        <4>1. s \in 1 .. passed' /\ s \notin 1 .. passed
          BY <1>5, <1>7, <3>1
        <4> QED BY <2>1, <3>1, <4>1 DEF Says
      <3>2. CASE Says(s, entry.event)
        BY <2>1, <3>2 DEF Says
      <3> QED BY <1>4, <3>1, <3>2
    <2>4. \A r \in rsvps' : Placed(r)'
      <3>1. \A r \in rsvps : r.share = s /\ r.share # None => entry.event = r.event
        <4>1. \A t \in DOMAIN shares : Says(t, shares[t].event) /\ t \in 1 .. passed
          BY DEF Says, AnswersInv
        <4>2. s \in DOMAIN shares => Says(s, entry.event)
          BY <1>4, <1>5, <4>1
        <4> QED BY <4>1, <4>2 DEF AnswersInv, Placed
      <3> QED BY <1>2, <2>1, <3>1 DEF AnswersInv, Placed
    <2> QED BY <1>2, <1>5, <2>2, <2>3, <2>4, AnswersChange
  <1> QED BY <1>1, <1>6, <1>7

LEMMA RsvpAnswers ==
  ASSUME IInv, IInv', Kept, AnswersInv, NEW p \in Proc, SaveRsvp(p)
  PROVE  AnswersInv'
  <1> DEFINE q == req[p]
             new == [event |-> q.event, share |-> q.share, user |-> q.who, status |-> q.text]
  <1>1. /\ At(p, "rsvp") /\ Ends(p) /\ UNCHANGED <<events, shares, made, passed>>
        /\ rsvps' \subseteq rsvps \cup {r \in {new} : Stands(q.event, q.share)}
    BY DEF SaveRsvp, issued
  <1>2. Stands(q.event, q.share) => Placed(new)
    <2>1. CASE q.share = None
      <3>1. Hosted(q.event)
        BY <1>1, <2>1 DEF AnswersInv
      <3>2. q.event \in DOMAIN events => Tells(q.event, events[q.event].host)
        BY DEF Tells
      <3> QED BY <2>1, <3>1, <3>2 DEF Placed, Stands, Hosted
    <2>2. CASE q.share # None
      <3>1. Says(q.share, q.event)
        BY <1>1, <2>2 DEF Says
      <3>2. q.share \in DOMAIN shares => Says(q.share, shares[q.share].event)
        BY DEF Says
      <3> QED BY <2>2, <3>1, <3>2 DEF AnswersInv, Placed, Stands
    <2> QED BY <2>1, <2>2
  <1> HIDE DEF new, q
  <1>3. \A r \in rsvps' : Placed(r)'
    BY <1>1, <1>2 DEF AnswersInv, Placed
  <1>4. \A s \in DOMAIN shares' : Says(s, shares'[s].event)
    BY <1>1 DEF Says
  <1>5. made =< made' /\ passed' \in Nat /\ passed =< passed'
    BY <1>1 DEF IInv, Shape, AnswersInv
  <1> QED BY <1>1, <1>3, <1>4, <1>5, AnswersChange

(* Events that are added or saved keep the answers they had. *)
LEMMA EventsAnswers ==
  ASSUME IInv, IInv', Kept, AnswersInv, NEW p \in Proc, Insert(p) \/ SaveEvent(p)
  PROVE  AnswersInv'
  <1>1. Ends(p) /\ UNCHANGED <<shares, rsvps, passed>>
    BY DEF Insert, SaveEvent, talk, issued
  <1>2. made =< made'
    <2>1. mix \in Mix /\ made \in Nat /\ Events \in Nat
      BY BoundsAssumption, MixesAssumption DEF IInv, Shape
    <2>2. mix.events \in Nat
      BY <2>1 DEF Mix, Event
    <2>3. UNCHANGED made \/ \E n \in 1 .. mix.events - made : made' = made + n
      BY DEF Insert, SaveEvent, issued
    <2> QED BY <2>1, <2>2, <2>3
  <1>3. DOMAIN events \subseteq DOMAIN events'
    BY DEF Insert, SaveEvent, Put
  <1>4. ASSUME NEW e \in DOMAIN events PROVE events'[e].host = events[e].host
    <2>1. Tells(e, events[e].host) /\ e \in 1 .. made /\ \A h : h = events'[e].host => Tells(e, h)'
      BY <1>3 DEF Tells, IInv, Agree
    <2>2. Tells(e, events'[e].host)
      BY <2>1 DEF Kept
    <2> QED BY <2>1, <2>2 DEF IInv, Agree
  <1>5. \A r \in rsvps' : Placed(r)'
    BY <1>1, <1>3, <1>4 DEF AnswersInv, Placed
  <1>6. \A s \in DOMAIN shares' : Says(s, shares'[s].event)
    BY <1>1 DEF Says
  <1>7. passed' \in Nat /\ passed =< passed'
    BY <1>1 DEF AnswersInv
  <1> QED BY <1>1, <1>2, <1>5, <1>6, <1>7, AnswersChange

LEMMA StepAnswers == IInv /\ AnswersInv /\ [Next]_vars => AnswersInv'
  <1> SUFFICES ASSUME IInv, AnswersInv, [Next]_vars PROVE AnswersInv'
    OBVIOUS
  <1> USE StepAgrees
  <1>1. ASSUME NEW p \in Proc, NEW r, req' = [req EXCEPT ![p] = r], r.step \notin {"share", "rsvp"},
               UNCHANGED <<events, shares, rsvps, made, passed>>
        PROVE  AnswersInv'
    BY <1>1, AnswersStay
  <1>2. ASSUME NEW p \in Proc, NEW u \in User, NEW e \in DOMAIN events, NEW ctx, BeginShare(p, u, ctx, e)
        PROVE  AnswersInv'
    <2>1. PICK s \in IF SharesOf(e, ctx) = {} THEN {None} ELSE SharesOf(e, ctx),
               t \in {"unsent"} \cup {x \in Place : "meetup" \in mix.edits} :
            req' = [req EXCEPT ![p] =
                      [Idle EXCEPT !.step = "share", !.event = e, !.share = s, !.text = t,
                         !.shared = IF s = None THEN [NoShare EXCEPT !.event = e, !.host = ctx]
                                    ELSE shares[s]]]
      BY <1>2 DEF BeginShare, Starts
    <2>2. UNCHANGED <<events, shares, rsvps, made, passed>>
      BY <1>2 DEF BeginShare, talk, issued
    <2> DEFINE entry == IF s = None THEN [NoShare EXCEPT !.event = e, !.host = ctx] ELSE shares[s]
               r == [Idle EXCEPT !.step = "share", !.event = e, !.share = s, !.text = t, !.shared = entry]
    <2>3. s # None => Says(s, entry.event)
      BY DEF Says, SharesOf
    <2>4. r.step = "share" /\ r.share = s /\ r.shared = entry /\ req' = [req EXCEPT ![p] = r]
      BY <2>1 DEF Idle
    <2> HIDE DEF entry, r
    <2> QED BY <2>2, <2>3, <2>4, AnswersStay
  <1>3. ASSUME NEW p \in Proc, NEW u \in User, NEW e \in DOMAIN events, NEW ctx \in Host \ {"open"},
               BeginRsvp(p, u, e, ctx)
        PROVE  AnswersInv'
    <2>1. PICK s \in Scopes(e, u, ctx), status \in {"going", "declined"} :
            req' = [req EXCEPT ![p] = [Idle EXCEPT !.step = "rsvp", !.who = u, !.event = e, !.share = s,
                                                   !.text = status]]
      BY <1>3 DEF BeginRsvp, Starts
    <2>2. UNCHANGED <<events, shares, rsvps, made, passed>>
      BY <1>3 DEF BeginRsvp, talk, issued
    <2> DEFINE r == [Idle EXCEPT !.step = "rsvp", !.who = u, !.event = e, !.share = s, !.text = status]
    <2>3. r.step = "rsvp" /\ r.share = s /\ r.event = e /\ req' = [req EXCEPT ![p] = r]
      BY <2>1 DEF Idle
    <2>4. CASE events[e].host # "open"
      <3>1. s = None
        BY <2>4 DEF Scopes
      <3>2. Tells(e, events[e].host) /\ e \in 1 .. made
        BY DEF Tells, IInv, Agree
      <3>3. Hosted(e)
        BY <2>4, <3>2 DEF Hosted, IInv, Agree
      <3> HIDE DEF r
      <3> QED BY <2>2, <2>3, <3>1, <3>3, AnswersStay
    <2>5. CASE events[e].host = "open"
      <3>1. s \in DOMAIN shares /\ shares[s].event = e
        BY <2>5 DEF Scopes, SharesOf
      <3>2. Says(s, e) /\ s # None
        BY <3>1 DEF Says, AnswersInv
      <3> HIDE DEF r
      <3> QED BY <2>2, <2>3, <3>2, AnswersStay
    <2> QED BY <2>4, <2>5
  <1>4. ASSUME NEW p \in Proc, NEW u \in User, NEW e,
               BeginCreate(p, u) \/ BeginUpdate(p, u, e) \/ BeginRemove(p, u, e) \/ BeginStop(p, u, e)
               \/ BeginGroups(p, u, e)
        PROVE  AnswersInv'
    <2>1. UNCHANGED <<events, shares, rsvps, made, passed>>
      BY <1>4 DEF BeginCreate, BeginUpdate, BeginRemove, BeginStop, BeginGroups, talk, issued
    <2>2. CASE BeginCreate(p, u)
      <3>1. PICK host, listing, track, routes :
              req' = [req EXCEPT ![p] = [Idle EXCEPT !.step = "insert", !.who = u, !.ids = routes,
                        !.row = [NoRow EXCEPT !.host = host, !.listing = listing, !.owner = u, !.route = track]]]
        BY <2>2 DEF BeginCreate, Starts
      <3> DEFINE r == [Idle EXCEPT !.step = "insert", !.who = u, !.ids = routes,
                        !.row = [NoRow EXCEPT !.host = host, !.listing = listing, !.owner = u, !.route = track]]
      <3>2. r.step = "insert" /\ req' = [req EXCEPT ![p] = r]
        BY <3>1 DEF Idle
      <3> HIDE DEF r
      <3> QED BY <1>1, <2>1, <3>2
    <2>3. CASE BeginUpdate(p, u, e)
      <3>1. PICK l, d, t : req' = [req EXCEPT ![p] = [Idle EXCEPT !.step = "save", !.who = u, !.event = e,
                                                                  !.row = Edited(events[e], l, d, t)]]
        BY <2>3 DEF BeginUpdate, Starts
      <3> DEFINE r == [Idle EXCEPT !.step = "save", !.who = u, !.event = e, !.row = Edited(events[e], l, d, t)]
      <3>2. r.step = "save" /\ req' = [req EXCEPT ![p] = r]
        BY <3>1 DEF Idle
      <3> HIDE DEF r
      <3> QED BY <1>1, <2>1, <3>2
    <2>4. CASE BeginRemove(p, u, e) \/ BeginStop(p, u, e) \/ BeginGroups(p, u, e)
      BY <1>1, <2>1, <2>4 DEF BeginRemove, BeginStop, BeginGroups, Starts, Idle
    <2> QED BY <1>4, <2>2, <2>3, <2>4
  <1>5. ASSUME NEW p \in Proc, NEW u \in User, NEW e, NEW ctx,
               BeginUnshare(p, u, ctx, e) \/ BeginComment(p, u, e, ctx) \/ BeginUncomment(p, u, e, ctx)
        PROVE  AnswersInv'
    <2>1. UNCHANGED <<events, shares, rsvps, made, passed>>
      BY <1>5 DEF BeginUnshare, BeginComment, BeginUncomment, talk, issued
    <2>2. CASE BeginUnshare(p, u, ctx, e)
      BY <1>1, <2>1, <2>2 DEF BeginUnshare, Starts, Idle
    <2>3. CASE BeginComment(p, u, e, ctx)
      BY <1>1, <2>1, <2>3 DEF BeginComment, Starts, Idle
    <2>4. CASE BeginUncomment(p, u, e, ctx)
      BY <1>1, <2>1, <2>4 DEF BeginUncomment, Starts, Idle
    <2> QED BY <1>5, <2>2, <2>3, <2>4
  <1>6. ASSUME NEW p \in Proc,
               ReadLater(p) \/ ClearGroups(p) \/ WriteGroups(p) \/ AddComment(p) \/ DeleteComment(p)
        PROVE  AnswersInv'
    <2>1. UNCHANGED <<events, shares, rsvps, made, passed>>
      BY <1>6 DEF ReadLater, ClearGroups, WriteGroups, AddComment, DeleteComment, talk, issued
    <2>2. CASE ReadLater(p)
      BY <1>1, <2>1, <2>2 DEF ReadLater, Idle
    <2>3. CASE ClearGroups(p)
      BY <1>1, <2>1, <2>3 DEF ClearGroups, Idle
    <2>4. CASE WriteGroups(p) \/ AddComment(p) \/ DeleteComment(p)
      BY <1>1, <2>1, <2>4 DEF WriteGroups, AddComment, DeleteComment, Ends, Idle
    <2> QED BY <1>6, <2>2, <2>3, <2>4
  <1>7. ASSUME NEW p \in Proc, Remove(p) \/ StopSeries(p) PROVE AnswersInv'
    BY <1>7, AnswersDrop DEF Remove, StopSeries, issued
  <1>8. ASSUME NEW p \in Proc, Insert(p) \/ SaveEvent(p) \/ WriteShare(p) \/ Unshare(p) \/ SaveRsvp(p)
        PROVE  AnswersInv'
    BY <1>8, EventsAnswers, ShareAnswers, UnshareAnswers, RsvpAnswers
  <1>9. CASE UNCHANGED vars \/ SuspensionChanges \/ \E u \in User, role \in mix.roles : MembershipChanges(u, role)
    <2>1. UNCHANGED <<events, shares, rsvps, made, passed, req>>
      BY <1>9 DEF vars, SuspensionChanges, MembershipChanges, talk, issued
    <2>2. \A s, e : Says(s, e)' => Says(s, e)
      BY <2>1 DEF Says, At
    <2>3. \A e : Tells(e, "open")' => Tells(e, "open")
      BY <2>1 DEF Tells, At
    <2> QED BY <2>1, <2>2, <2>3 DEF AnswersInv, Placed, Hosted, At
  <1> QED BY <1>2, <1>3, <1>4, <1>5, <1>6, <1>7, <1>8, <1>9 DEF Next

(* People see what they may: the lists, the page of an event and a page of events agree, and
   what is on one's own list can be opened and answered, while roles, shares and events
   change under the requests. *)
THEOREM PeopleSeeTheirs == Spec => []PeopleSeeWhatTheyMay
  <1>1. Spec => [](IInv /\ ViewInv /\ AnswersInv)
    <2>1. Init => IInv /\ ViewInv /\ AnswersInv
      BY InitAgrees, InitViews, InitAnswers
    <2>2. IInv /\ ViewInv /\ AnswersInv /\ [Next]_vars => (IInv /\ ViewInv /\ AnswersInv)'
      BY StepAgrees, StepViews, StepAnswers
    <2> QED BY <2>1, <2>2, PTL DEF Spec
  <1>2. IInv /\ ViewInv /\ AnswersInv => PeopleSeeWhatTheyMay
    BY Agreement, ListedCanAnswer DEF PeopleSeeWhatTheyMay
  <1> QED BY <1>1, <1>2, PTL

-----------------------------------------------------------------------------
(* Files.  Ids are handed out once (Apart): nobody removes the file of an  *)
(* upload that is under way.  So what an upload wrote is still there when  *)
(* its row comes, unless its route was deleted, and then no row comes      *)
(* (There).  Whoever is about to save a row counted the files when there   *)
(* was room (Room).                                                        *)
Pending(p) == D!At(p, "file") \/ D!At(p, "row")
Removing(p) == D!At(p, "unlist") \/ D!At(p, "rm")

JobsShape ==
    /\ DOMAIN job = Proc /\ \A p \in Proc : "at" \in DOMAIN job[p]
    /\ lastId \in Nat
    /\ \A f \in files : f.id \in Nat /\ f.id <= lastId
    /\ \A p \in Proc : Pending(p) \/ Removing(p) => job[p].id \in Nat /\ job[p].id <= lastId

Apart ==
    /\ \A p, q \in Proc : Pending(p) /\ Pending(q) /\ job[p].id = job[q].id => p = q
    /\ \A p \in Proc : Pending(p) => \A f \in files : f.id # job[p].id
    /\ \A p, q \in Proc : Pending(p) /\ Removing(q) => job[p].id # job[q].id

There ==
    /\ \A f \in files : f.id \in gpx
    /\ \A p \in Proc : D!At(p, "row") => job[p].id \in gpx \/ ~route
    /\ \A p \in Proc : D!At(p, "rm") => \A f \in files : f.id # job[p].id
    /\ route \in BOOLEAN
    /\ ~route => files = {}
    /\ \A p \in Proc : D!At(p, "rmdir") => ~route

Coming == {p \in Proc : Pending(p)}

Room ==
    /\ IsFiniteSet(files)
    /\ Cardinality(files) + Cardinality(Coming) <= MaxFiles + Cardinality(Proc) - 1

FilesInv == JobsShape /\ Apart /\ There /\ Room

-----------------------------------------------------------------------------
(* The instance counts as the module that counts does. *)
LEMMA CountsAlike == \A S : D!Cardinality(S) = Cardinality(S)
  BY DEF D!Cardinality, Cardinality, D!IsFiniteSet, IsFiniteSet

(* No more rows, and no more to come. *)
LEMMA RoomKept ==
  ASSUME Room, Coming' \subseteq Coming, files' \subseteq files
  PROVE  Room'
  <1> SUFFICES /\ IsFiniteSet(files')
               /\ Cardinality(files') + Cardinality(Coming') <= MaxFiles + Cardinality(Proc) - 1
    BY DEF Room
  <1>1. IsFiniteSet(files) /\ Cardinality(files) + Cardinality(Coming) <= MaxFiles + Cardinality(Proc) - 1
    BY DEF Room
  <1>2. IsFiniteSet(Coming)
    BY FS_Subset, FilesAssumption DEF Coming
  <1>3. IsFiniteSet(files') /\ Cardinality(files') <= Cardinality(files)
    BY <1>1, FS_Subset
  <1>4. IsFiniteSet(Coming') /\ Cardinality(Coming') <= Cardinality(Coming)
    BY <1>2, FS_Subset
  <1>5. /\ Cardinality(files) \in Nat /\ Cardinality(files') \in Nat /\ Cardinality(Proc) \in Nat
        /\ Cardinality(Coming) \in Nat /\ Cardinality(Coming') \in Nat
    BY <1>1, <1>2, <1>3, <1>4, FS_CardinalityType, FilesAssumption
  <1> QED BY <1>1, <1>3, <1>4, <1>5, FilesAssumption

(* Somebody counted fewer files than the limit. *)
LEMMA RoomCounted ==
  ASSUME Room, Cardinality(files) < MaxFiles, files' = files
  PROVE  Room'
  <1> SUFFICES Cardinality(files) + Cardinality(Coming') <= MaxFiles + Cardinality(Proc) - 1
    BY DEF Room
  <1>1. IsFiniteSet(Coming') /\ Cardinality(Coming') <= Cardinality(Proc)
    BY FS_Subset, FilesAssumption DEF Coming
  <1>2. Cardinality(files) \in Nat /\ Cardinality(Proc) \in Nat /\ Cardinality(Coming') \in Nat
    BY <1>1, FS_CardinalityType, FilesAssumption DEF Room
  <1> QED BY <1>1, <1>2, FilesAssumption

(* A row that was to come is there. *)
LEMMA RoomTaken ==
  ASSUME Room, NEW p \in Coming, NEW f, files' \subseteq files \cup {f}, Coming' = Coming \ {p}
  PROVE  Room'
  <1> SUFFICES /\ IsFiniteSet(files')
               /\ Cardinality(files') + Cardinality(Coming') <= MaxFiles + Cardinality(Proc) - 1
    BY DEF Room
  <1>1. IsFiniteSet(files) /\ Cardinality(files) + Cardinality(Coming) <= MaxFiles + Cardinality(Proc) - 1
    BY DEF Room
  <1>2. IsFiniteSet(Coming)
    BY FS_Subset, FilesAssumption DEF Coming
  <1>3. IsFiniteSet(files \cup {f}) /\ Cardinality(files \cup {f}) <= Cardinality(files) + 1
    <2>1. Cardinality(files) \in Nat
      BY <1>1, FS_CardinalityType
    <2>2. IsFiniteSet(files \cup {f}) /\ (Cardinality(files \cup {f}) = Cardinality(files) \/ Cardinality(files \cup {f}) = Cardinality(files) + 1)
      BY <1>1, FS_AddElement
    <2> QED BY <2>1, <2>2
  <1>4. IsFiniteSet(files') /\ Cardinality(files') <= Cardinality(files \cup {f})
    BY <1>3, FS_Subset
  <1>5. Cardinality(Coming') = Cardinality(Coming) - 1
    BY <1>2, FS_RemoveElement
  <1>6. /\ Cardinality(files) \in Nat /\ Cardinality(files') \in Nat /\ Cardinality(Proc) \in Nat
        /\ Cardinality(Coming) \in Nat /\ Cardinality(files \cup {f}) \in Nat
    BY <1>1, <1>2, <1>3, <1>4, FS_CardinalityType, FilesAssumption
  <1> QED BY <1>1, <1>3, <1>4, <1>5, <1>6, FilesAssumption

(* A step of a request that has nothing to do with rows of files. *)
LEMMA OtherJobs ==
  ASSUME FilesInv, NEW p \in Proc, NEW r, job' = [job EXCEPT ![p] = r], "at" \in DOMAIN r,
         r.at \notin {"file", "row", "unlist", "rm", "rmdir"},
         UNCHANGED <<route, files, gpx, lastId>>
  PROVE  FilesInv'
  <1>1. JobsShape'
    BY DEF FilesInv, JobsShape, Pending, Removing, D!At
  <1>2. Apart'
    BY DEF FilesInv, JobsShape, Apart, Pending, Removing, D!At
  <1>3. There'
    BY DEF FilesInv, JobsShape, There, D!At
  <1>4. Room'
    <2>1. Coming' \subseteq Coming
      BY DEF FilesInv, JobsShape, Coming, Pending, D!At
    <2> QED BY <2>1, RoomKept DEF FilesInv
  <1> QED BY <1>1, <1>2, <1>3, <1>4 DEF FilesInv

LEMMA FilesStart == D!Init => FilesInv
  <1> SUFFICES ASSUME D!Init PROVE FilesInv
    OBVIOUS
  <1>1. JobsShape /\ Apart /\ There
    BY DEF D!Init, D!Idle, JobsShape, Apart, There, Pending, Removing, D!At
  <1>2. Coming = {} /\ files = {}
    BY DEF D!Init, D!Idle, Coming, Pending, D!At
  <1>3. Cardinality(Proc) \in Nat /\ Cardinality(Proc) # 0
    BY FS_CardinalityType, FS_EmptySet, FilesAssumption
  <1>4. Room
    BY <1>2, <1>3, FS_EmptySet, FilesAssumption DEF Room
  <1> QED BY <1>1, <1>4 DEF FilesInv

LEMMA PictureSteps ==
  ASSUME FilesInv, NEW p \in Proc,
         D!SetImage(p) \/ D!RemoveImage(p) \/ D!StopSeries(p) \/ D!BeginUpdate(p) \/ D!Update(p)
  PROVE  FilesInv'
  <1> USE DEF D!Starts, D!Goes, D!Ends, D!Idle, D!tracks, D!At
  <1>1. CASE D!SetImage(p)
    <2>1. ASSUME NEW pic \in Picture, D!BeginSetImage(p, pic) PROVE FilesInv'
      <3> DEFINE r == [at |-> "write", row |-> row, pic |-> pic, left |-> Variant, open |-> {}, failed |-> FALSE,
                     number |-> IF \A q \in Proc : D!At(q, "idle") THEN requests + 1 ELSE 0]
      <3>1. job' = [job EXCEPT ![p] = r]
        BY <2>1 DEF D!BeginSetImage
      <3>2. r.at = "write" /\ "at" \in DOMAIN r
        OBVIOUS
      <3> HIDE DEF r
      <3> QED BY <2>1, <3>1, <3>2, OtherJobs DEF D!BeginSetImage
    <2>2. ASSUME NEW v \in Variant, D!OpenVariant(p, v) \/ D!WriteVariant(p, v) \/ D!VariantFails(p, v) PROVE FilesInv'
      <3>1. PICK r : job' = [job EXCEPT ![p] = r] /\ r.at = "write" /\ "at" \in DOMAIN r
        BY <2>2 DEF D!OpenVariant, D!WriteVariant, D!VariantFails, D!Writing, FilesInv, JobsShape
      <3> QED BY <2>2, <3>1, OtherJobs DEF D!OpenVariant, D!WriteVariant, D!VariantFails
    <2>3. CASE D!SaveUrl(p) \/ D!UploadFails(p)
      <3>1. job' = [job EXCEPT ![p] = D!Idle] /\ D!Idle.at = "idle" /\ "at" \in DOMAIN D!Idle
        BY <2>3 DEF D!SaveUrl, D!UploadFails
      <3> QED BY <2>3, <3>1, OtherJobs DEF D!SaveUrl, D!UploadFails
    <2> QED BY <1>1, <2>1, <2>2, <2>3 DEF D!SetImage
  <1>2. CASE D!RemoveImage(p)
    <2>1. CASE D!RemoveDir(p)
      <3>1. PICK r : job' = [job EXCEPT ![p] = r] /\ r.at = "cleared" /\ "at" \in DOMAIN r
        BY <2>1 DEF D!RemoveDir, FilesInv, JobsShape
      <3> QED BY <2>1, <3>1, OtherJobs DEF D!RemoveDir
    <2>2. CASE D!BeginRemoveImage(p) \/ D!BeginRemove(p) \/ D!SaveCleared(p)
      BY <2>2, OtherJobs DEF D!BeginRemoveImage, D!BeginRemove, D!SaveCleared
    <2>3. ASSUME NEW v \in Variant, D!RemoveVariant(p, v) PROVE FilesInv'
      BY <2>3 DEF D!RemoveVariant, FilesInv, JobsShape, Apart, There, Room, Coming, Pending, Removing
    <2> QED BY <1>2, <2>1, <2>2, <2>3 DEF D!RemoveImage
  <1>3. CASE D!StopSeries(p)
    BY <1>3, OtherJobs DEF D!StopSeries, D!BeginStop, D!DropRow, D!DropFiles
  <1>4. CASE D!BeginUpdate(p) \/ D!Update(p)
    BY <1>4, OtherJobs DEF D!BeginUpdate, D!Update
  <1> QED BY <1>1, <1>2, <1>3, <1>4

LEMMA AddingFile ==
  ASSUME FilesInv, NEW p \in Proc, D!BeginAddFile(p) \/ D!WriteFile(p) \/ D!SaveFile(p)
  PROVE  FilesInv'
  <1> USE DEF D!Starts, D!Goes, D!Ends, D!Idle, D!At, FilesInv
  <1>1. CASE D!BeginAddFile(p)
    <2>1. JobsShape' BY <1>1 DEF D!BeginAddFile, JobsShape, Pending, Removing
    <2>2. Apart' BY <1>1 DEF D!BeginAddFile, JobsShape, Apart, Pending, Removing
    <2>3. There' BY <1>1 DEF D!BeginAddFile, JobsShape, There
    <2>4. Room' BY <1>1, RoomCounted, CountsAlike DEF D!BeginAddFile
    <2> QED BY <2>1, <2>2, <2>3, <2>4
  <1>2. CASE D!WriteFile(p)
    <2>1. JobsShape' BY <1>2 DEF D!WriteFile, JobsShape, Pending, Removing
    <2>2. Apart' BY <1>2 DEF D!WriteFile, JobsShape, Apart, Pending, Removing
    <2>3. There' BY <1>2 DEF D!WriteFile, JobsShape, There
    <2>4. Room' BY <1>2, RoomKept DEF D!WriteFile, JobsShape, Coming, Pending
    <2> QED BY <2>1, <2>2, <2>3, <2>4
  <1>3. CASE D!SaveFile(p)
    <2>1. JobsShape' BY <1>3 DEF D!SaveFile, D!RouteThere, JobsShape, Pending, Removing
    <2>2. Apart' BY <1>3 DEF D!SaveFile, D!RouteThere, JobsShape, Apart, Pending, Removing
    <2>3. There' BY <1>3 DEF D!SaveFile, D!RouteThere, JobsShape, Apart, There, Pending, Removing
    <2>4. Room'
      <3>1. p \in Coming /\ Coming' = Coming \ {p}
        BY <1>3 DEF D!SaveFile, JobsShape, Coming, Pending
      <3>2. files' \subseteq files \cup {[id |-> job[p].id, order |-> job[p].order]}
        BY <1>3 DEF D!SaveFile
      <3> QED BY <3>1, <3>2, RoomTaken
    <2> QED BY <2>1, <2>2, <2>3, <2>4
  <1> QED BY <1>1, <1>2, <1>3

LEMMA TakingFile ==
  ASSUME FilesInv, NEW p \in Proc,
         (\E f \in files : D!BeginRemoveFile(p, f)) \/ D!DeleteRow(p) \/ D!RemoveFile(p)
  PROVE  FilesInv'
  <1> USE DEF D!Starts, D!Goes, D!Ends, D!Idle, D!At, FilesInv
  <1>1. ASSUME NEW f \in files, D!BeginRemoveFile(p, f) PROVE FilesInv'
    <2>1. JobsShape' BY <1>1 DEF D!BeginRemoveFile, D!tracks, JobsShape, Pending, Removing
    <2>2. Apart' BY <1>1 DEF D!BeginRemoveFile, D!tracks, JobsShape, Apart, Pending, Removing
    <2>3. There' BY <1>1 DEF D!BeginRemoveFile, D!tracks, JobsShape, There
    <2>4. Room' BY <1>1, RoomKept DEF D!BeginRemoveFile, D!tracks, JobsShape, Coming, Pending
    <2> QED BY <2>1, <2>2, <2>3, <2>4
  <1>2. CASE D!DeleteRow(p)
    <2>1. JobsShape' BY <1>2 DEF D!DeleteRow, JobsShape, Pending, Removing
    <2>2. Apart' BY <1>2 DEF D!DeleteRow, JobsShape, Apart, Pending, Removing
    <2>3. There' BY <1>2 DEF D!DeleteRow, JobsShape, There
    <2>4. Room' BY <1>2, RoomKept DEF D!DeleteRow, JobsShape, Coming, Pending
    <2> QED BY <2>1, <2>2, <2>3, <2>4
  <1>3. CASE D!RemoveFile(p)
    <2>1. JobsShape' BY <1>3 DEF D!RemoveFile, JobsShape, Pending, Removing
    <2>2. Apart' BY <1>3 DEF D!RemoveFile, JobsShape, Apart, Pending, Removing
    <2>3. There' BY <1>3 DEF D!RemoveFile, JobsShape, Apart, There, Pending, Removing
    <2>4. Room' BY <1>3, RoomKept DEF D!RemoveFile, JobsShape, Coming, Pending
    <2> QED BY <2>1, <2>2, <2>3, <2>4
  <1> QED BY <1>1, <1>2, <1>3

LEMMA DeletingRoute ==
  ASSUME FilesInv, NEW p \in Proc, D!BeginRemoveRoute(p) \/ D!DeleteRoute(p) \/ D!RemoveRouteDir(p)
  PROVE  FilesInv'
  <1> USE DEF D!Starts, D!Goes, D!Ends, D!Idle, D!At
  <1>1. CASE D!BeginRemoveRoute(p)
    <2> DEFINE r == [at |-> "delete"]
    <2>1. job' = [job EXCEPT ![p] = r]
      BY <1>1 DEF D!BeginRemoveRoute
    <2>2. r.at = "delete" /\ "at" \in DOMAIN r
      OBVIOUS
    <2> HIDE DEF r
    <2> QED BY <1>1, <2>1, <2>2, OtherJobs DEF D!BeginRemoveRoute, D!tracks
  <1>2. CASE D!DeleteRoute(p)
    <2>1. JobsShape' BY <1>2 DEF D!DeleteRoute, FilesInv, JobsShape, Pending, Removing
    <2>2. Apart' BY <1>2 DEF D!DeleteRoute, FilesInv, JobsShape, Apart, Pending, Removing
    <2>3. There' BY <1>2 DEF D!DeleteRoute, FilesInv, JobsShape, There
    <2>4. Room' BY <1>2, RoomKept DEF D!DeleteRoute, FilesInv, JobsShape, Coming, Pending
    <2> QED BY <2>1, <2>2, <2>3, <2>4 DEF FilesInv
  <1>3. CASE D!RemoveRouteDir(p)
    <2>1. JobsShape' BY <1>3 DEF D!RemoveRouteDir, FilesInv, JobsShape, Pending, Removing
    <2>2. Apart' BY <1>3 DEF D!RemoveRouteDir, FilesInv, JobsShape, Apart, Pending, Removing
    <2>3. There' BY <1>3 DEF D!RemoveRouteDir, FilesInv, JobsShape, There
    <2>4. Room' BY <1>3, RoomKept DEF D!RemoveRouteDir, FilesInv, JobsShape, Coming, Pending
    <2> QED BY <2>1, <2>2, <2>3, <2>4 DEF FilesInv
  <1> QED BY <1>1, <1>2, <1>3

LEMMA OpeningTrack ==
  ASSUME FilesInv, NEW p \in Proc, (\E f \in files : D!BeginOpenTrack(p, f)) \/ D!ReadTrack(p)
  PROVE  FilesInv'
  <1> USE DEF D!Starts, D!Goes, D!Ends, D!Idle, D!At
  <1>1. ASSUME NEW f \in files, D!BeginOpenTrack(p, f) PROVE FilesInv'
    <2>1. PICK r : job' = [job EXCEPT ![p] = r] /\ r.at \in {"idle", "read"} /\ "at" \in DOMAIN r
      BY <1>1 DEF D!BeginOpenTrack
    <2> QED BY <1>1, <2>1, OtherJobs DEF D!BeginOpenTrack
  <1>2. CASE D!ReadTrack(p)
    <2>1. job' = [job EXCEPT ![p] = D!Idle] /\ D!Idle.at = "idle" /\ "at" \in DOMAIN D!Idle
      BY <1>2 DEF D!ReadTrack
    <2>2. UNCHANGED <<route, files, gpx, lastId>>
      BY <1>2 DEF D!ReadTrack
    <2> QED BY <2>1, <2>2, OtherJobs
  <1> QED BY <1>1, <1>2

LEMMA FilesSteps == FilesInv /\ (D!Next \/ UNCHANGED D!vars) => FilesInv'
  <1> SUFFICES ASSUME FilesInv, D!Next \/ UNCHANGED D!vars PROVE FilesInv'
    OBVIOUS
  <1>1. ASSUME NEW p \in Proc,
               D!SetImage(p) \/ D!RemoveImage(p) \/ D!StopSeries(p) \/ D!BeginUpdate(p) \/ D!Update(p)
        PROVE  FilesInv'
    BY <1>1, PictureSteps
  <1>2. ASSUME NEW p \in Proc, D!Route(p) PROVE FilesInv'
    BY <1>2, AddingFile, TakingFile, DeletingRoute, OpeningTrack DEF D!Route
  <1>3. ASSUME NEW p \in Proc, D!Stop(p) PROVE FilesInv'
    <2>1. job' = [job EXCEPT ![p] = D!Idle] /\ D!Idle.at = "idle" /\ "at" \in DOMAIN D!Idle
      BY <1>3 DEF D!Stop, D!Idle
    <2> QED BY <1>3, <2>1, OtherJobs DEF D!Stop, D!tracks
  <1>4. ASSUME NEW url \in 1 .. clock, D!Serve(url) PROVE FilesInv'
    BY <1>4 DEF D!Serve, D!tracks, FilesInv, JobsShape, Apart, There, Room, Coming, Pending, Removing, D!At
  <1>5. CASE UNCHANGED D!vars
    BY <1>5 DEF D!vars, D!tracks, FilesInv, JobsShape, Apart, There, Room, Coming, Pending, Removing, D!At
  <1> QED BY <1>1, <1>2, <1>3, <1>4, <1>5 DEF D!Next

\* Every row of a GPX file has its file, whatever requests overlap and wherever the
\* server stops, and a route has fewer files over its limit than there are requests at once.
THEOREM FilesThere == HostSpec => []RowsHaveTheirFile
  <1> DEFINE I == part = "files" => FilesInv
  <1>1. HostingInit \/ FormInit \/ FilesInit => I
    BY FilesStart DEF HostingInit, FormInit, FilesInit
  <1>2. I /\ [HostingStep \/ FormStep \/ FilesStep]_all => I'
    <2> SUFFICES ASSUME I, [HostingStep \/ FormStep \/ FilesStep]_all PROVE I'
      OBVIOUS
    <2>1. CASE HostingStep \/ FormStep
      BY <2>1 DEF HostingStep, FormStep
    <2>2. CASE FilesStep
      BY <2>2, FilesSteps DEF FilesStep
    <2>3. CASE UNCHANGED all
      <3>1. UNCHANGED D!vars /\ UNCHANGED part
        BY <2>3 DEF all, disk, D!vars, D!pictures, D!tracks
      <3> QED BY <3>1, FilesSteps
    <2> QED BY <2>1, <2>2, <2>3
  <1>3. I => RowsHaveTheirFile
    <2> SUFFICES ASSUME FilesInv PROVE D!RowsHaveTheirFile
      BY DEF RowsHaveTheirFile
    <2>1. IsFiniteSet(files) /\ Cardinality(files) + Cardinality(Coming) <= MaxFiles + Cardinality(Proc) - 1
      BY DEF FilesInv, Room
    <2>2. IsFiniteSet(Coming)
      BY FS_Subset, FilesAssumption DEF Coming
    <2>3. Cardinality(files) \in Nat /\ Cardinality(Coming) \in Nat /\ Cardinality(Proc) \in Nat
      BY <2>1, <2>2, FS_CardinalityType, FilesAssumption
    <2>4. Cardinality(files) <= MaxFiles + Cardinality(Proc) - 1
      BY <2>1, <2>3, FilesAssumption
    <2> QED BY <2>4, CountsAlike DEF FilesInv, There, D!RowsHaveTheirFile
  <1> HIDE DEF I
  <1> QED BY <1>1, <1>2, <1>3, PTL DEF HostSpec

-----------------------------------------------------------------------------
(* Pictures.  While nothing raced with a removal, a removal is alone and   *)
(* what else is under way finds the directory as it left it, and while no  *)
(* writing was cut either, a file is written by one request (Shown); while *)
(* nothing overlapped or failed at all, one request is under way (Steady). *)
(* An upload that nothing overlaps leaves what it wrote as it brought it,  *)
(* whatever was there before (Mended).                                     *)
PictureRow == [text : {"old", "new"}, url : Nat \cup {None}]
Uploading == [at : {"write"}, row : PictureRow, pic : Picture, left : SUBSET Variant, open : SUBSET Variant,
              failed : BOOLEAN, number : Nat]
Clearing == [at : {"clear", "cleared"}, row : PictureRow, then : {"url", "row"}]
Editing == [at : {"edit"}, row : PictureRow]
OnDisk == Picture \cup {None} \cup SUBSET Proc

PicturesShape ==
    /\ DOMAIN job = Proc /\ \A p \in Proc : "at" \in DOMAIN job[p]
    /\ \A p \in Proc : \/ job[p].at \in {"idle", "drop", "dropped"}
                       \/ job[p] \in Uploading \cup Clearing \cup Editing
    /\ row \in PictureRow \cup {None}
    /\ dir \in [Variant -> OnDisk] \cup {None}
    /\ clock \in Nat /\ meant \in Seq(Picture) /\ Len(meant) = clock
    /\ \A k \in kept : k[1] \in 1 .. clock
    /\ requests \in Nat /\ \A p \in Proc : D!At(p, "write") => requests > 0 /\ job[p].number <= requests

Alone ==
    /\ "race" \notin past => \A p, q \in Proc : D!Removes(job[p]) /\ ~D!At(q, "idle") => p = q
    /\ past = {} => \A p, q \in Proc : ~D!At(p, "idle") /\ ~D!At(q, "idle") => p = q

Past(p, v) == v \in Variant \ (job[p].left \cup job[p].open)

Mended ==
    \A p \in Proc : D!At(p, "write") /\ D!Undisturbed(p) =>
        /\ \A q \in Proc : q = p \/ D!At(q, "idle")
        /\ dir # None /\ \A v \in job[p].open : dir[v] = {p}
        /\ ~job[p].failed => \A v \in Variant : Past(p, v) => dir[v] = job[p].pic

Standing(v) == D!Whole(v) \/ \E p \in Proc : D!Writing(p, v)

Shown ==
    /\ "race" \notin past => \A p \in Proc : (D!At(p, "dropped") => row = None) /\ (D!At(p, "write") => dir # None)
    /\ {"race", "torn"} \cap past = {} =>
           \A p \in Proc : D!At(p, "write") =>
               /\ \A v \in job[p].open : dir[v] = {p}
               /\ ~job[p].failed => \A v \in Variant : Past(p, v) => Standing(v)
    /\ {"race", "cut", "torn"} \cap past = {} /\ (\A p \in Proc : job[p].at \notin {"clear", "cleared"}) =>
           /\ row # None /\ row.url # None => \A v \in Variant : Standing(v)
           /\ \A p \in Proc : D!At(p, "edit") /\ job[p].row.url # None => \A v \in Variant : Standing(v)

Steady ==
    past = {} =>
        /\ \A p \in Proc : D!At(p, "write") => D!Undisturbed(p) /\ ~job[p].failed
        /\ \A p \in Proc : D!At(p, "edit") => row # None /\ job[p].row = row
        /\ (\A p \in Proc : job[p].at \notin {"write", "clear", "cleared"}) /\ row # None /\ row.url # None =>
               /\ \A v \in Variant : dir # None /\ dir[v] = meant[row.url]
               /\ \A k \in kept : k[1] = row.url => k[2] = meant[row.url]

PicturesInv == PicturesShape /\ Alone /\ Mended /\ Shown /\ Steady

(* A route's requests leave the picture as it was at first. *)
Untouched ==
    /\ DOMAIN job = Proc
    /\ row # None => row.url = None
    /\ \A p \in Proc : job[p].at \in {"idle", "file", "row", "unlist", "rm", "delete", "rmdir", "read"}

LEMMA PicturesStart == D!Init /\ subject = "picture" => PicturesInv
  <1> SUFFICES ASSUME D!Init PROVE PicturesInv
    OBVIOUS
  <1>1. PicturesShape
    BY DEF D!Init, D!Idle, D!At, PicturesShape, PictureRow
  <1>2. Alone /\ Mended /\ Shown /\ Steady
    BY DEF D!Init, D!Idle, D!At, D!Removes, Alone, Mended, Shown, Steady
  <1> QED BY <1>1, <1>2 DEF PicturesInv

(* A request that starts is the only one, or it overlaps. *)
LEMMA StartsAlone ==
  ASSUME PicturesShape, Alone, NEW p \in Proc, NEW r, "at" \in DOMAIN r, D!Starts(p, "picture", r)
  PROVE  Alone'
  BY DEF PicturesShape, Alone, D!Starts, D!At, D!Removes

LEMMA UploadsNumbered ==
  ASSUME PicturesShape, NEW p \in Proc, D!At(p, "write")
  PROVE  requests \in Nat /\ job[p].number \in Nat /\ job[p].number <= requests /\ job[p].number < requests + 1
  <1>1. job[p].number \in Nat /\ requests \in Nat /\ job[p].number <= requests
    BY DEF PicturesShape, Uploading, Clearing, Editing, D!At
  <1> QED BY <1>1

(* With a request that starts, no other upload is undisturbed. *)
LEMMA StartsDisturb ==
  ASSUME PicturesShape, NEW p \in Proc, NEW r, D!Starts(p, "picture", r),
         NEW q \in Proc, q # p, D!At(q, "write")
  PROVE  ~D!Undisturbed(q)'
  BY UploadsNumbered DEF PicturesShape, D!Starts, D!At, D!Undisturbed

(* While another request goes on, or ends, no upload is undisturbed. *)
LEMMA OthersMended ==
  ASSUME Mended, NEW p \in Proc, ~D!At(p, "idle"), ~D!At(p, "write")', requests' = requests,
         \A q \in Proc : q # p => job'[q] = job[q]
  PROVE  Mended'
  BY DEF Mended, D!At, D!Undisturbed

LEMMA UploadBegins ==
  ASSUME PicturesInv, NEW p \in Proc, NEW pic \in Picture, D!BeginSetImage(p, pic)
  PROVE  PicturesInv'
  <1> DEFINE r == [at |-> "write", row |-> row, pic |-> pic, left |-> Variant, open |-> {}, failed |-> FALSE,
                   number |-> IF \A q \in Proc : D!At(q, "idle") THEN requests + 1 ELSE 0]
  <1> USE DEF PicturesInv, D!Idle, D!At, D!tracks, D!pictures
  <1>1. /\ D!Starts(p, "picture", r) /\ UNCHANGED <<row, clock, meant, kept>>
        /\ row # None /\ dir' = IF dir = None THEN D!Nothing ELSE dir
    BY DEF D!BeginSetImage
  <1>2. r \in Uploading /\ r.at = "write" /\ "at" \in DOMAIN r /\ r.open = {} /\ r.left = Variant
    BY <1>1 DEF PicturesShape, Uploading
  <1>3. r.number <= requests + 1 /\ (r.number = requests + 1 => \A q \in Proc : D!At(q, "idle"))
    BY DEF PicturesShape
  <1>4. job' = [job EXCEPT ![p] = r] /\ requests' = requests + 1 /\ D!At(p, "idle")
    BY <1>1 DEF D!Starts
  <1>5. dir' \in [Variant -> OnDisk] /\ dir' # None
    BY <1>1, PicturesAssumption DEF D!Nothing, PicturesShape, OnDisk
  <1> HIDE DEF r
  <1>6. PicturesShape'
    <2>1. DOMAIN job' = Proc /\ job'[p] = r /\ \A q \in Proc : q # p => job'[q] = job[q]
      BY <1>4 DEF PicturesShape
    <2>2. \A q \in Proc : D!At(q, "write")' => requests' > 0 /\ job'[q].number <= requests'
      BY <1>2, <1>3, <1>4, <2>1, UploadsNumbered DEF PicturesShape
    <2> QED BY <1>1, <1>2, <1>4, <1>5, <2>1, <2>2 DEF PicturesShape
  <1>7. Alone'
    BY <1>1, <1>2, StartsAlone
  <1>8. Mended'
    BY <1>1, <1>2, <1>3, <1>4, <1>5, StartsDisturb DEF PicturesShape, Mended, Past, D!Undisturbed
  <1>9. past \subseteq past'
    BY <1>1 DEF D!Starts
  <1>10. \A v \in Variant : Standing(v) => Standing(v)'
    BY <1>1, <1>4, PicturesAssumption DEF PicturesShape, Standing, D!Whole, D!Writing
  <1>11. Shown'
    BY <1>1, <1>2, <1>4, <1>5, <1>9, <1>10 DEF PicturesShape, Shown, Past
  <1>12. Steady'
    <2> SUFFICES ASSUME past' = {} PROVE Steady'
      BY DEF Steady
    <2>1. past = {} /\ \A q \in Proc : D!At(q, "idle")
      BY <1>1, <1>4 DEF D!Starts, PicturesShape
    <2>2. job'[p] = r /\ \A q \in Proc : q # p => job'[q] = job[q]
      BY <1>4 DEF PicturesShape
    <2>3. r.number = requests' /\ ~r.failed
      BY <1>4, <2>1 DEF r
    <2> QED BY <1>2, <2>1, <2>2, <2>3 DEF Steady, D!Undisturbed
  <1> QED BY <1>6, <1>7, <1>8, <1>11, <1>12

(* A step of an upload: what it is after it. *)
LEMMA UploadGoesOn ==
  ASSUME PicturesInv, NEW p \in Proc, D!At(p, "write"), NEW r \in Uploading, r.number = job[p].number,
         job' = [job EXCEPT ![p] = r], dir' \in [Variant -> OnDisk] \cup {None}, UNCHANGED <<row, clock, meant, kept, requests>>,
         past \subseteq past', r.failed => job[p].failed \/ past' # {}
  PROVE  PicturesShape' /\ Alone' /\ Steady'
  <1> USE DEF PicturesInv, D!At
  <1>1. r.at = "write" /\ "at" \in DOMAIN r /\ DOMAIN job' = Proc /\ job'[p] = r /\ \A q \in Proc : q # p => job'[q] = job[q]
    BY DEF PicturesShape, Uploading
  <1>2. PicturesShape'
    BY <1>1 DEF PicturesShape
  <1>3. Alone'
    BY <1>1 DEF PicturesShape, Alone, D!Removes
  <1>4. Steady'
    BY <1>1 DEF PicturesShape, Steady, D!Undisturbed
  <1> QED BY <1>2, <1>3, <1>4

LEMMA VariantOpened ==
  ASSUME PicturesInv, NEW p \in Proc, NEW v \in Variant, D!OpenVariant(p, v)
  PROVE  PicturesInv'
  <1> DEFINE r == [job[p] EXCEPT !.left = @ \ {v}, !.open = @ \cup {v}]
             authors == {p} \cup {q \in Proc : D!Writing(q, v) /\ D!WroteInto(q, v)}
  <1> USE DEF PicturesInv, D!At
  <1>1. /\ D!At(p, "write") /\ v \in job[p].left /\ dir # None /\ dir' = [dir EXCEPT ![v] = authors]
        /\ job' = [job EXCEPT ![p] = r] /\ past' = past \cup (IF \E q \in Proc : D!Writing(q, v) THEN {"torn"} ELSE {})
        /\ UNCHANGED <<row, clock, meant, kept, requests>>
    BY DEF D!OpenVariant
  <1>2. job[p] \in Uploading
    BY <1>1 DEF PicturesShape, Clearing, Editing
  <1>3. /\ r \in Uploading /\ r.number = job[p].number /\ r.left = job[p].left \ {v} /\ r.open = job[p].open \cup {v}
        /\ r.at = "write" /\ r.failed = job[p].failed /\ r.pic = job[p].pic
    BY <1>2 DEF Uploading
  <1>4. authors \in SUBSET Proc /\ dir' \in [Variant -> OnDisk] /\ dir' # None /\ dir'[v] = authors
        /\ \A w \in Variant : w # v => dir'[w] = dir[w]
    BY <1>1, PicturesAssumption DEF PicturesShape, OnDisk
  <1>5. DOMAIN job' = Proc /\ job'[p] = r /\ \A q \in Proc : q # p => job'[q] = job[q]
    BY <1>1 DEF PicturesShape
  <1>6. (\A q \in Proc : ~D!Writing(q, v)) => authors = {p}
    OBVIOUS
  <1> HIDE DEF r, authors
  <1>7. PicturesShape' /\ Alone' /\ Steady'
    BY <1>1, <1>2, <1>3, <1>4, UploadGoesOn
  <1>8. Mended'
    <2> SUFFICES ASSUME NEW q \in Proc, D!At(q, "write")', D!Undisturbed(q)'
                 PROVE  /\ \A o \in Proc : o = q \/ D!At(o, "idle")'
                        /\ dir' # None /\ \A w \in job'[q].open : dir'[w] = {q}
                        /\ ~job'[q].failed => \A w \in Variant : Past(q, w)' => dir'[w] = job'[q].pic
      BY DEF Mended
    <2>1. D!At(q, "write") /\ D!Undisturbed(q)
      BY <1>1, <1>3, <1>5 DEF D!Undisturbed
    <2>2. q = p /\ \A o \in Proc : o = p \/ D!At(o, "idle")
      BY <1>1, <2>1 DEF Mended
    <2>3. \A o \in Proc : o # p => ~D!Writing(o, v)
      BY <2>2 DEF D!Writing
    <2>4. v \notin job[p].open => authors = {p}
      BY <1>6, <2>3 DEF D!Writing
    <2>5. authors = {p}
      BY <2>3 DEF authors
    <2>6. \A w \in Variant : Past(p, w)' => w # v /\ Past(p, w)
      BY <1>3, <1>5 DEF Past
    <2>7. job[p].open \subseteq Variant
      BY <1>2 DEF Uploading
    <2> QED BY <1>1, <1>3, <1>4, <1>5, <2>1, <2>2, <2>5, <2>6, <2>7 DEF Mended
  <1>9. \A w \in Variant : Standing(w) => Standing(w)'
    BY <1>1, <1>3, <1>4, <1>5 DEF Standing, D!Whole, D!Writing
  <1>10. Shown'
    <2>1. "race" \notin past' => \A q \in Proc : (D!At(q, "dropped")' => row' = None) /\ (D!At(q, "write")' => dir' # None)
      BY <1>1, <1>3, <1>4, <1>5 DEF Shown
    <2>2. ASSUME {"race", "torn"} \cap past' = {}, NEW q \in Proc, D!At(q, "write")'
          PROVE  /\ \A w \in job'[q].open : dir'[w] = {q}
                 /\ ~job'[q].failed => \A w \in Variant : Past(q, w)' => Standing(w)'
      <3>1. {"race", "torn"} \cap past = {} /\ (\A o \in Proc : ~D!Writing(o, v)) /\ D!At(q, "write")
        BY <1>1, <1>3, <1>5, <2>2
      <3>2. job[q].open \subseteq Variant
        BY <3>1 DEF PicturesShape, Uploading, Clearing, Editing
      <3>3. v \notin job[q].open
        BY <3>1 DEF D!Writing
      <3>4. \A w \in job'[q].open : dir'[w] = {q}
        BY <1>3, <1>4, <1>5, <1>6, <3>1, <3>2, <3>3 DEF Shown
      <3>5. job'[q].failed = job[q].failed /\ \A w \in Variant : Past(q, w)' => Past(q, w)
        BY <1>3, <1>5 DEF Past
      <3> QED BY <1>9, <3>1, <3>4, <3>5 DEF Shown
    <2>3. ASSUME {"race", "cut", "torn"} \cap past' = {}, \A q \in Proc : job'[q].at \notin {"clear", "cleared"}
          PROVE  /\ row' # None /\ row'.url # None => \A w \in Variant : Standing(w)'
                 /\ \A q \in Proc : D!At(q, "edit")' /\ job'[q].row.url # None => \A w \in Variant : Standing(w)'
      <3>1. \A q \in Proc : job[q].at \notin {"clear", "cleared"}
        BY <1>1, <1>5, <2>3
      <3> QED BY <1>1, <1>3, <1>5, <1>9, <2>3, <3>1 DEF Shown
    <2> QED BY <2>1, <2>2, <2>3 DEF Shown
  <1> QED BY <1>7, <1>8, <1>10

LEMMA VariantWritten ==
  ASSUME PicturesInv, NEW p \in Proc, NEW v \in Variant, D!WriteVariant(p, v)
  PROVE  PicturesInv'
  <1> DEFINE r == [job[p] EXCEPT !.open = @ \ {v}]
  <1> USE DEF PicturesInv, D!At
  <1>1. /\ D!At(p, "write") /\ v \in job[p].open
        /\ dir' = IF dir # None /\ dir[v] = {p} THEN [dir EXCEPT ![v] = job[p].pic] ELSE dir
        /\ job' = [job EXCEPT ![p] = r] /\ UNCHANGED <<row, clock, meant, kept, requests, past>>
    BY DEF D!WriteVariant, D!Writing, D!Goes
  <1>2. job[p] \in Uploading
    BY <1>1 DEF PicturesShape, Clearing, Editing
  <1>3. /\ r \in Uploading /\ r.number = job[p].number /\ r.left = job[p].left /\ r.open = job[p].open \ {v}
        /\ r.at = "write" /\ r.failed = job[p].failed /\ r.pic = job[p].pic /\ job[p].pic \in Picture
    BY <1>2 DEF Uploading
  <1>4. /\ dir' \in [Variant -> OnDisk] \cup {None} /\ (dir # None => dir' # None)
        /\ dir # None => \A w \in Variant : w # v => dir'[w] = dir[w]
        /\ dir # None /\ dir[v] = {p} => dir'[v] = job[p].pic
    BY <1>1, <1>3, PicturesAssumption DEF PicturesShape, OnDisk
  <1>5. DOMAIN job' = Proc /\ job'[p] = r /\ \A q \in Proc : q # p => job'[q] = job[q]
    BY <1>1 DEF PicturesShape
  <1> HIDE DEF r
  <1>6. PicturesShape' /\ Alone' /\ Steady'
    BY <1>1, <1>2, <1>3, <1>4, UploadGoesOn
  <1>7. Mended'
    <2> SUFFICES ASSUME NEW q \in Proc, D!At(q, "write")', D!Undisturbed(q)'
                 PROVE  /\ \A o \in Proc : o = q \/ D!At(o, "idle")'
                        /\ dir' # None /\ \A w \in job'[q].open : dir'[w] = {q}
                        /\ ~job'[q].failed => \A w \in Variant : Past(q, w)' => dir'[w] = job'[q].pic
      BY DEF Mended
    <2>1. D!At(q, "write") /\ D!Undisturbed(q)
      BY <1>1, <1>3, <1>5 DEF D!Undisturbed
    <2>2. q = p /\ \A o \in Proc : o = p \/ D!At(o, "idle")
      BY <1>1, <2>1 DEF Mended
    <2>3. dir # None /\ dir[v] = {p}
      BY <1>1, <2>1, <2>2 DEF Mended
    <2>4. \A w \in Variant : Past(p, w)' => w = v \/ Past(p, w)
      BY <1>3, <1>5 DEF Past
    <2>5. job[p].open \subseteq Variant
      BY <1>2 DEF Uploading
    <2> QED BY <1>1, <1>3, <1>4, <1>5, <2>1, <2>2, <2>3, <2>4, <2>5 DEF Mended
  <1>8. ASSUME {"race", "torn"} \cap past = {} PROVE dir # None /\ dir[v] = {p} /\ D!Whole(v)' /\ \A w \in Variant : Standing(w) => Standing(w)'
    <2>1. dir # None /\ dir[v] = {p}
      BY <1>1, <1>8 DEF Shown
    <2>2. D!Whole(v)'
      BY <1>3, <1>4, <2>1 DEF D!Whole
    <2>3. ASSUME NEW w \in Variant, w # v, Standing(w) PROVE Standing(w)'
      BY <1>3, <1>4, <1>5, <2>1, <2>3 DEF Standing, D!Whole, D!Writing
    <2> QED BY <2>1, <2>2, <2>3 DEF Standing
  <1>9. Shown'
    <2>1. "race" \notin past' => \A q \in Proc : (D!At(q, "dropped")' => row' = None) /\ (D!At(q, "write")' => dir' # None)
      BY <1>1, <1>3, <1>4, <1>5 DEF Shown
    <2>2. ASSUME {"race", "torn"} \cap past' = {}, NEW q \in Proc, D!At(q, "write")'
          PROVE  /\ \A w \in job'[q].open : dir'[w] = {q}
                 /\ ~job'[q].failed => \A w \in Variant : Past(q, w)' => Standing(w)'
      <3>1. {"race", "torn"} \cap past = {} /\ D!At(q, "write")
        BY <1>1, <1>3, <1>5, <2>2
      <3>2. job[q].open \subseteq Variant /\ \A w \in job[q].open : dir[w] = {q}
        BY <3>1 DEF Shown, PicturesShape, Uploading, Clearing, Editing
      <3>3. \A w \in job'[q].open : w \in job[q].open /\ w # v
        BY <1>3, <1>5, <1>8, <3>1, <3>2
      <3>4. \A w \in job'[q].open : dir'[w] = {q}
        BY <1>4, <1>8, <3>1, <3>2, <3>3
      <3>5. job'[q].failed = job[q].failed /\ \A w \in Variant : Past(q, w)' => w = v \/ Past(q, w)
        BY <1>3, <1>5 DEF Past
      <3>6. Standing(v)'
        BY <1>8, <3>1 DEF Standing
      <3> QED BY <1>8, <3>1, <3>4, <3>5, <3>6 DEF Shown
    <2>3. ASSUME {"race", "cut", "torn"} \cap past' = {}, \A q \in Proc : job'[q].at \notin {"clear", "cleared"}
          PROVE  /\ row' # None /\ row'.url # None => \A w \in Variant : Standing(w)'
                 /\ \A q \in Proc : D!At(q, "edit")' /\ job'[q].row.url # None => \A w \in Variant : Standing(w)'
      <3>1. \A q \in Proc : job[q].at \notin {"clear", "cleared"}
        BY <1>1, <1>5, <2>3
      <3>2. {"race", "cut", "torn"} \cap past = {} /\ \A w \in Variant : Standing(w) => Standing(w)'
        BY <1>1, <1>8, <2>3
      <3> QED BY <1>1, <1>3, <1>5, <3>1, <3>2 DEF Shown
    <2> QED BY <2>1, <2>2, <2>3 DEF Shown
  <1> QED BY <1>6, <1>7, <1>9

LEMMA VariantFailed ==
  ASSUME PicturesInv, NEW p \in Proc, NEW v \in Variant, D!VariantFails(p, v)
  PROVE  PicturesInv'
  <1> DEFINE r == [job[p] EXCEPT !.left = @ \ {v}, !.open = @ \ {v}, !.failed = TRUE]
  <1> USE DEF PicturesInv, D!At
  <1>1. /\ D!At(p, "write") /\ job' = [job EXCEPT ![p] = r]
        /\ past' = past \cup {"failure"} \cup (IF v \in job[p].open THEN {"torn"} ELSE {})
        /\ UNCHANGED <<dir, row, clock, meant, kept, requests>>
    BY DEF D!VariantFails, D!Writing, D!pictures
  <1>2. job[p] \in Uploading
    BY <1>1 DEF PicturesShape, Clearing, Editing
  <1>3. /\ r \in Uploading /\ r.number = job[p].number /\ r.open = job[p].open \ {v}
        /\ r.at = "write" /\ r.failed /\ r.open \subseteq Variant
    BY <1>2 DEF Uploading
  <1>4. DOMAIN job' = Proc /\ job'[p] = r /\ \A q \in Proc : q # p => job'[q] = job[q]
    BY <1>1 DEF PicturesShape
  <1> HIDE DEF r
  <1>5. PicturesShape' /\ Alone' /\ Steady'
    BY <1>1, <1>2, <1>3, UploadGoesOn DEF PicturesShape
  <1>6. Mended'
    BY <1>1, <1>3, <1>4 DEF Mended, Past, D!Undisturbed
  <1>7. "torn" \notin past' => \A w \in Variant : Standing(w) => Standing(w)'
    BY <1>1, <1>3, <1>4 DEF Standing, D!Whole, D!Writing
  <1>8. Shown'
    BY <1>1, <1>3, <1>4, <1>7 DEF Shown, Past
  <1> QED BY <1>5, <1>6, <1>8

LEMMA UrlSaved ==
  ASSUME PicturesInv, NEW p \in Proc, D!SaveUrl(p)
  PROVE  PicturesInv'
  <1> USE DEF PicturesInv, D!Idle, D!At
  <1>1. /\ job[p].at = "write" /\ job[p].left \cup job[p].open = {} /\ ~job[p].failed
        /\ clock' = clock + 1 /\ meant' = Append(meant, job[p].pic) /\ row' = [job[p].row EXCEPT !.url = clock']
        /\ job' = [job EXCEPT ![p] = [at |-> "idle"]]
        /\ past' = IF D!Undisturbed(p) THEN {} ELSE past
        /\ UNCHANGED <<dir, kept, requests>>
    BY DEF D!SaveUrl, D!Written
  <1>2. job[p] \in Uploading /\ job[p].pic \in Picture
    BY <1>1 DEF PicturesShape, Uploading, Clearing, Editing
  <1>3. /\ clock' \in Nat /\ meant' \in Seq(Picture) /\ Len(meant') = clock' /\ 1 .. clock \subseteq 1 .. clock'
        /\ meant'[clock'] = job[p].pic /\ clock' \notin 1 .. clock
    <2> clock \in Nat /\ meant \in Seq(Picture) /\ Len(meant) = clock
      BY DEF PicturesShape
    <2> QED BY <1>1, <1>2
  <1>4. row' \in PictureRow /\ row'.url = clock'
    BY <1>1, <1>2, <1>3 DEF PictureRow, Uploading
  <1>5. DOMAIN job' = Proc /\ job'[p] = [at |-> "idle"] /\ \A q \in Proc : q # p => job'[q] = job[q]
    BY <1>1 DEF PicturesShape
  <1>6. PicturesShape'
    <2>1. \A q \in Proc : /\ "at" \in DOMAIN job'[q]
                          /\ job'[q].at \in {"idle", "drop", "dropped"} \/ job'[q] \in Uploading \cup Clearing \cup Editing
      BY <1>5 DEF PicturesShape
    <2>2. \A q \in Proc : D!At(q, "write")' => requests' > 0 /\ job'[q].number <= requests'
      BY <1>1, <1>5 DEF PicturesShape
    <2> QED BY <1>1, <1>3, <1>4, <1>5, <2>1, <2>2 DEF PicturesShape
  <1>7. ASSUME D!Undisturbed(p)
        PROVE  /\ \A q \in Proc : job'[q].at = "idle"
               /\ dir # None /\ \A v \in Variant : dir[v] = job[p].pic
    BY <1>1, <1>5, <1>7 DEF Mended, Past
  <1>8. Alone'
    BY <1>1, <1>5, <1>7 DEF Alone, D!Removes
  <1>9. Mended'
    BY <1>1, <1>5, OthersMended
  <1>10. Shown'
    <2>1. CASE D!Undisturbed(p)
      BY <1>1, <1>2, <1>7, <2>1 DEF Shown, Standing, D!Whole
    <2>2. CASE ~D!Undisturbed(p)
      <3>1. past' = past
        BY <1>1, <2>2
      <3>2. \A v \in Variant : Standing(v) => Standing(v)'
        BY <1>1, <1>5 DEF Standing, D!Whole, D!Writing
      <3>3. "race" \notin past => \A q \in Proc : q # p => ~D!At(q, "dropped")
        BY <1>1 DEF Alone, D!Removes
      <3>4. {"race", "torn"} \cap past = {} => \A v \in Variant : Standing(v)
        BY <1>1 DEF Shown, Past
      <3>5. \A q \in Proc : q # p => \A v \in Variant : Past(q, v)' = Past(q, v)
        BY <1>5 DEF Past
      <3> QED BY <1>1, <1>5, <3>1, <3>2, <3>3, <3>4, <3>5 DEF Shown
    <2> QED BY <2>1, <2>2
  <1>11. Steady'
    <2> SUFFICES ASSUME past' = {} PROVE Steady'
      BY DEF Steady
    <2>1. D!Undisturbed(p)
      BY <1>1 DEF Steady
    <2>2. \A k \in kept' : k[1] # row'.url
      BY <1>1, <1>3, <1>4 DEF PicturesShape
    <2> QED BY <1>1, <1>3, <1>4, <1>7, <2>1, <2>2 DEF Steady
  <1> QED BY <1>6, <1>8, <1>9, <1>10, <1>11

LEMMA UploadFailed ==
  ASSUME PicturesInv, NEW p \in Proc, D!UploadFails(p)
  PROVE  PicturesInv'
  <1> USE DEF PicturesInv, D!At
  <1>1. /\ job[p].at = "write" /\ job[p].open = {} /\ job[p].failed /\ job' = [job EXCEPT ![p] = [at |-> "idle"]]
        /\ UNCHANGED <<row, dir, clock, meant, kept, requests, past>>
    BY DEF D!UploadFails, D!Ends, D!Idle, D!pictures, PicturesShape, Uploading, Clearing, Editing
  <1>2. job'[p] = [at |-> "idle"] /\ DOMAIN job' = Proc /\ \A q \in Proc : q # p => job'[q] = job[q]
    BY <1>1 DEF PicturesShape
  <1>3. PicturesShape'
    BY <1>1, <1>2 DEF PicturesShape
  <1>4. Alone'
    BY <1>1, <1>2 DEF Alone, D!Removes
  <1>5. Mended'
    BY <1>1, <1>2, OthersMended
  <1>6. \A v \in Variant : Standing(v) => Standing(v)'
    BY <1>1, <1>2 DEF Standing, D!Whole, D!Writing
  <1>7. Shown'
    BY <1>1, <1>2, <1>6 DEF Shown, Past
  <1>8. past # {}
    BY <1>1 DEF Steady
  <1>9. Steady'
    BY <1>1, <1>8 DEF Steady
  <1> QED BY <1>3, <1>4, <1>5, <1>7, <1>9

LEMMA RemovalBegins ==
  ASSUME PicturesInv, NEW p \in Proc, D!BeginRemoveImage(p) \/ D!BeginRemove(p) \/ D!BeginStop(p)
  PROVE  PicturesInv'
  <1> USE DEF PicturesInv, D!Idle, D!At, D!tracks, D!pictures
  <1>1. PICK r : /\ D!Starts(p, "picture", r) /\ r \in Clearing \cup {[at |-> "drop"]} /\ r.at \in {"clear", "drop"}
                 /\ UNCHANGED <<row, dir, clock, meant, kept>>
    BY PicturesAssumption DEF D!BeginRemoveImage, D!BeginRemove, D!BeginStop, PicturesShape, Clearing
  <1>2. "at" \in DOMAIN r
    BY <1>1 DEF Clearing
  <1>3. /\ DOMAIN job' = Proc /\ job'[p] = r /\ (\A q \in Proc : q # p => job'[q] = job[q]) /\ job[p].at = "idle"
        /\ requests' = requests + 1 /\ past \subseteq past'
    BY <1>1 DEF D!Starts, PicturesShape
  <1>4. PicturesShape'
    <2>1. \A q \in Proc : D!At(q, "write")' => q # p
      BY <1>1, <1>3
    <2> QED BY <1>1, <1>2, <1>3, <2>1, UploadsNumbered DEF PicturesShape
  <1>5. Alone'
    BY <1>1, <1>2, StartsAlone
  <1>6. Mended'
    BY <1>1, <1>3, StartsDisturb DEF Mended
  <1>7. \A v \in Variant : Standing(v) => Standing(v)'
    BY <1>1, <1>3 DEF Standing, D!Whole, D!Writing
  <1>8. r.at = "drop" => D!Removes(r)
    BY DEF D!Removes
  <1>9. Shown'
    <2>1. \A q \in Proc : D!At(q, "write")' \/ D!At(q, "edit")' \/ D!At(q, "dropped")' => q # p
      BY <1>1, <1>3
    <2>2. (\A q \in Proc : job'[q].at \notin {"clear", "cleared"}) => \A q \in Proc : job[q].at \notin {"clear", "cleared"}
      BY <1>3
    <2> QED BY <1>1, <1>3, <1>7, <2>1, <2>2 DEF Shown, Past
  <1>10. Steady'
    <2> SUFFICES ASSUME past' = {} PROVE Steady'
      BY DEF Steady
    <2>1. past = {} /\ \A q \in Proc : D!At(q, "idle")
      BY <1>1, <1>3 DEF D!Starts
    <2>2. \A q \in Proc : job'[q].at \notin {"write", "edit"}
      BY <1>1, <1>3, <2>1
    <2> QED BY <1>1, <1>3, <2>1, <2>2 DEF Steady
  <1> QED BY <1>4, <1>5, <1>6, <1>9, <1>10

(* While a removal takes files nothing is promised, and nobody uploads. *)
LEMMA VariantRemoved ==
  ASSUME PicturesInv, NEW p \in Proc, NEW v \in Variant, D!RemoveVariant(p, v)
  PROVE  PicturesInv'
  <1> USE DEF PicturesInv, D!At
  <1>1. /\ job[p].at \in {"clear", "dropped"} /\ dir # None /\ dir' = [dir EXCEPT ![v] = None]
        /\ UNCHANGED <<row, clock, meant, kept, job, requests, past>>
    BY DEF D!RemoveVariant
  <1>2. dir' \in [Variant -> OnDisk] /\ dir' # None
    BY <1>1, PicturesAssumption DEF PicturesShape, OnDisk
  <1>3. PicturesShape'
    BY <1>1, <1>2 DEF PicturesShape
  <1>4. Alone'
    BY <1>1 DEF Alone
  <1>5. Mended'
    <2>1. \A q \in Proc : ~(D!At(q, "write") /\ D!Undisturbed(q))
      BY <1>1 DEF Mended
    <2> QED BY <1>1, <2>1 DEF Mended, D!Undisturbed
  <1>6. "race" \notin past => \A q \in Proc : q = p \/ D!At(q, "idle")
    BY <1>1 DEF Alone, D!Removes
  <1>7. "race" \notin past /\ job[p].at = "dropped" => row = None
    BY <1>1 DEF Shown
  <1>8. Shown'
    BY <1>1, <1>2, <1>6, <1>7 DEF Shown
  <1>9. Steady'
    BY <1>1, <1>6, <1>7 DEF Steady, D!Undisturbed
  <1> QED BY <1>3, <1>4, <1>5, <1>8, <1>9

LEMMA DirRemoved ==
  ASSUME PicturesInv, NEW p \in Proc, D!RemoveDir(p)
  PROVE  PicturesInv'
  <1> USE DEF PicturesInv, D!At
  <1>1. /\ job[p].at = "clear" /\ dir' \in {None, dir} /\ job' = [job EXCEPT ![p] = [job[p] EXCEPT !.at = "cleared"]]
        /\ UNCHANGED <<row, clock, meant, kept, requests, past>>
    BY DEF D!RemoveDir, D!Goes
  <1>2. job[p] \in Clearing
    BY <1>1 DEF PicturesShape, Uploading, Editing
  <1>3. job'[p] \in Clearing /\ job'[p].at = "cleared" /\ DOMAIN job' = Proc /\ \A q \in Proc : q # p => job'[q] = job[q]
    BY <1>1, <1>2 DEF PicturesShape, Clearing
  <1>4. PicturesShape'
    BY <1>1, <1>3 DEF PicturesShape, Clearing
  <1>5. Alone'
    BY <1>1, <1>3 DEF Alone, D!Removes
  <1>7. Mended'
    BY <1>1, <1>3, OthersMended
  <1>8. "race" \notin past => \A q \in Proc : q = p \/ D!At(q, "idle")
    BY <1>1 DEF Alone, D!Removes
  <1>9. Shown'
    BY <1>1, <1>3, <1>8 DEF Shown
  <1>10. Steady'
    BY <1>1, <1>3, <1>8 DEF Steady
  <1> QED BY <1>4, <1>5, <1>7, <1>9, <1>10

LEMMA ClearedSaved ==
  ASSUME PicturesInv, NEW p \in Proc, D!SaveCleared(p)
  PROVE  PicturesInv'
  <1> USE DEF PicturesInv, D!At
  <1>1. /\ job[p].at = "cleared" /\ row' = IF job[p].then = "row" THEN None ELSE [job[p].row EXCEPT !.url = None]
        /\ job' = [job EXCEPT ![p] = [at |-> "idle"]]
        /\ UNCHANGED <<dir, clock, meant, kept, requests, past>>
    BY DEF D!SaveCleared, D!Ends, D!Idle
  <1>2. job[p] \in Clearing
    BY <1>1 DEF PicturesShape, Uploading, Editing
  <1>3. job'[p] = [at |-> "idle"] /\ DOMAIN job' = Proc /\ \A q \in Proc : q # p => job'[q] = job[q]
    BY <1>1 DEF PicturesShape
  <1>4. row' \in PictureRow \cup {None} /\ (row' # None => row'.url = None)
    BY <1>1, <1>2 DEF PictureRow, Clearing
  <1>5. PicturesShape'
    BY <1>1, <1>3, <1>4 DEF PicturesShape
  <1>6. Alone'
    BY <1>1, <1>3 DEF Alone, D!Removes
  <1>7. Mended'
    BY <1>1, <1>2, <1>3, OthersMended
  <1>8. "race" \notin past => \A q \in Proc : job'[q].at = "idle"
    BY <1>1, <1>3 DEF Alone, D!Removes
  <1>9. Shown'
    BY <1>1, <1>4, <1>8 DEF Shown
  <1>10. Steady'
    BY <1>1, <1>4, <1>8 DEF Steady
  <1> QED BY <1>5, <1>6, <1>7, <1>9, <1>10

LEMMA RowDropped ==
  ASSUME PicturesInv, NEW p \in Proc, D!DropRow(p)
  PROVE  PicturesInv'
  <1> USE DEF PicturesInv, D!At
  <1>1. /\ job[p].at = "drop" /\ row' = None /\ job' = [job EXCEPT ![p] = [at |-> "dropped"]]
        /\ UNCHANGED <<dir, clock, meant, kept, requests, past>>
    BY DEF D!DropRow, D!Goes
  <1>2. job'[p] = [at |-> "dropped"] /\ DOMAIN job' = Proc /\ \A q \in Proc : q # p => job'[q] = job[q]
    BY <1>1 DEF PicturesShape
  <1>3. PicturesShape'
    BY <1>1, <1>2 DEF PicturesShape
  <1>4. Alone'
    BY <1>1, <1>2 DEF Alone, D!Removes
  <1>5. Mended'
    BY <1>1, <1>2, <1>3, OthersMended
  <1>6. "race" \notin past => \A q \in Proc : q = p \/ D!At(q, "idle")
    BY <1>1 DEF Alone, D!Removes
  <1>7. Shown'
    BY <1>1, <1>2, <1>6 DEF Shown
  <1>8. Steady'
    BY <1>1, <1>2, <1>6 DEF Steady
  <1> QED BY <1>3, <1>4, <1>5, <1>7, <1>8

LEMMA FilesDropped ==
  ASSUME PicturesInv, NEW p \in Proc, D!DropFiles(p)
  PROVE  PicturesInv'
  <1> USE DEF PicturesInv, D!At
  <1>1. /\ job[p].at = "dropped" /\ dir' \in {None, dir} /\ job' = [job EXCEPT ![p] = [at |-> "idle"]]
        /\ UNCHANGED <<row, clock, meant, kept, requests, past>>
    BY DEF D!DropFiles, D!Ends, D!Idle
  <1>2. job'[p] = [at |-> "idle"] /\ DOMAIN job' = Proc /\ \A q \in Proc : q # p => job'[q] = job[q]
    BY <1>1 DEF PicturesShape
  <1>3. PicturesShape'
    BY <1>1, <1>2 DEF PicturesShape
  <1>4. Alone'
    BY <1>1, <1>2 DEF Alone, D!Removes
  <1>6. Mended'
    BY <1>1, <1>2, OthersMended
  <1>7. "race" \notin past => row = None /\ \A q \in Proc : job'[q].at = "idle"
    BY <1>1, <1>2 DEF Alone, Shown, D!Removes
  <1>8. Shown'
    BY <1>1, <1>7 DEF Shown
  <1>9. Steady'
    BY <1>1, <1>7 DEF Steady
  <1> QED BY <1>3, <1>4, <1>6, <1>8, <1>9

LEMMA EditBegins ==
  ASSUME PicturesInv, NEW p \in Proc, D!BeginUpdate(p)
  PROVE  PicturesInv'
  <1> DEFINE r == [at |-> "edit", row |-> row]
  <1> USE DEF PicturesInv, D!At
  <1>1. row # None /\ D!Starts(p, "picture", r) /\ UNCHANGED <<row, dir, clock, meant, kept>>
    BY DEF D!BeginUpdate, D!tracks, D!pictures
  <1>2. r \in Editing /\ "at" \in DOMAIN r /\ r.at = "edit" /\ r.row = row
    BY <1>1 DEF PicturesShape, Editing
  <1> HIDE DEF r
  <1>3. /\ DOMAIN job' = Proc /\ job'[p] = r /\ (\A q \in Proc : q # p => job'[q] = job[q]) /\ job[p].at = "idle"
        /\ requests' = requests + 1 /\ past \subseteq past'
    BY <1>1 DEF D!Starts, PicturesShape
  <1>4. PicturesShape'
    <2>1. \A q \in Proc : D!At(q, "write")' => q # p
      BY <1>2, <1>3
    <2> QED BY <1>1, <1>2, <1>3, <2>1, UploadsNumbered DEF PicturesShape
  <1>5. Alone'
    BY <1>1, <1>2, StartsAlone
  <1>6. Mended'
    BY <1>1, <1>2, <1>3, StartsDisturb DEF Mended
  <1>7. \A v \in Variant : Standing(v) => Standing(v)'
    BY <1>1, <1>2, <1>3 DEF Standing, D!Whole, D!Writing
  <1>8. Shown'
    <2>1. \A q \in Proc : D!At(q, "write")' \/ D!At(q, "dropped")' => q # p
      BY <1>2, <1>3
    <2>2. (\A q \in Proc : job'[q].at \notin {"clear", "cleared"}) => \A q \in Proc : job[q].at \notin {"clear", "cleared"}
      BY <1>3
    <2> QED BY <1>1, <1>2, <1>3, <1>7, <2>1, <2>2 DEF Shown, Past
  <1>9. Steady'
    <2> SUFFICES ASSUME past' = {} PROVE Steady'
      BY DEF Steady
    <2>1. past = {} /\ \A q \in Proc : D!At(q, "idle")
      BY <1>1, <1>3 DEF D!Starts
    <2>2. \A q \in Proc : job'[q].at # "write" /\ (D!At(q, "edit")' => q = p)
      BY <1>2, <1>3, <2>1
    <2> QED BY <1>1, <1>2, <1>3, <2>1, <2>2 DEF Steady
  <1> QED BY <1>4, <1>5, <1>6, <1>8, <1>9

LEMMA RowEdited ==
  ASSUME PicturesInv, NEW p \in Proc, D!Update(p)
  PROVE  PicturesInv'
  <1> USE DEF PicturesInv, D!At
  <1>1. /\ job[p].at = "edit" /\ row' = [job[p].row EXCEPT !.text = "new"] /\ job' = [job EXCEPT ![p] = [at |-> "idle"]]
        /\ UNCHANGED <<dir, clock, meant, kept, requests, past>>
    BY DEF D!Update, D!Ends, D!Idle
  <1>2. job[p] \in Editing
    BY <1>1 DEF PicturesShape, Uploading, Clearing
  <1>3. job'[p] = [at |-> "idle"] /\ DOMAIN job' = Proc /\ \A q \in Proc : q # p => job'[q] = job[q]
    BY <1>1 DEF PicturesShape
  <1>4. row' \in PictureRow /\ row'.url = job[p].row.url
    BY <1>1, <1>2 DEF PictureRow, Editing
  <1>5. PicturesShape'
    BY <1>1, <1>3, <1>4 DEF PicturesShape
  <1>6. Alone'
    BY <1>1, <1>3 DEF Alone, D!Removes
  <1>7. Mended'
    BY <1>1, <1>2, <1>3, OthersMended
  <1>8. Shown'
    <2>1. \A v \in Variant : Standing(v) => Standing(v)'
      BY <1>1, <1>3 DEF Standing, D!Whole, D!Writing
    <2>2. "race" \notin past => \A q \in Proc : ~D!Removes(job[q])
      BY <1>1 DEF Alone, D!Removes
    <2>3. \A q \in Proc : D!At(q, "write")' \/ D!At(q, "edit")' => q # p
      BY <1>3
    <2> QED BY <1>1, <1>3, <1>4, <2>1, <2>2, <2>3 DEF Shown, Past, D!Removes
  <1>9. Steady'
    <2> SUFFICES ASSUME past' = {} PROVE Steady'
      BY DEF Steady
    <2>1. past = {} /\ row # None /\ job[p].row = row
      BY <1>1 DEF Steady
    <2>2. \A q \in Proc : job'[q].at = "idle" /\ job[q].at \notin {"write", "clear", "cleared"}
      BY <1>1, <1>3, <2>1 DEF Alone
    <2> QED BY <1>1, <1>4, <2>1, <2>2 DEF Steady
  <1> QED BY <1>5, <1>6, <1>7, <1>8, <1>9

LEMMA Stopped ==
  ASSUME PicturesInv, NEW p \in Proc, D!Stop(p)
  PROVE  PicturesInv'
  <1> USE DEF PicturesInv, D!At
  <1>1. /\ job[p].at # "idle" /\ job' = [job EXCEPT ![p] = [at |-> "idle"]]
        /\ UNCHANGED <<row, dir, clock, meant, kept, requests>>
        /\ past' = past \cup {"stop"} \cup (IF job[p].at \in {"clear", "cleared"} THEN {"cut"} ELSE {})
                        \cup (IF \E v \in Variant : D!Writing(p, v) THEN {"torn"} ELSE {})
    BY DEF D!Stop, D!Idle, D!pictures
  <1>2. job'[p] = [at |-> "idle"] /\ DOMAIN job' = Proc /\ \A q \in Proc : q # p => job'[q] = job[q]
    BY <1>1 DEF PicturesShape
  <1>3. PicturesShape'
    BY <1>1, <1>2 DEF PicturesShape
  <1>4. Alone'
    BY <1>1, <1>2 DEF Alone, D!Removes
  <1>5. Mended'
    BY <1>1, <1>2, <1>3, OthersMended
  <1>6. "torn" \notin past' => \A v \in Variant : Standing(v) => Standing(v)'
    BY <1>1, <1>2 DEF Standing, D!Whole, D!Writing
  <1>7. Shown'
    BY <1>1, <1>2, <1>6 DEF Shown, Past
  <1>8. Steady'
    BY <1>1 DEF Steady
  <1> QED BY <1>3, <1>4, <1>5, <1>7, <1>8

LEMMA PictureServed ==
  ASSUME PicturesInv, NEW url \in 1 .. clock, D!Serve(url)
  PROVE  PicturesInv'
  <1> USE DEF PicturesInv, D!At
  <1>1. /\ dir # None /\ kept' = kept \cup {<<url, dir[Canonical]>>} /\ Canonical \in Variant
        /\ UNCHANGED <<row, dir, clock, meant, job, requests, past>>
    BY FilesAssumption DEF D!Serve
  <1>2. PicturesShape'
    BY <1>1 DEF PicturesShape
  <1>3. Alone' /\ Mended' /\ Shown'
    BY <1>1 DEF Alone, Mended, Shown, Past, Standing, D!Removes, D!Whole, D!Writing, D!Undisturbed
  <1>4. Steady'
    BY <1>1 DEF Steady, D!Undisturbed
  <1> QED BY <1>2, <1>3, <1>4

LEMMA PicturesSteps ==
  ASSUME PicturesInv, subject = "picture", D!Next \/ UNCHANGED D!vars
  PROVE  PicturesInv'
  <1>1. ASSUME NEW p \in Proc, D!SetImage(p) \/ D!RemoveImage(p) \/ D!StopSeries(p) \/ D!BeginUpdate(p) \/ D!Update(p) \/ D!Stop(p)
        PROVE  PicturesInv'
    BY <1>1, UploadBegins, VariantOpened, VariantWritten, VariantFailed, UrlSaved, UploadFailed, RemovalBegins, VariantRemoved, DirRemoved,
       ClearedSaved, RowDropped, FilesDropped, EditBegins, RowEdited, Stopped
       DEF D!SetImage, D!RemoveImage, D!StopSeries
  <1>2. ASSUME NEW p \in Proc, D!Route(p) PROVE FALSE
    <2>1. job[p].at \in {"idle", "drop", "dropped", "write", "clear", "cleared", "edit"}
      BY DEF PicturesInv, PicturesShape, Uploading, Clearing, Editing
    <2>2. ASSUME NEW r PROVE ~D!Starts(p, "track", r)
      BY DEF D!Starts
    <2> QED BY <1>2, <2>1, <2>2 DEF D!Route, D!BeginAddFile, D!WriteFile, D!SaveFile, D!BeginRemoveFile, D!BeginOpenTrack,
            D!DeleteRow, D!RemoveFile, D!BeginRemoveRoute, D!DeleteRoute, D!RemoveRouteDir, D!ReadTrack, D!At
  <1>3. CASE UNCHANGED D!vars
    BY <1>3 DEF D!vars, D!pictures, PicturesInv, PicturesShape, Alone, Mended, Shown, Steady, Past, Standing, D!At, D!Removes,
       D!Whole, D!Writing, D!Undisturbed
  <1> QED BY <1>1, <1>2, <1>3, PictureServed DEF D!Next

LEMMA UntouchedSteps ==
  ASSUME Untouched, subject # "picture", D!Next \/ UNCHANGED D!vars
  PROVE  Untouched'
  <1> USE DEF Untouched, D!At, D!Starts, D!Goes, D!Ends, D!Idle, D!pictures
  <1>1. ASSUME NEW p \in Proc, D!SetImage(p) \/ D!RemoveImage(p) \/ D!StopSeries(p) \/ D!BeginUpdate(p) \/ D!Update(p)
        PROVE  FALSE
    BY <1>1 DEF D!SetImage, D!RemoveImage, D!StopSeries, D!BeginUpdate, D!Update, D!BeginSetImage, D!OpenVariant, D!WriteVariant,
       D!Writing,       D!VariantFails, D!SaveUrl, D!UploadFails, D!BeginRemoveImage, D!BeginRemove, D!RemoveVariant, D!RemoveDir, D!SaveCleared,
       D!BeginStop, D!DropRow, D!DropFiles
  <1>2. ASSUME NEW p \in Proc, D!Route(p) PROVE Untouched'
    <2>1. CASE D!BeginAddFile(p) \/ D!WriteFile(p) \/ D!SaveFile(p)
      BY <2>1 DEF D!BeginAddFile, D!WriteFile, D!SaveFile
    <2>2. CASE D!DeleteRow(p) \/ D!RemoveFile(p)
      BY <2>2 DEF D!DeleteRow, D!RemoveFile
    <2>3. CASE D!BeginRemoveRoute(p) \/ D!DeleteRoute(p) \/ D!RemoveRouteDir(p)
      BY <2>3 DEF D!BeginRemoveRoute, D!DeleteRoute, D!RemoveRouteDir
    <2>4. CASE D!ReadTrack(p)
      BY <2>4 DEF D!ReadTrack
    <2>5. ASSUME NEW f \in files, D!BeginRemoveFile(p, f) \/ D!BeginOpenTrack(p, f) PROVE Untouched'
      <3>1. PICK r : job' = [job EXCEPT ![p] = r] /\ r.at \in {"idle", "unlist", "read"} /\ UNCHANGED row
        BY <2>5 DEF D!BeginRemoveFile, D!BeginOpenTrack
      <3> QED BY <3>1
    <2> QED BY <1>2, <2>1, <2>2, <2>3, <2>4, <2>5 DEF D!Route
  <1>3. ASSUME NEW p \in Proc, D!Stop(p) PROVE Untouched'
    BY <1>3 DEF D!Stop
  <1>4. (\E url \in 1 .. clock : D!Serve(url)) \/ UNCHANGED D!vars => Untouched'
    BY DEF D!Serve, D!vars
  <1> QED BY <1>1, <1>2, <1>3, <1>4, SMTT(30) DEF D!Next

(* No request changes what the requests are about. *)
LEMMA SubjectStays == D!Next \/ UNCHANGED D!vars => UNCHANGED subject
  <1> USE DEF D!Starts, D!Goes, D!Ends
  <1>1. ASSUME NEW p \in Proc, D!SetImage(p) PROVE UNCHANGED subject
    BY <1>1 DEF D!SetImage, D!BeginSetImage, D!OpenVariant, D!WriteVariant, D!VariantFails, D!SaveUrl, D!UploadFails
  <1>2. ASSUME NEW p \in Proc, D!RemoveImage(p) \/ D!StopSeries(p) \/ D!BeginUpdate(p) \/ D!Update(p) \/ D!Stop(p)
        PROVE  UNCHANGED subject
    BY <1>2 DEF D!RemoveImage, D!StopSeries, D!BeginUpdate, D!Update, D!BeginRemoveImage, D!BeginRemove, D!RemoveVariant, D!RemoveDir,
       D!SaveCleared, D!BeginStop, D!DropRow, D!DropFiles, D!Stop
  <1>3. ASSUME NEW p \in Proc, D!Route(p) PROVE UNCHANGED subject
    BY <1>3 DEF D!Route, D!BeginAddFile, D!WriteFile, D!SaveFile, D!BeginRemoveFile, D!BeginOpenTrack, D!DeleteRow,
       D!RemoveFile, D!BeginRemoveRoute, D!DeleteRoute, D!RemoveRouteDir, D!ReadTrack
  <1>4. (\E url \in 1 .. clock : D!Serve(url)) \/ UNCHANGED D!vars => UNCHANGED subject
    BY DEF D!Serve, D!vars
  <1> QED BY <1>1, <1>2, <1>3, <1>4 DEF D!Next

\* A row shows an address behind which every variant is there, unless a removal overlapped
\* something or was cut, and where nothing overlapped or failed the variants, and what
\* browsers keep, are the picture of that address, for any number of requests and pictures.
THEOREM PicturesShown == HostSpec => []RowsShowPictures
  <1> DEFINE I == part = "files" => IF subject = "picture" THEN PicturesInv ELSE Untouched
  <1>1. HostingInit \/ FormInit \/ FilesInit => I
    <2>1. D!Init => Untouched
      BY DEF D!Init, D!Idle, Untouched
    <2> QED BY <2>1, PicturesStart DEF HostingInit, FormInit, FilesInit
  <1>2. I /\ [HostingStep \/ FormStep \/ FilesStep]_all => I'
    <2> SUFFICES ASSUME I, [HostingStep \/ FormStep \/ FilesStep]_all PROVE I'
      OBVIOUS
    <2>1. CASE HostingStep \/ FormStep
      BY <2>1 DEF HostingStep, FormStep
    <2>2. CASE FilesStep
      BY <2>2, PicturesSteps, UntouchedSteps, SubjectStays DEF FilesStep
    <2>3. CASE UNCHANGED all
      <3>1. UNCHANGED D!vars /\ UNCHANGED part
        BY <2>3 DEF all, disk, D!vars, D!pictures, D!tracks
      <3> QED BY <3>1, PicturesSteps, UntouchedSteps, SubjectStays
    <2> QED BY <2>1, <2>2, <2>3
  <1>3. I => RowsShowPictures
    <2>1. PicturesInv => D!RowsShowPictures
      BY DEF PicturesInv, Shown, Steady, Standing, D!RowsShowPictures, D!Quiet, D!Whole, D!Writing, D!At, D!Removes
    <2>2. Untouched => D!RowsShowPictures
      BY DEF Untouched, D!RowsShowPictures
    <2> QED BY <2>1, <2>2 DEF RowsShowPictures
  <1> QED BY <1>1, <1>2, <1>3, PTL DEF HostSpec
-----------------------------------------------------------------------------
(* The form of an event.  Once the first request has been carried out the  *)
(* event says what was sent (Written); a field that was not entered is in  *)
(* the form what the event said when it was read, and in the event, too,   *)
(* whatever failed or was sent before (NotEntered); on a German clock that *)
(* holds of the start and the end, and only what was entered is kept from  *)
(* the imports (GermanDays).                                               *)
Moment == Int \cup {None}
Clocked == [day : Moment, time : F!Clock]
Sheet == [name : Int, address : Moment, start : Clocked, end : Clocked, opens : Clocked, closes : Clocked,
          class : F!Clock, groups : Int, links : Int]
Planned == [name : Int, address : Moment, start : Moment, known : BOOLEAN, end : Moment, opens : Moment, closes : Moment,
            class : Moment, groups : Int, links : Int, imported : BOOLEAN, edited : SUBSET F!Imported]
Control == {"name", "address", "start", "end", "opens", "closes", "class", "groups", "links"}

FormTypes ==
    /\ zone \in Int /\ moves \in Nat /\ stage \in {"editing", "update", "parts", "saved"} /\ touched \subseteq Control
    /\ form \in Sheet /\ asked \in Sheet /\ parts \subseteq F!Parts /\ stray \subseteq F!Parts \X Int
    /\ base \in Planned
    /\ F!IsEdit => base.start \in Int /\ (~base.known => base.start % 3 = 0)
    /\ F!IsEdit \/ stage \in {"parts", "saved"} => ev \in Planned
    /\ stage = "parts" \/ stray # {} => F!IsEdit
    /\ stage # "editing" => asked = form /\ asked.start.day \in Int /\ (clean => stray = {})
    /\ stage # "parts" => parts = {}

\* What the event says of what was sent.
Written(e) ==
    LET timed == asked.start.time # None IN
    /\ moves = 0 => e.name = asked.name
    /\ asked.address # None => e.address = asked.address
    /\ e.start = IF timed THEN F!Instant(asked.start) ELSE F!BerlinMidnight(asked.start.day)
    /\ asked.end.day # None => e.end = IF timed \/ asked.end.time # None THEN F!Instant(asked.end) ELSE F!BerlinMidnight(asked.end.day)
    /\ e.opens = F!Instant(asked.opens) /\ e.closes = F!Instant(asked.closes)
    /\ "class" \in touched => e.class = F!ClassStart(asked)

PartsWritten(e) ==
    clean => /\ "groups" \notin parts => e.groups = asked.groups
             /\ "links" \notin parts /\ moves = 0 => e.links = asked.links

\* What was not entered.
Blanks == \A f \in Control \ touched : form[f] = F!PatchForm(base)[f]
NotEntered(e) ==
    /\ "name" \notin touched /\ moves = 0 => e.name = base.name
    /\ "address" \notin touched => e.address = base.address
    /\ "opens" \notin touched => e.opens = base.opens
    /\ "closes" \notin touched => e.closes = base.closes
    /\ "class" \notin touched => e.class = base.class
    /\ "end" \notin touched /\ base.end = None => e.end = None
    /\ "groups" \notin touched => e.groups = base.groups
    /\ "links" \notin touched /\ moves = 0 => e.links = base.links
GermanDays(e) ==
    /\ "end" \notin touched => e.end = base.end
    /\ "start" \notin touched => e.start = base.start
    /\ "start" \notin touched /\ ~F!AtMidnight => e.known = base.known
    /\ ~F!AtMidnight => e.edited \subseteq base.edited \cup touched \cup F!Others
                                          \cup (IF "start" \in touched THEN {"known"} ELSE {})

FormInv ==
    /\ FormTypes
    /\ stage \in {"parts", "saved"} => Written(ev) /\ PartsWritten(ev)
    /\ F!IsEdit => /\ Blanks /\ NotEntered(ev) /\ (zone = 0 => GermanDays(ev))
                   /\ \A s \in stray : s[1] \notin touched => s[2] = base[s[1]]

\* Dates that are shown and read again.
LEMMA ReadAgain ==
  ASSUME zone \in Int, NEW i \in Moment
  PROVE  F!Display(i) \in Clocked /\ F!Instant(F!Display(i)) = i /\ (F!Display(i).day = None <=> i = None)
<1> USE FormAssumption
<1>1. CASE i = None
  BY <1>1 DEF F!Display, F!NoWhen, F!Instant, Clocked, Moment, F!Clock
<1>2. CASE i \in Int
  <2> DEFINE d == (i + zone) \div 3
             r == (i + zone) % 3
  <2>1. d \in Int /\ r \in 0 .. 2 /\ i + zone = 3 * d + r
    BY <1>2
  <2>2. F!Display(i) = [day |-> d, time |-> IF r = 0 THEN None ELSE r]
    BY <1>2 DEF F!Display, F!TimeOf, F!Third
  <2> HIDE DEF d, r
  <2>3. F!Instant(F!Display(i)) = 3 * d + r - zone
    BY <2>1, <2>2 DEF F!Instant, F!CombineDatetime, F!Third
  <2> QED BY <1>2, <2>1, <2>2, <2>3 DEF Clocked, Moment, F!Clock
<1> QED BY <1>1, <1>2 DEF Moment

LEMMA ShownAgain ==
  ASSUME zone \in Int, NEW w \in Clocked
  PROVE  F!Instant(w) \in Moment /\ F!Display(F!Instant(w)) = F!Shown(w)
<1> USE FormAssumption
<1>1. CASE w.day = None
  BY <1>1 DEF F!Display, F!NoWhen, F!Instant, F!Shown, Moment
<1>2. CASE w.day \in Int
  <2> DEFINE m == IF w.time = None THEN 0 ELSE w.time
             i == 3 * w.day + m - zone
  <2>1. m \in 0 .. 2
    BY DEF Clocked, F!Clock
  <2>2. F!Instant(w) = i
    BY <1>2 DEF F!Instant, F!CombineDatetime, F!Third
  <2> HIDE DEF m
  <2>3. i \in Int /\ (i + zone) \div 3 = w.day /\ (i + zone) % 3 = m
    BY <1>2, <2>1
  <2> HIDE DEF i
  <2>4. F!Display(i) = [day |-> w.day, time |-> IF m = 0 THEN None ELSE m]
    BY <2>3 DEF F!Display, F!TimeOf, F!Third
  <2>5. F!Shown(w) = [day |-> w.day, time |-> IF m = 0 THEN None ELSE m]
    BY <1>2 DEF F!Shown, Clocked, m
  <2> QED BY <2>2, <2>3, <2>4, <2>5 DEF Moment
<1> QED BY <1>1, <1>2 DEF Clocked, Moment

\* On a German clock a day is the same day.
LEMMA SameDay ==
  ASSUME zone = 0
  PROVE  /\ \A day \in Int : F!BerlinMidnight(day) \in Int
                             /\ F!Display(F!BerlinMidnight(day)) = [day |-> day, time |-> None]
         /\ \A i \in Int : /\ F!Display(i).time = None => F!BerlinMidnight(F!Display(i).day) = i
                           /\ i % 3 = 0 => F!Display(i).time = None
<1> USE FormAssumption
<1>1. ASSUME NEW day \in Int
      PROVE  F!BerlinMidnight(day) \in Int /\ F!Display(F!BerlinMidnight(day)) = [day |-> day, time |-> None]
  <2> DEFINE i == 3 * day
  <2>1. i \in Int /\ (i + zone) \div 3 = day /\ (i + zone) % 3 = 0
    OBVIOUS
  <2>2. F!BerlinMidnight(day) = i
    BY DEF F!BerlinMidnight, F!Third
  <2> HIDE DEF i
  <2> QED BY <2>1, <2>2 DEF F!Display, F!TimeOf, F!Third
<1>2. ASSUME NEW i \in Int
      PROVE  /\ F!Display(i).time = None => F!BerlinMidnight(F!Display(i).day) = i
             /\ i % 3 = 0 => F!Display(i).time = None
  <2>1. F!Display(i) = [day |-> i \div 3, time |-> IF i % 3 = 0 THEN None ELSE i % 3] /\ i % 3 \in 0 .. 2
    BY DEF F!Display, F!TimeOf, F!Third
  <2>2. F!BerlinMidnight(i \div 3) = 3 * (i \div 3)
    BY DEF F!BerlinMidnight, F!Third
  <2> QED BY <2>1, <2>2
<1> QED BY <1>1, <1>2

\* What an update writes.
LEMMA WhatIsUpdated ==
  ASSUME zone \in Int, asked \in Sheet, asked.start.day \in Int, touched \subseteq Control, NEW e \in Planned,
         NEW n, n = F!Updated(e, asked, touched)
  PROVE  /\ n \in Planned /\ Written(n) /\ n.name = asked.name
         /\ n.groups = e.groups /\ n.links = e.links /\ (n.known <=> asked.start.time # None)
         /\ asked.address = None => n.address = e.address
         /\ asked.end.day = None => n.end = e.end
         /\ "class" \notin touched => n.class = e.class
         /\ n.edited \subseteq e.edited \cup {x \in F!Imported : n[x] # e[x]}
<1> USE FormAssumption
<1> DEFINE timed == asked.start.time # None
           address == IF asked.address = None THEN e.address ELSE asked.address
           start == IF timed THEN F!Instant(asked.start) ELSE F!BerlinMidnight(asked.start.day)
           end == IF asked.end.day = None THEN e.end
                  ELSE IF timed \/ asked.end.time # None THEN F!Instant(asked.end) ELSE F!BerlinMidnight(asked.end.day)
           opens == F!Instant(asked.opens)
           closes == F!Instant(asked.closes)
           class == IF "class" \in touched THEN F!ClassStart(asked) ELSE e.class
           next == [e EXCEPT !.name = asked.name, !.address = address, !.start = start, !.known = timed, !.end = end,
                             !.opens = opens, !.closes = closes, !.class = class]
           edited == IF e.imported THEN e.edited \cup F!Differing(e, next) ELSE e.edited
<1>1. n = [next EXCEPT !.edited = edited]
  BY DEF F!Updated
<1>2. asked.start \in Clocked /\ asked.end \in Clocked /\ asked.opens \in Clocked /\ asked.closes \in Clocked
      /\ asked.name \in Int /\ asked.address \in Moment /\ asked.class \in F!Clock
  BY DEF Sheet
<1>3. \A day \in Int : F!BerlinMidnight(day) \in Int
  BY DEF F!BerlinMidnight, F!Third
<1>4. F!ClassStart(asked) \in Moment
  BY <1>2 DEF F!ClassStart, F!CombineDatetime, F!Third, F!Clock, Moment
<1>5. /\ start \in Moment /\ opens \in Moment /\ closes \in Moment
  BY <1>2, <1>3, ShownAgain DEF Moment
<1>6. end \in Moment
  <2>1. asked.end.day # None => asked.end.day \in Int
    BY <1>2 DEF Clocked, Moment
  <2> QED BY <1>2, <1>3, <2>1, ShownAgain DEF Planned, Moment
<1>7. address \in Moment /\ class \in Moment /\ timed \in BOOLEAN
  BY <1>2, <1>4 DEF Planned
<1>8. /\ Written([name |-> asked.name, address |-> address, start |-> start, end |-> end, opens |-> opens, closes |-> closes, class |-> class])
      /\ asked.address = None => address = e.address
      /\ asked.end.day = None => end = e.end
      /\ "class" \notin touched => class = e.class
  BY DEF Written
<1> HIDE DEF address, start, end, opens, closes, class, timed
<1>9. next \in Planned
  BY <1>2, <1>5, <1>6, <1>7 DEF Planned
<1>10. /\ next.name = asked.name /\ next.address = address /\ next.start = start /\ (next.known <=> timed) /\ next.end = end
       /\ next.opens = opens /\ next.closes = closes /\ next.class = class /\ next.groups = e.groups /\ next.links = e.links
  BY <1>9 DEF Planned
<1> HIDE DEF next
<1>11. edited \in SUBSET F!Imported /\ edited \subseteq e.edited \cup F!Differing(e, next)
  BY DEF Planned, F!Differing
<1> HIDE DEF edited
<1>12. n \in Planned /\ \A x \in {"name", "address", "start", "known", "end", "opens", "closes", "class", "groups", "links"} : n[x] = next[x]
  BY <1>1, <1>9, <1>11 DEF Planned
<1>13. n.edited = edited /\ {x \in F!Imported : next[x] # e[x]} = {x \in F!Imported : n[x] # e[x]}
  BY <1>1, <1>9, <1>12 DEF Planned, F!Imported
<1>14. Written(n)
  BY <1>8, <1>10, <1>12 DEF Written
<1> QED BY <1>8, <1>10, <1>11, <1>12, <1>13, <1>14 DEF F!Differing, timed

\* What the form shows of what was not entered.
LEMMA BlanksSay ==
  ASSUME FormInv, F!IsEdit
  PROVE  /\ "name" \notin touched => form.name = base.name
         /\ "address" \notin touched => form.address = base.address
         /\ "start" \notin touched => form.start = F!Display(base.start)
         /\ "end" \notin touched => form.end = F!Display(base.end)
         /\ "opens" \notin touched => form.opens = F!Display(base.opens)
         /\ "closes" \notin touched => form.closes = F!Display(base.closes)
         /\ "groups" \notin touched => form.groups = base.groups
         /\ "links" \notin touched => form.links = base.links
BY DEF FormInv, Blanks, Control, F!PatchForm

LEMMA FormEnters ==
  ASSUME FormInv, NEW f \in Control, NEW v, [form EXCEPT ![f] = v] \in Sheet, F!Enter(f, v)
  PROVE  FormInv'
<1>1. /\ stage = "editing" /\ stage' = "editing" /\ form' = [form EXCEPT ![f] = v] /\ touched' = touched \cup {f}
      /\ UNCHANGED <<zone, ev, parts, stray, moves, base, asked, clean>>
  BY DEF F!Enter, F!Act, F!server, F!history
<1>2. FormTypes'
  BY <1>1 DEF FormInv, FormTypes, F!IsEdit
<1>3. ASSUME F!IsEdit PROVE Blanks' /\ NotEntered(ev)' /\ (zone = 0 => GermanDays(ev)')
  <2>1. Blanks'
    <3>1. F!PatchForm(base)' = F!PatchForm(base)
      BY <1>1 DEF F!PatchForm, F!Display, F!TimeOf
    <3>2. \A g \in Control \ {f} : form'[g] = form[g]
      BY <1>1 DEF FormInv, FormTypes, Sheet, Control
    <3> QED BY <1>1, <1>3, <3>1, <3>2 DEF FormInv, Blanks
  <2>2. NotEntered(ev)'
    BY <1>1, <1>3 DEF FormInv, NotEntered
  <2>3. zone = 0 => GermanDays(ev)'
    BY <1>1, <1>3 DEF FormInv, GermanDays, F!AtMidnight, F!Others, F!Display, F!TimeOf
  <2> QED BY <2>1, <2>2, <2>3
<1>4. F!IsEdit' <=> F!IsEdit
  BY <1>1 DEF F!IsEdit
<1> QED BY <1>1, <1>2, <1>3, <1>4 DEF FormInv

LEMMA FormEntries ==
  ASSUME FormInv, F!Entries
  PROVE  FormInv'
<1> USE FormAssumption
<1>1. form \in Sheet
  BY DEF FormInv, FormTypes
<1>2. \A w \in Clocked, days \in SUBSET Moment, times \in SUBSET F!Clock : F!When(w, days, times) \subseteq Clocked
  BY DEF F!When, Clocked
<1>3. /\ form.start \in Clocked /\ form.end \in Clocked /\ form.opens \in Clocked /\ form.closes \in Clocked
      /\ {1, 3} \subseteq Moment /\ {None, 2} \subseteq Moment /\ {2} \subseteq Moment /\ {None, 1} \subseteq Moment
      /\ {None, 0, 2} \subseteq F!Clock /\ {None, 2} \subseteq F!Clock /\ {} \subseteq F!Clock /\ {0} \subseteq F!Clock
  BY <1>1 DEF Sheet, Moment, F!Clock
<1>4. CASE F!Enter("name", 3)
  <2>1. [form EXCEPT !["name"] = 3] \in Sheet /\ "name" \in Control
    BY <1>1, <1>4 DEF Sheet, Control
  <2> QED BY <1>4, <2>1, FormEnters
<1>5. ASSUME NEW a \in {None, 3}, F!Enter("address", a) PROVE FormInv'
  <2>1. [form EXCEPT !["address"] = a] \in Sheet /\ "address" \in Control
    BY <1>1, <1>5 DEF Sheet, Control, Moment
  <2> QED BY <1>5, <2>1, FormEnters
<1>6. ASSUME NEW x \in {"start", "end", "opens", "closes"}, NEW w \in Clocked, F!Enter(x, w) PROVE FormInv'
  <2>1. [form EXCEPT ![x] = w] \in Sheet /\ x \in Control
    BY <1>1, <1>6 DEF Sheet, Control
  <2> QED BY <1>6, <2>1, FormEnters
<1>7. ASSUME NEW t \in {None, 2}, F!Enter("class", t) PROVE FormInv'
  <2>1. [form EXCEPT !["class"] = t] \in Sheet /\ "class" \in Control
    BY <1>1, <1>7 DEF Sheet, Control, F!Clock
  <2> QED BY <1>7, <2>1, FormEnters
<1>8. ASSUME NEW g \in {F!Refused, 3}, F!Enter("groups", g) PROVE FormInv'
  <2>1. [form EXCEPT !["groups"] = g] \in Sheet /\ "groups" \in Control
    BY <1>1, <1>8 DEF Sheet, Control, F!Refused
  <2> QED BY <1>8, <2>1, FormEnters
<1>9. CASE F!Enter("links", 3)
  <2>1. [form EXCEPT !["links"] = 3] \in Sheet /\ "links" \in Control
    BY <1>1, <1>9 DEF Sheet, Control
  <2> QED BY <1>9, <2>1, FormEnters
<1>10. /\ F!When(form.start, {1, 3}, {None, 0, 2}) \subseteq Clocked
       /\ F!When(form.end, {None, 2}, {None, 2}) \subseteq Clocked
       /\ F!When(form.opens, {2}, {}) \subseteq Clocked
       /\ F!When(form.closes, {None, 1}, {0}) \subseteq Clocked
  BY <1>2, <1>3
<1>11. \/ F!Enter("name", 3) \/ F!Enter("links", 3)
       \/ \E a \in {None, 3} : F!Enter("address", a)
       \/ \E x \in {"start", "end", "opens", "closes"}, w \in Clocked : F!Enter(x, w)
       \/ \E t \in {None, 2} : F!Enter("class", t)
       \/ \E g \in {F!Refused, 3} : F!Enter("groups", g)
  BY <1>10 DEF F!Entries
<1> QED BY <1>4, <1>5, <1>6, <1>7, <1>8, <1>9, <1>11

LEMMA FormSubmits ==
  ASSUME FormInv, F!OnSubmit
  PROVE  FormInv'
<1>1. /\ stage = "editing" /\ stage' = "update" /\ asked' = form /\ clean' = (stray = {}) /\ form.start.day # None
      /\ UNCHANGED <<zone, ev, form, touched, parts, stray, moves, base>>
  BY DEF F!OnSubmit, F!Act, F!Valid, F!server
<1>2. form.start.day \in Int
  BY <1>1 DEF FormInv, FormTypes, Sheet, Clocked, Moment
<1>3. FormTypes'
  BY <1>1, <1>2 DEF FormInv, FormTypes, F!IsEdit
<1> QED BY <1>1, <1>3 DEF FormInv, F!IsEdit, Blanks, NotEntered, GermanDays, F!AtMidnight, F!Others, F!PatchForm, F!Display, F!TimeOf

\* What a first request does to an event.
LEMMA FormUpdates ==
  ASSUME FormInv, F!Update
  PROVE  FormInv'
<1> USE FormAssumption
<1>1. /\ stage = "update" /\ F!IsEdit /\ ev' = F!Updated(ev, asked, touched)
      /\ \/ stage' = "parts" /\ parts' = F!Parts
         \/ stage' = "editing" /\ parts' = parts
      /\ UNCHANGED <<zone, form, touched, stray, moves, base, asked, clean>>
  BY DEF F!Update, F!Rest, F!history
<1>2. /\ zone \in Int /\ asked \in Sheet /\ asked = form /\ asked.start.day \in Int /\ touched \subseteq Control /\ ev \in Planned
      /\ base \in Planned /\ base.start \in Int /\ (~base.known => base.start % 3 = 0) /\ moves \in Nat
      /\ asked.start \in Clocked /\ asked.end \in Clocked
  BY <1>1 DEF FormInv, FormTypes, Sheet
<1> DEFINE n == ev'
<1>3. /\ n \in Planned /\ Written(n) /\ n.name = asked.name
      /\ n.groups = ev.groups /\ n.links = ev.links /\ (n.known <=> asked.start.time # None)
      /\ asked.address = None => n.address = ev.address
      /\ asked.end.day = None => n.end = ev.end
      /\ "class" \notin touched => n.class = ev.class
      /\ n.edited \subseteq ev.edited \cup {x \in F!Imported : n[x] # ev[x]}
  BY <1>1, <1>2, WhatIsUpdated
<1> HIDE DEF n
<1>4. /\ "name" \notin touched => asked.name = base.name
      /\ "address" \notin touched => asked.address = base.address
      /\ "start" \notin touched => asked.start = F!Display(base.start)
      /\ "end" \notin touched => asked.end = F!Display(base.end)
      /\ "opens" \notin touched => asked.opens = F!Display(base.opens)
      /\ "closes" \notin touched => asked.closes = F!Display(base.closes)
  BY <1>1, <1>2, BlanksSay
<1>5. \A i \in Moment : F!Instant(F!Display(i)) = i /\ (F!Display(i).day = None <=> i = None)
  BY <1>2, ReadAgain
<1>6. NotEntered(ev) /\ (zone = 0 => GermanDays(ev))
  BY <1>1 DEF FormInv
<1>7. NotEntered(n)
  <2>1. "name" \notin touched => n.name = base.name
    BY <1>3, <1>4
  <2>2. "address" \notin touched => n.address = base.address
    BY <1>3, <1>4, <1>6 DEF Written, NotEntered
  <2>3. base.opens \in Moment /\ base.closes \in Moment
    BY <1>2 DEF Planned
  <2>4. ("opens" \notin touched => n.opens = base.opens) /\ ("closes" \notin touched => n.closes = base.closes)
    BY <1>3, <1>4, <1>5, <2>3 DEF Written
  <2>5. ASSUME "end" \notin touched, base.end = None PROVE n.end = None
    <3>1. asked.end = F!Display(None)
      BY <1>4, <2>5
    <3>2. asked.end.day = None
      BY <3>1 DEF F!Display, F!NoWhen
    <3>3. ev.end = None
      BY <1>6, <2>5 DEF NotEntered
    <3> QED BY <1>3, <3>2, <3>3
  <2> QED BY <1>3, <1>6, <2>1, <2>2, <2>4, <2>5 DEF NotEntered
<1>8. ASSUME zone = 0 PROVE GermanDays(n)
  <2>1. "end" \notin touched => n.end = base.end
    <3> SUFFICES ASSUME "end" \notin touched PROVE n.end = base.end
      OBVIOUS
    <3>1. base.end \in Moment
      BY <1>2 DEF Planned
    <3>2. CASE base.end = None
      BY <1>7, <3>2 DEF NotEntered
    <3>3. CASE base.end \in Int
      <4>1. asked.end.day # None /\ F!Instant(asked.end) = base.end
        BY <1>4, <1>5, <3>1, <3>3
      <4>2. asked.end.time = None => F!BerlinMidnight(asked.end.day) = base.end
        BY <1>4, <1>8, <3>3, SameDay
      <4> QED BY <1>3, <4>1, <4>2 DEF Written
    <3> QED BY <3>1, <3>2, <3>3 DEF Moment
  <2>2. "start" \notin touched => n.start = base.start
    <3>1. base.start \in Moment
      BY <1>2 DEF Moment
    <3> QED BY <1>2, <1>3, <1>4, <1>5, <1>8, <3>1, SameDay DEF Written
  <2>3. "start" \notin touched /\ ~F!AtMidnight => n.known = base.known
    <3>1. base.known \in BOOLEAN /\ n.known \in BOOLEAN
      BY <1>2, <1>3 DEF Planned
    <3>2. ~base.known => F!Display(base.start).time = None
      BY <1>2, <1>8, SameDay
    <3> QED BY <1>3, <1>4, <3>1, <3>2 DEF F!AtMidnight
  <2>4. ASSUME ~F!AtMidnight
        PROVE  n.edited \subseteq base.edited \cup touched \cup F!Others \cup (IF "start" \in touched THEN {"known"} ELSE {})
    <3>1. /\ "name" \notin touched \cup F!Others => n.name = ev.name
          /\ "address" \notin touched => n.address = ev.address
          /\ "start" \notin touched => n.start = ev.start /\ n.known = ev.known
          /\ "end" \notin touched => n.end = ev.end
          /\ "closes" \notin touched => n.closes = ev.closes
          /\ "class" \notin touched => n.class = ev.class
      BY <1>3, <1>6, <1>7, <1>8, <2>1, <2>2, <2>3, <2>4 DEF NotEntered, GermanDays, F!Others
    <3>2. \A x \in F!Imported : n[x] # ev[x] => x \in touched \cup F!Others \cup (IF "start" \in touched THEN {"known"} ELSE {})
      BY <3>1 DEF F!Imported
    <3>3. ev.edited \subseteq base.edited \cup touched \cup F!Others \cup (IF "start" \in touched THEN {"known"} ELSE {})
      BY <1>6, <1>8, <2>4 DEF GermanDays
    <3> QED BY <1>3, <3>2, <3>3
  <2> QED BY <2>1, <2>2, <2>3, <2>4 DEF GermanDays
<1>9. FormTypes'
  BY <1>1, <1>2, <1>3 DEF FormInv, FormTypes, F!IsEdit, F!Parts, n
<1>10. /\ Written(ev)' /\ (stage' \in {"parts", "saved"} => PartsWritten(ev)') /\ NotEntered(ev)' /\ (zone = 0 => GermanDays(ev)')
  BY <1>1, <1>3, <1>7, <1>8 DEF n, Written, PartsWritten, NotEntered, GermanDays, F!Parts, F!AtMidnight, F!Others,
     F!Display, F!TimeOf, F!Instant, F!CombineDatetime, F!ClassStart
<1>11. Blanks' /\ (\A s \in stray' : s[1] \notin touched' => s[2] = base'[s[1]])
  BY <1>1 DEF FormInv, Blanks, F!PatchForm, F!Display, F!TimeOf
<1> QED BY <1>1, <1>9, <1>10, <1>11 DEF FormInv

\* The groups or the links of an event are replaced, which nothing else relies on.
LEMMA PartsKeep ==
  ASSUME FormInv, F!IsEdit, NEW k \in F!Parts, NEW v \in Int, k \notin touched => v = base[k], ev' = [ev EXCEPT ![k] = v],
         UNCHANGED <<zone, form, touched, moves, base, asked>>
  PROVE  /\ ev' \in Planned /\ ev'[k] = v /\ (k = "groups" => ev'.links = ev.links) /\ (k = "links" => ev'.groups = ev.groups)
         /\ Blanks' /\ NotEntered(ev)' /\ (zone = 0 => GermanDays(ev)')
         /\ Written(ev) => Written(ev)'
<1>1. ev \in Planned /\ Blanks /\ NotEntered(ev) /\ (zone = 0 => GermanDays(ev))
  BY DEF FormInv, FormTypes
<1> PICK n : n = [ev EXCEPT ![k] = v]
  OBVIOUS
<1>2. /\ n \in Planned /\ n[k] = v /\ n.edited = ev.edited
      /\ n.name = ev.name /\ n.address = ev.address /\ n.start = ev.start /\ n.known = ev.known /\ n.end = ev.end
      /\ n.opens = ev.opens /\ n.closes = ev.closes /\ n.class = ev.class
      /\ k = "groups" => n.links = ev.links
      /\ k = "links" => n.groups = ev.groups
  BY <1>1 DEF Planned, F!Parts
<1>3. Blanks'
  BY <1>1 DEF Blanks, F!PatchForm, F!Display, F!TimeOf
<1>4. NotEntered(n)
  BY <1>1, <1>2 DEF NotEntered, F!Parts
<1>5. zone = 0 => GermanDays(n)
  BY <1>1, <1>2 DEF GermanDays
<1>6. Written(ev) => Written(n)
  BY <1>2 DEF Written
<1>7. ev' = n
  OBVIOUS
<1>8. /\ NotEntered(n) => NotEntered(ev)'
      /\ GermanDays(n) => GermanDays(ev)'
      /\ Written(n) => Written(ev)'
  BY <1>7 DEF NotEntered, GermanDays, Written, F!AtMidnight, F!Others, F!Display, F!TimeOf, F!Instant, F!CombineDatetime,
     F!ClassStart
<1> QED BY <1>2, <1>3, <1>4, <1>5, <1>6, <1>7, <1>8

\* What is sent of a part that was not entered is what the event said.
LEMMA PartsSay ==
  ASSUME FormInv, F!IsEdit, stage # "editing", NEW k \in F!Parts
  PROVE  asked[k] \in Int /\ (k \notin touched => asked[k] = base[k])
<1>1. asked = form /\ form \in Sheet
  BY DEF FormInv, FormTypes
<1> QED BY <1>1, BlanksSay DEF F!Parts, Sheet

LEMMA FormSetsPart ==
  ASSUME FormInv, NEW k \in F!Parts, F!SetPart(k)
  PROVE  FormInv'
<1>1. /\ stage = "parts" /\ k \in parts /\ ev' = [ev EXCEPT ![k] = asked[k]] /\ parts' = parts \ {k}
      /\ stage' = (IF parts' = {} THEN "saved" ELSE "parts")
      /\ UNCHANGED <<zone, form, touched, stray, moves, base, asked, clean>>
  BY DEF F!SetPart, F!AllThere, F!Rest, F!history
<1>2. F!IsEdit /\ Written(ev) /\ PartsWritten(ev) /\ FormTypes
  BY <1>1 DEF FormInv, FormTypes
<1>3. /\ ev' \in Planned /\ ev'[k] = asked[k] /\ (k = "groups" => ev'.links = ev.links) /\ (k = "links" => ev'.groups = ev.groups)
      /\ Blanks' /\ NotEntered(ev)' /\ (zone = 0 => GermanDays(ev)')
      /\ Written(ev)'
  BY <1>1, <1>2, PartsSay, PartsKeep
<1>4. PartsWritten(ev)'
  BY <1>1, <1>2, <1>3 DEF PartsWritten, F!Parts
<1>5. FormTypes'
  BY <1>1, <1>2, <1>3 DEF FormTypes, F!IsEdit
<1>6. \A s \in stray' : s[1] \notin touched' => s[2] = base'[s[1]]
  BY <1>1, <1>2 DEF FormInv
<1> QED BY <1>1, <1>3, <1>4, <1>5, <1>6 DEF FormInv

LEMMA FormPartFails ==
  ASSUME FormInv, NEW k \in F!Parts, NEW done \in BOOLEAN, F!PartFails(k, done)
  PROVE  FormInv'
<1>1. /\ stage = "parts" /\ k \in parts /\ stage' = "editing" /\ parts' = {}
      /\ stray' = stray \cup {<<x, asked[x]>> : x \in parts \ {k}}
      /\ ev' = [ev EXCEPT ![k] = asked[k]] \/ ev' = ev
      /\ UNCHANGED <<zone, form, touched, moves, base, asked, clean>>
  BY DEF F!PartFails, F!Rest, F!history
<1>2. F!IsEdit /\ FormTypes /\ Blanks /\ NotEntered(ev) /\ (zone = 0 => GermanDays(ev)) /\ ev \in Planned
  BY <1>1 DEF FormInv, FormTypes
<1>3. ev' \in Planned /\ Blanks' /\ NotEntered(ev)' /\ (zone = 0 => GermanDays(ev)')
  <2>1. CASE ev' = [ev EXCEPT ![k] = asked[k]]
    BY <1>1, <1>2, <2>1, PartsSay, PartsKeep
  <2>2. CASE ev' = ev
    BY <1>1, <1>2, <2>2 DEF Blanks, NotEntered, GermanDays, F!AtMidnight, F!Others, F!PatchForm, F!Display, F!TimeOf
  <2> QED BY <1>1, <2>1, <2>2
<1>4. \A x \in parts \ {k} : x \in F!Parts /\ asked[x] \in Int /\ (x \notin touched => asked[x] = base[x])
  BY <1>1, <1>2, PartsSay DEF FormTypes
<1>5. /\ stray' \subseteq F!Parts \X Int
      /\ \A s \in stray' : s[1] \notin touched' => s[2] = base'[s[1]]
  BY <1>1, <1>2, <1>4 DEF FormInv, FormTypes
<1>6. FormTypes'
  BY <1>1, <1>2, <1>3, <1>5 DEF FormTypes, F!IsEdit
<1> QED BY <1>1, <1>3, <1>5, <1>6 DEF FormInv

LEMMA FormStrays ==
  ASSUME FormInv, NEW s \in stray, F!StrayEnds(s)
  PROVE  FormInv'
<1>1. /\ stray' = stray \ {s} /\ (ev' = [ev EXCEPT ![s[1]] = s[2]] \/ ev' = ev)
      /\ UNCHANGED <<zone, form, touched, stage, parts, moves, base, asked, clean>>
  BY DEF F!StrayEnds, F!Rest, F!history
<1>2. /\ F!IsEdit /\ FormTypes /\ Blanks /\ NotEntered(ev) /\ (zone = 0 => GermanDays(ev)) /\ ev \in Planned
      /\ s[1] \in F!Parts /\ s[2] \in Int /\ (s[1] \notin touched => s[2] = base[s[1]])
      /\ stage # "editing" => ~clean
      /\ stage \in {"parts", "saved"} => Written(ev)
  BY DEF FormInv, FormTypes
<1>3. /\ ev' \in Planned /\ Blanks' /\ NotEntered(ev)' /\ (zone = 0 => GermanDays(ev)')
      /\ Written(ev) => Written(ev)'
  <2>1. CASE ev' = [ev EXCEPT ![s[1]] = s[2]]
    BY <1>1, <1>2, <2>1, PartsKeep
  <2>2. CASE ev' = ev
    BY <1>1, <1>2, <2>2 DEF Blanks, NotEntered, GermanDays, Written, F!AtMidnight, F!Others, F!PatchForm, F!Display, F!TimeOf,
       F!Instant, F!CombineDatetime, F!ClassStart
  <2> QED BY <1>1, <2>1, <2>2
<1>4. FormTypes'
  BY <1>1, <1>2, <1>3 DEF FormTypes, F!IsEdit
<1>5. stage' \in {"parts", "saved"} => PartsWritten(ev)'
  BY <1>1, <1>2 DEF PartsWritten
<1> QED BY <1>1, <1>2, <1>3, <1>4, <1>5 DEF FormInv

LEMMA FormMoves ==
  ASSUME FormInv, F!Moved
  PROVE  FormInv'
<1>1. /\ F!IsEdit /\ moves' = moves + 1
      /\ ev' = [ev EXCEPT !.name = 2] \/ ev' = [ev EXCEPT !.links = 2]
      /\ UNCHANGED <<zone, form, touched, stage, parts, stray, base, asked, clean>>
  BY DEF F!Moved, F!history
<1>2. /\ FormTypes /\ ev \in Planned /\ Blanks /\ NotEntered(ev) /\ (zone = 0 => GermanDays(ev)) /\ moves \in Nat
      /\ stage \in {"parts", "saved"} => Written(ev) /\ PartsWritten(ev)
  BY <1>1 DEF FormInv, FormTypes
<1> DEFINE n == ev'
<1>3. /\ n \in Planned /\ n.edited = ev.edited /\ n.groups = ev.groups
      /\ n.address = ev.address /\ n.start = ev.start /\ n.known = ev.known /\ n.end = ev.end
      /\ n.opens = ev.opens /\ n.closes = ev.closes /\ n.class = ev.class
  BY <1>1, <1>2 DEF Planned
<1> HIDE DEF n
<1>4. moves' # 0 /\ moves' \in Nat
  BY <1>1, <1>2
<1>5. NotEntered(ev)' /\ (Written(ev) => Written(ev)') /\ (PartsWritten(ev) => PartsWritten(ev)')
  <2>1. n = ev'
    BY DEF n
  <2> QED BY <1>1, <1>2, <1>3, <1>4, <2>1 DEF NotEntered, Written, PartsWritten, F!Instant, F!CombineDatetime, F!ClassStart
<1>6. zone = 0 => GermanDays(ev)'
  <2>1. n = ev' /\ F!Others \subseteq F!Others'
    BY <1>4 DEF n, F!Others
  <2> QED BY <1>1, <1>2, <1>3, <2>1 DEF GermanDays, F!AtMidnight, F!Display, F!TimeOf
<1>7. Blanks' /\ (\A s \in stray' : s[1] \notin touched' => s[2] = base'[s[1]])
  BY <1>1, <1>2 DEF FormInv, Blanks, F!PatchForm, F!Display, F!TimeOf
<1>8. FormTypes'
  BY <1>1, <1>2, <1>3, <1>4 DEF FormTypes, F!IsEdit, n
<1> QED BY <1>1, <1>2, <1>5, <1>6, <1>7, <1>8 DEF FormInv

LEMMA FormCreates ==
  ASSUME FormInv, F!Create
  PROVE  FormInv'
<1> USE FormAssumption
<1> DEFINE u == F!Updated(F!Blank, asked, touched)
<1>1. /\ stage = "update" /\ ~F!IsEdit /\ ev' = [u EXCEPT !.groups = asked.groups, !.links = asked.links]
      /\ stage' \in {"saved", "editing"}
      /\ UNCHANGED <<zone, form, touched, parts, stray, moves, base, asked, clean>>
  BY DEF F!Create, F!Rest, F!history
<1>2. FormTypes /\ zone \in Int /\ asked \in Sheet /\ asked.start.day \in Int /\ touched \subseteq Control /\ base = F!Blank
  BY <1>1 DEF FormInv, FormTypes, F!IsEdit
<1>3. F!Blank \in Planned
  BY DEF F!Blank, Planned, Moment
<1>4. u \in Planned /\ Written(u)
  BY <1>2, <1>3, WhatIsUpdated
<1> HIDE DEF u
<1>5. asked.groups \in Int /\ asked.links \in Int
  BY <1>2 DEF Sheet
<1> DEFINE n == ev'
<1>6. /\ n \in Planned /\ n.groups = asked.groups /\ n.links = asked.links
      /\ n.name = u.name /\ n.address = u.address /\ n.start = u.start /\ n.end = u.end
      /\ n.opens = u.opens /\ n.closes = u.closes /\ n.class = u.class
  BY <1>1, <1>4, <1>5 DEF Planned
<1> HIDE DEF n
<1>7. Written(n)
  BY <1>4, <1>6 DEF Written
<1>8. Written(ev)' /\ PartsWritten(ev)'
  BY <1>1, <1>6, <1>7 DEF n, Written, PartsWritten, F!Instant, F!CombineDatetime, F!ClassStart
<1>9. FormTypes'
  BY <1>1, <1>2, <1>6 DEF FormTypes, F!IsEdit, n
<1>10. ~F!IsEdit'
  BY <1>1 DEF F!IsEdit
<1> QED BY <1>8, <1>9, <1>10 DEF FormInv

LEMMA FormKept ==
  ASSUME FormInv, F!Next
  PROVE  FormInv'
<1>1. CASE F!RequestFails
  <2>1. /\ stage = "update" /\ stage' = "editing"
        /\ UNCHANGED <<zone, form, touched, ev, parts, stray, moves, base, asked, clean>>
    BY <1>1 DEF F!RequestFails, F!Rest, F!history, F!server
  <2> QED BY <2>1 DEF FormInv, FormTypes, F!IsEdit, Blanks, NotEntered, GermanDays, F!AtMidnight, F!Others, F!PatchForm,
                      F!Display, F!TimeOf
<1> QED BY <1>1, FormEntries, FormSubmits, FormUpdates, FormCreates, FormMoves, FormSetsPart, FormPartFails, FormStrays
       DEF F!Next

(* A new form shows an event of which nothing is planned. *)
LEMMA BlankIsPlanned ==
  F!Blank \in Planned
BY FormAssumption DEF F!Blank, Planned, Moment

(* An event stored before is planned, by a whole day where its time is not known. *)
LEMMA StoredIsPlanned ==
  ASSUME NEW a \in {6, 7}, NEW b \in BOOLEAN, NEW c \in {None, 7}, NEW i \in BOOLEAN, b \/ a = 6
  PROVE  /\ F!Stored(a, b, c, i) \in Planned
         /\ F!Stored(a, b, c, i).start \in Int
         /\ ~F!Stored(a, b, c, i).known => F!Stored(a, b, c, i).start % 3 = 0
<1> PICK n \in Int : n = 1
  OBVIOUS
<1> DEFINE d == IF ~b THEN 9 ELSE IF a = 6 THEN None ELSE 10
           f == [F!Blank EXCEPT !.name = n, !.address = n, !.start = a]
           g == [f EXCEPT !.known = b, !.end = d]
           h == [g EXCEPT !.closes = c, !.class = c]
           e == [h EXCEPT !.groups = n, !.links = n, !.imported = i]
<1>1. f \in Planned /\ f.start = a
  <2>1. a \in Moment /\ n \in Moment
    BY DEF Moment
  <2> PICK p \in Planned : p = F!Blank
    BY BlankIsPlanned
  <2>2. [p EXCEPT !.name = n, !.address = n, !.start = a] \in Planned /\ [p EXCEPT !.name = n, !.address = n, !.start = a].start = a
    BY <2>1 DEF Planned
  <2> QED BY <2>2
<1>2. F!Stored(a, b, c, i) = e
  BY DEF F!Stored
<1>3. d \in Moment /\ c \in Moment
  BY DEF Moment
<1> HIDE DEF d, f
<1>4. g \in Planned /\ g.start = a /\ g.known = b
  BY <1>1, <1>3 DEF Planned
<1> HIDE DEF g
<1>5. h \in Planned /\ h.start = a /\ h.known = b
  BY <1>3, <1>4 DEF Planned
<1> HIDE DEF h
<1>6. e \in Planned /\ e.start = a /\ e.known = b
  BY <1>5 DEF Planned
<1> HIDE DEF e
<1>7. ~b => a = 6
  OBVIOUS
<1>8. a \in Int /\ (a = 6 => a % 3 = 0)
  OBVIOUS
<1> QED BY <1>2, <1>6, <1>7, <1>8

LEMMA FormStart ==
  ASSUME F!Init
  PROVE  FormInv
<1> USE FormAssumption
<1>1. /\ zone \in Int /\ touched = {} /\ stage = "editing" /\ parts = {} /\ stray = {} /\ moves = 0 /\ asked = form /\ clean = TRUE
  BY DEF F!Init
<1>2. F!Blank \in Planned
  BY BlankIsPlanned
<1>4. \A e \in Planned : F!PatchForm(e) \in Sheet
  <2> TAKE e \in Planned
  <2>1. /\ e.start \in Moment /\ e.end \in Moment /\ e.opens \in Moment /\ e.closes \in Moment /\ e.class \in Moment
        /\ e.name \in Int /\ e.address \in Moment /\ e.groups \in Int /\ e.links \in Int
    BY DEF Planned
  <2>2. /\ F!Display(e.start) \in Clocked /\ F!Display(e.end) \in Clocked /\ F!Display(e.opens) \in Clocked
        /\ F!Display(e.closes) \in Clocked
    BY <1>1, <2>1, ReadAgain
  <2>3. \A i \in Int : F!TimeOf(i) \in F!Clock
    BY <1>1 DEF F!TimeOf, F!Third, F!Clock
  <2>4. (IF e.class = None THEN None ELSE F!TimeOf(e.class)) \in F!Clock
    BY <2>1, <2>3 DEF Moment, F!Clock
  <2> QED BY <2>1, <2>2, <2>4 DEF F!PatchForm, Sheet
<1>5. CASE \E start \in {6, 7}, known \in BOOLEAN, c \in {None, 7}, i \in BOOLEAN :
              /\ known \/ start = 6
              /\ base = F!Stored(start, known, c, i) /\ ev = base /\ form = F!PatchForm(base)
  <2>1. base \in Planned /\ ev = base /\ form = F!PatchForm(base) /\ form \in Sheet /\ base.start \in Int
        /\ (~base.known => base.start % 3 = 0)
    BY <1>4, <1>5, StoredIsPlanned
  <2>2. FormTypes
    BY <1>1, <2>1 DEF FormTypes
  <2>3. Blanks /\ NotEntered(ev) /\ GermanDays(ev)
    BY <1>1, <2>1 DEF Blanks, NotEntered, GermanDays
  <2> QED BY <1>1, <2>2, <2>3 DEF FormInv
<1>6. CASE base = F!Blank /\ ev = None /\ form = [F!PatchForm(F!Blank) EXCEPT !.start.day = 2]
  <2> DEFINE p == F!PatchForm(F!Blank)
  <2>1. p \in Sheet
    BY <1>2, <1>4
  <2> HIDE DEF p
  <2>2. form = [p EXCEPT !.start.day = 2]
    BY <1>6 DEF p
  <2>3. form \in Sheet
    BY <2>1, <2>2 DEF Sheet, Clocked, Moment
  <2>4. ~F!IsEdit
    BY <1>6 DEF F!IsEdit
  <2>5. FormTypes
    BY <1>1, <1>2, <1>6, <2>3, <2>4 DEF FormTypes
  <2> QED BY <1>1, <2>4, <2>5 DEF FormInv
<1> QED BY <1>5, <1>6 DEF F!Init

\* What is saved is what was entered, and the rest stays.
LEMMA FormShows ==
  ASSUME FormInv
  PROVE  F!SavedAsEntered
<1> USE FormAssumption
<1> SUFFICES ASSUME F!Quiet PROVE F!SavedAsEntered
  BY DEF F!SavedAsEntered
<1>1. /\ stage = "saved" /\ clean /\ parts = {} /\ Written(ev) /\ PartsWritten(ev) /\ zone \in Int /\ asked \in Sheet
      /\ asked = form /\ asked.start.day \in Int /\ ev \in Planned /\ base \in Planned
  BY DEF F!Quiet, FormInv, FormTypes
<1>2. asked.start \in Clocked /\ asked.end \in Clocked /\ asked.opens \in Clocked /\ asked.closes \in Clocked /\ asked.class \in F!Clock
  BY <1>1 DEF Sheet
<1> DEFINE again == F!PatchForm(ev)
<1>3. /\ again.name = ev.name /\ again.address = ev.address /\ again.groups = ev.groups /\ again.links = ev.links
      /\ again.start = F!Display(ev.start) /\ again.end = F!Display(ev.end)
      /\ again.opens = F!Display(ev.opens) /\ again.closes = F!Display(ev.closes)
      /\ again.class = IF ev.class = None THEN None ELSE F!TimeOf(ev.class)
  BY DEF F!PatchForm
<1> HIDE DEF again
<1>4. \A f \in {"name", "groups", "links"} \ F!Others : again[f] = asked[f]
  <2>1. ("name" \notin F!Others => moves = 0) /\ ("links" \notin F!Others => moves = 0)
    BY DEF F!Others
  <2> QED BY <1>1, <1>3, <2>1 DEF Written, PartsWritten
<1>5. again.opens = F!Shown(asked.opens) /\ again.closes = F!Shown(asked.closes)
  BY <1>1, <1>2, <1>3, ShownAgain DEF Written
<1>6. asked.address # None => again.address = asked.address
  BY <1>1, <1>3 DEF Written
<1>7. ASSUME F!SameDays
      PROVE  again.start = F!Shown(asked.start) /\ (asked.end.day # None => again.end = F!Shown(asked.end))
  <2>1. CASE asked.start.time # None
    BY <1>1, <1>2, <1>3, <2>1, ShownAgain DEF Written
  <2>2. CASE asked.start.time = None
    <3>1. zone = 0
      BY <1>7, <2>2 DEF F!SameDays
    <3>2. \A w \in Clocked : w.day \in Int /\ w.time = None => F!Display(F!BerlinMidnight(w.day)) = F!Shown(w)
      <4> TAKE w \in Clocked
      <4> SUFFICES ASSUME w.day \in Int, w.time = None PROVE F!Display(F!BerlinMidnight(w.day)) = F!Shown(w)
        OBVIOUS
      <4>1. F!Display(F!BerlinMidnight(w.day)) = [day |-> w.day, time |-> None]
        BY <3>1, SameDay
      <4>2. F!Shown(w) = [day |-> w.day, time |-> None]
        BY DEF F!Shown, Clocked
      <4> QED BY <4>1, <4>2
    <3>3. asked.end.day # None => asked.end.day \in Int
      BY <1>2 DEF Clocked, Moment
    <3>4. again.start = F!Shown(asked.start)
      BY <1>1, <1>2, <1>3, <2>2, <3>2 DEF Written
    <3>5. asked.end.day # None => again.end = F!Shown(asked.end)
      BY <1>1, <1>2, <1>3, <2>2, <3>2, <3>3, ShownAgain DEF Written
    <3> QED BY <3>4, <3>5
  <2> QED BY <2>1, <2>2
<1>8. "class" \in touched => again.class = (IF asked.class = 0 THEN None ELSE asked.class)
  <2> SUFFICES ASSUME "class" \in touched PROVE again.class = (IF asked.class = 0 THEN None ELSE asked.class)
    OBVIOUS
  <2>1. ev.class = F!ClassStart(asked)
    BY <1>1 DEF Written
  <2>2. CASE asked.class = None
    BY <1>3, <2>1, <2>2 DEF F!ClassStart
  <2>3. CASE asked.class \in 0 .. 2
    <3> DEFINE i == 3 * asked.start.day + asked.class - zone
    <3>1. i \in Int /\ (i + zone) % 3 = asked.class
      BY <1>1, <2>3
    <3>2. ev.class = i
      BY <2>1, <2>3 DEF F!ClassStart, F!CombineDatetime, F!Third
    <3> HIDE DEF i
    <3> QED BY <1>3, <2>3, <3>1, <3>2 DEF F!TimeOf, F!Third
  <2> QED BY <1>2, <2>2, <2>3 DEF F!Clock
<1>9. ASSUME F!IsEdit, F!SameDays
      PROVE  /\ \A f \in {"name", "address", "end", "opens", "closes", "class", "groups", "links"} \ (touched \cup F!Others) :
                   ev[f] = base[f]
             /\ "start" \notin touched => ev.start = base.start
  <2>1. NotEntered(ev) /\ (zone = 0 => GermanDays(ev)) /\ base.start \in Moment /\ base.end \in Moment
    BY <1>1, <1>9 DEF FormInv, Planned
  <2>2. ("name" \notin F!Others => moves = 0) /\ ("links" \notin F!Others => moves = 0)
    BY DEF F!Others
  <2>3. /\ "start" \notin touched => asked.start = F!Display(base.start)
        /\ "end" \notin touched => asked.end = F!Display(base.end)
    BY <1>1, <1>9, BlanksSay
  <2>4. \A i \in Moment : F!Instant(F!Display(i)) = i /\ (F!Display(i).day = None <=> i = None)
    BY <1>1, ReadAgain
  <2>5. ("start" \notin touched => ev.start = base.start) /\ ("end" \notin touched => ev.end = base.end)
    <3>1. CASE zone = 0
      BY <2>1, <3>1 DEF GermanDays
    <3>2. CASE asked.start.time # None
      BY <1>1, <2>1, <2>3, <2>4, <3>2 DEF Written, NotEntered
    <3> QED BY <1>9, <3>1, <3>2 DEF F!SameDays
  <2> QED BY <2>1, <2>2, <2>5 DEF NotEntered
<1>10. F!IsEdit /\ zone = 0 /\ ~F!AtMidnight =>
         ev.edited \subseteq base.edited \cup touched \cup F!Others \cup (IF "start" \in touched THEN {"known"} ELSE {})
  BY DEF FormInv, GermanDays
<1> QED BY <1>4, <1>5, <1>6, <1>7, <1>8, <1>9, <1>10 DEF F!SavedAsEntered, again

\* A form that says the event is saved has saved what was entered, and changed nothing else
\* but what its operator says, whatever failed or was sent again before (onSubmit, patchForm,
\* combineDatetime; update, setPaceGroups, setStravaLinks).
THEOREM FormsSaveWhatIsEntered == HostSpec => []SavedAsEntered
<1> DEFINE Inv == part = "form" => FormInv
<1>1. HostingInit \/ FormInit \/ FilesInit => Inv
  BY FormStart DEF HostingInit, FormInit, FilesInit
<1>2. Inv /\ [HostingStep \/ FormStep \/ FilesStep]_all => Inv'
  <2> SUFFICES ASSUME Inv, [HostingStep \/ FormStep \/ FilesStep]_all, part' = "form" PROVE FormInv'
    OBVIOUS
  <2>1. CASE HostingStep \/ FilesStep
    BY <2>1 DEF HostingStep, FilesStep, HostingRests
  <2>2. CASE FormStep
    BY <2>2, FormKept DEF FormStep
  <2>3. CASE UNCHANGED all
    BY <2>3 DEF all, paper, FormInv, FormTypes, F!IsEdit, Blanks, NotEntered, GermanDays, Written, PartsWritten,
       F!AtMidnight, F!Others, F!PatchForm, F!Display, F!TimeOf, F!Instant, F!CombineDatetime, F!ClassStart
  <2> QED BY <2>1, <2>2, <2>3
<1>3. Inv => SavedAsEntered
  BY FormShows DEF SavedAsEntered
<1> QED BY <1>1, <1>2, <1>3, PTL DEF HostSpec
=============================================================================
