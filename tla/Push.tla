-------------------------------- MODULE Push --------------------------------
(***************************************************************************)
(* Push messages: the registrations of notifications/push.service.ts, the  *)
(* messages sent to them, and the browser's side in                        *)
(* core/services/push.service.ts with the sign-ins and sign-outs of        *)
(* core/services/auth.service.ts.                                          *)
(*                                                                         *)
(* A device holds a subscription of its browser (an endpoint of a push     *)
(* service, dead once dropped) and remembers in localStorage for which     *)
(* endpoint push was turned on.  A page's registrations and the server's   *)
(* messages run concurrently, and each works on what it read.              *)
(***************************************************************************)
EXTENDS Naturals, FiniteSets

CONSTANTS
    Person,       \* accounts
    Device,       \* browsers
    Flow,         \* calls of refresh, enable and disable under way at a time
    Message,      \* messages under way at a time
    None,         \* nobody, no endpoint
    Endpoints,    \* how many endpoints browsers may get
    Rows,         \* how many registrations may be created
    Turns,        \* how many sign-ins and sign-outs there may be
    MaxDevices,   \* MAX_SUBSCRIPTIONS_PER_USER
    MaxFailures,  \* MAX_FAILURES
    Mixes         \* the mixes of operations of which a behaviour has one

ASSUME LimitsAssumption == MaxDevices \in Nat \ {0} /\ MaxFailures \in Nat \ {0}
ASSUME BoundsAssumption == Endpoints \in Nat /\ Rows \in Nat /\ Turns \in Nat /\ IsFiniteSet(Flow)
ASSUME NoneAssumption == None \notin Person \cup Nat

VARIABLES
    dev,    \* what each device and its open page hold
    subs,   \* rows of push_subscriptions by endpoint; ids in order of creation
    flow,   \* what the calls under way are doing
    calls,  \* removals sent at sign-out, for whose answer nobody waits
    sends,  \* the messages under way, with the row each was read from
    made,   \* endpoints handed out
    rows,   \* rows created
    turns,  \* sign-ins and sign-outs
    ops,    \* the operations in play
    \* History, which no step of the program reads:
    failed, \* failures of messages to a row since a lone success, up to MaxFailures
    why     \* why an endpoint's registration outlasts its person's time on the device

vars == <<dev, subs, flow, calls, sends, made, rows, turns, ops, failed, why>>
server == <<subs, sends, rows, failed>>

Endpoint == 1 .. Endpoints
Operation == {"settings", "toggle", "session", "reload", "browser", "lost", "deliver"}
Cause == {"forgotten", "over", "late", "kept", "untold"}
State == {"loading", "unsupported", "denied", "off", "on"}

NoRow == [id |-> 0, user |-> None, failures |-> 0]
Idle == [step |-> "idle", dev |-> None, kind |-> "refresh", page |-> FALSE, as |-> None, sub |-> None]
NoSend == [step |-> "idle", sub |-> None, row |-> NoRow, alone |-> FALSE]

\* The page after a reload: what is not in localStorage is gone.
Loaded(d) == [d EXCEPT !.state = "loading", !.ready = FALSE, !.renewed = None,
                       !.listening = FALSE, !.drops = FALSE, !.busy = FALSE]

-----------------------------------------------------------------------------
At(f, s) == flow[f].step = s
Live(e) == subs[e].id # 0
RowsOf(u) == {e \in Endpoint : Live(e) /\ subs[e].user = u}
Alive(e) == \E d \in Device : dev[d].local = e
Without(E) == [e \in Endpoint |-> IF e \in E THEN NoRow ELSE subs[e]]

\* The browser's subscription is registered for somebody who does not use it, or who does.
Foreign(d) ==
    LET e == dev[d].local IN e # None /\ Live(e) /\ subs[e].user # dev[d].user
Own(d) ==
    LET e == dev[d].local IN e # None /\ Live(e) /\ subs[e].user = dev[d].user

\* wasEnabled, with the browser's permission.
Wanted(d) == dev[d].allowed = "granted" /\ dev[d].key # None

Init ==
    /\ dev = [d \in Device |-> [user |-> None, allowed |-> "default", local |-> None, key |-> None,
                                state |-> "loading", ready |-> FALSE, renewed |-> None,
                                listening |-> FALSE, drops |-> FALSE, busy |-> FALSE]]
    /\ subs = [e \in Endpoint |-> NoRow]
    /\ flow = [f \in Flow |-> Idle]
    /\ calls = {}
    /\ sends = [m \in Message |-> NoSend]
    /\ made = 0 /\ rows = 0 /\ turns = 0
    /\ ops \in Mixes
    /\ failed = [i \in 1 .. Rows |-> 0]
    /\ why = [e \in Endpoint |-> {}]

Starts(f, d, kind, step, sub) ==
    /\ At(f, "idle")
    /\ flow' = [flow EXCEPT ![f] = [step |-> step, dev |-> d, kind |-> kind, page |-> TRUE,
                                    as |-> dev[d].user, sub |-> sub]]

\* The end of a call, whose outcome the page shows; toggleDevice waits for its own.
Ends(f, d, row) ==
    /\ flow' = [flow EXCEPT ![f] = Idle]
    /\ dev' = [dev EXCEPT ![d] = IF flow[f].kind = "refresh" THEN row ELSE [row EXCEPT !.busy = FALSE]]

\* enable goes on after the refresh it began with.
EndsRefresh(f, d, row) ==
    IF flow[f].kind = "both"
    THEN /\ flow' = [flow EXCEPT ![f].kind = "enable", ![f].step = "ask", ![f].sub = None]
         /\ dev' = [dev EXCEPT ![d] = row]
    ELSE Ends(f, d, row)

-----------------------------------------------------------------------------
\* The page.

\* renewIfEnabled, which the shell calls for each user it shows.
Renew(f, d) ==
    /\ dev[d].user # None /\ dev[d].renewed # dev[d].user /\ Wanted(d)
    /\ Starts(f, d, "refresh", "config", None)
    /\ dev' = [dev EXCEPT ![d].renewed = dev[d].user]
    /\ UNCHANGED <<server, calls, made, turns, ops, why>>

\* The settings open.
Settings(f, d) ==
    /\ "settings" \in ops /\ dev[d].user # None
    /\ Starts(f, d, "refresh", "config", None)
    /\ UNCHANGED <<dev, server, calls, made, turns, ops, why>>

\* toggleDevice of a device that is not on; without the public key it refreshes first.
Enable(f, d) ==
    /\ "toggle" \in ops /\ dev[d].user # None /\ ~dev[d].busy /\ dev[d].state # "on"
    /\ IF dev[d].ready THEN Starts(f, d, "enable", "ask", None)
                       ELSE Starts(f, d, "both", "config", None)
    /\ dev' = [dev EXCEPT ![d].busy = TRUE]
    /\ UNCHANGED <<server, calls, made, turns, ops, why>>

\* toggleDevice of a device that is on.
Disable(f, d) ==
    /\ "toggle" \in ops /\ dev[d].user # None /\ ~dev[d].busy /\ dev[d].state = "on"
    /\ Starts(f, d, "disable", "drop", dev[d].key)
    /\ dev' = [dev EXCEPT ![d].busy = TRUE]
    /\ UNCHANGED <<server, calls, made, turns, ops, why>>

\* disable drops what the browser has, then tells the server.  With nothing to drop
\* it tells of what was remembered; when dropping fails it tells nobody.
DropOwn(f) ==
    LET d == flow[f].dev
        sub == IF dev[d].local # None THEN dev[d].local ELSE flow[f].sub
    IN
    /\ At(f, "drop")
    /\ \/ /\ sub # None
          /\ dev' = [dev EXCEPT ![d].local = None, ![d].drops = FALSE]
          /\ flow' = [flow EXCEPT ![f].step = "delete", ![f].sub = sub, ![f].as = dev[d].user]
       \/ /\ sub = None \/ (dev[d].local # None /\ "lost" \in ops)
          /\ Ends(f, d, [dev[d] EXCEPT !.key = None, !.state = "off"])
    /\ UNCHANGED <<server, calls, made, turns, ops, why>>

\* The answer to GET /push/config, and what refresh makes of it.
Config(f) ==
    LET d == flow[f].dev IN
    /\ At(f, "config")
    /\ \/ /\ "lost" \in ops
          /\ Ends(f, d, [dev[d] EXCEPT !.state = "unsupported"])
       \/ LET row == [dev[d] EXCEPT !.ready = TRUE] IN
          IF ~Wanted(d)
          THEN EndsRefresh(f, d, [row EXCEPT !.state = IF row.allowed = "denied" THEN "denied" ELSE "off"])
          ELSE /\ dev' = [dev EXCEPT ![d] = row]
               /\ flow' = [flow EXCEPT ![f].step = IF dev[d].local = None THEN "ask" ELSE "post",
                                       ![f].as = dev[d].user, ![f].sub = dev[d].local]
    /\ UNCHANGED <<server, calls, made, turns, ops, why>>

\* requestSubscription: the browser gives the subscription it has, or a new one.
\* After a sign-out on this page somebody still listens, and is to drop it again.
Ask(f) ==
    LET d == flow[f].dev
        old == dev[d].local
        sub == IF old = None THEN made + 1 ELSE old
    IN
    /\ At(f, "ask") /\ dev[d].allowed # "denied" /\ sub <= Endpoints
    /\ made' = IF old = None THEN made + 1 ELSE made
    /\ dev' = [dev EXCEPT ![d].allowed = "granted", ![d].local = sub, ![d].drops = dev[d].listening]
    /\ flow' = [flow EXCEPT ![f].step = "post", ![f].sub = sub, ![f].as = dev[d].user]
    /\ UNCHANGED <<server, calls, turns, ops, why>>

\* What enable and refresh make of a failure.
Failed(f, row) ==
    LET state == IF flow[f].kind = "enable" /\ row.allowed = "denied" THEN "denied" ELSE "off"
    IN EndsRefresh(f, flow[f].dev, [row EXCEPT !.state = state])

\* Asked, somebody refuses, or the permission was refused before.
Refuse(f) ==
    LET d == flow[f].dev IN
    /\ At(f, "ask") /\ dev[d].allowed # "granted"
    /\ Failed(f, [dev[d] EXCEPT !.allowed = "denied"])
    /\ UNCHANGED <<server, calls, made, turns, ops, why>>

\* Fault: only the server is told, and the browser keeps its subscription.
Detached_Subscribed(row) ==
    IF row.key = None THEN [row EXCEPT !.renewed = None]
    ELSE [row EXCEPT !.renewed = None, !.key = None, !.state = "off"]

\* detachOnLogout: if the device remembers a subscription it forgets it, and from now on
\* drops what the browser has, or will have, when the browser says so.
Detached(row) ==
    IF row.key = None THEN [row EXCEPT !.renewed = None]
    ELSE [row EXCEPT !.renewed = None, !.listening = TRUE, !.drops = row.local # None,
                     !.key = None, !.state = "off"]

\* History of a sign-out: nothing is undone without a key, and the server is told of the
\* key, which is not the endpoint when the browser got another one since.
SignedOut(d) ==
    LET e == dev[d].local IN
    IF ~Own(d) THEN why
    ELSE [why EXCEPT ![e] = IF dev[d].key = None THEN {"forgotten"}
                            ELSE IF dev[d].key = e THEN {} ELSE {"untold"}]

\* History of a subscription that is not dropped after all.
Kept(d) == IF Foreign(d) THEN [why EXCEPT ![dev[d].local] = @ \cup {"kept"}] ELSE why

\* Its call takes along whose token it was.
Removal(d) == IF dev[d].key = None THEN {} ELSE {[as |-> dev[d].user, sub |-> dev[d].key]}

\* The answers to a registration, or to a call sent without a token, which signs out.
Registered(f) ==
    LET d == flow[f].dev IN
    /\ At(f, "done")
    /\ IF flow[f].page
       THEN EndsRefresh(f, d, [dev[d] EXCEPT !.key = flow[f].sub,
                                             !.state = IF flow[f].kind = "both" THEN @ ELSE "on"])
       ELSE flow' = [flow EXCEPT ![f] = Idle] /\ UNCHANGED dev
    /\ UNCHANGED <<server, calls, made, turns, ops, why>>

Unregistered(f) ==
    LET d == flow[f].dev IN
    /\ At(f, "failed")
    /\ IF flow[f].page THEN Failed(f, dev[d])
                       ELSE flow' = [flow EXCEPT ![f] = Idle] /\ UNCHANGED dev
    /\ UNCHANGED <<server, calls, made, turns, ops, why>>

Unauthorized(f) ==
    LET d == flow[f].dev
        out == [Detached(dev[d]) EXCEPT !.user = None]
    IN
    /\ At(f, "post") \/ At(f, "delete")
    /\ flow[f].as = None
    /\ IF flow[f].page
       THEN /\ IF At(f, "post") THEN Failed(f, out) ELSE Ends(f, d, [out EXCEPT !.state = "off"])
            /\ calls' = calls \cup {c \in Removal(d) : c.as # None}
            /\ why' = SignedOut(d)
       ELSE flow' = [flow EXCEPT ![f] = Idle] /\ UNCHANGED <<dev, calls, why>>
    /\ UNCHANGED <<server, made, turns, ops>>

\* The answer to a removal, or its failure.
Disabled(f) ==
    LET d == flow[f].dev IN
    /\ At(f, "deleted")
    /\ IF flow[f].page THEN Ends(f, d, [dev[d] EXCEPT !.key = None, !.state = "off"])
                       ELSE flow' = [flow EXCEPT ![f] = Idle] /\ UNCHANGED dev
    /\ UNCHANGED <<server, calls, made, turns, ops, why>>

\* logout, before the token goes.
Logout(d) ==
    /\ "session" \in ops /\ dev[d].user # None /\ turns < Turns
    /\ dev' = [dev EXCEPT ![d] = [Detached(@) EXCEPT !.user = None]]
    /\ calls' = calls \cup Removal(d)
    /\ why' = SignedOut(d) /\ turns' = turns + 1
    /\ UNCHANGED <<server, flow, made, ops>>

\* What detachOnLogout left to be dropped is; a failure is ignored.
Drop(d) ==
    /\ dev[d].drops
    /\ \/ dev' = [dev EXCEPT ![d].drops = FALSE, ![d].local = None] /\ UNCHANGED why
       \/ "lost" \in ops /\ dev' = [dev EXCEPT ![d].drops = FALSE] /\ why' = Kept(d)
    /\ UNCHANGED <<server, flow, calls, made, turns, ops>>

\* setSession: the sign-in page also opens for somebody who is signed in.
SignIn(d, u) ==
    /\ dev[d].user # u
    /\ dev[d].user = None \/ "session" \in ops
    /\ turns < Turns
    /\ dev' = [dev EXCEPT ![d].user = u]
    /\ why' = IF Own(d) THEN [why EXCEPT ![dev[d].local] = {"over"}] ELSE why
    /\ turns' = turns + 1
    /\ UNCHANGED <<server, flow, calls, made, ops>>

\* A reload: what the page had not sent is gone, what the server has goes on.
Reload(d) ==
    /\ "reload" \in ops
    /\ dev' = [dev EXCEPT ![d] = Loaded(@)]
    /\ flow' = [f \in Flow |-> IF flow[f].dev # d THEN flow[f]
                               ELSE IF flow[f].step \in {"post", "upserted", "delete"}
                                    THEN [flow[f] EXCEPT !.page = FALSE] ELSE Idle]
    /\ why' = IF dev[d].drops THEN Kept(d) ELSE why
    /\ UNCHANGED <<server, calls, made, turns, ops>>

\* The browser drops a subscription, or its settings are changed.
Browser(d) ==
    /\ "browser" \in ops
    /\ \E p \in {"default", "granted", "denied"} :
          dev' = [dev EXCEPT ![d].local = None, ![d].drops = FALSE, ![d].allowed = p]
    /\ UNCHANGED <<server, flow, calls, made, turns, ops, why>>

-----------------------------------------------------------------------------
\* The server.

\* subscribe, first statement: the row of the endpoint changes hands or is created.
Upsert(f) ==
    LET e == flow[f].sub IN
    /\ At(f, "post") /\ flow[f].as # None /\ (Live(e) \/ rows < Rows)
    /\ subs' = [subs EXCEPT ![e] = [id |-> IF Live(e) THEN @.id ELSE rows + 1,
                                    user |-> flow[f].as, failures |-> 0]]
    /\ rows' = IF Live(e) THEN rows ELSE rows + 1
    /\ flow' = [flow EXCEPT ![f].step = "upserted"]
    /\ why' = [why EXCEPT ![e] = IF \E d \in Device : dev[d].local = e /\ dev[d].user # flow[f].as
                                 THEN {"late"} ELSE {}]
    /\ UNCHANGED <<dev, calls, sends, made, failed, turns, ops>>

\* Fault: as many as allowed go, however old the rest is.
Newest_AllButOne(u) ==
    {e \in RowsOf(u) : Cardinality({o \in RowsOf(u) : subs[o].id > subs[e].id}) <= MaxDevices}

Newest(u) == {e \in RowsOf(u) : Cardinality({o \in RowsOf(u) : subs[o].id > subs[e].id}) < MaxDevices}

\* subscribe, second statement.
Prune(f) ==
    LET u == flow[f].as IN
    /\ At(f, "upserted")
    /\ subs' = Without(RowsOf(u) \ Newest(u))
    /\ flow' = [flow EXCEPT ![f].step = "done"]
    /\ UNCHANGED <<dev, calls, sends, made, rows, failed, turns, ops, why>>

\* The request, or its answer, gets lost.
Lost(f) ==
    /\ "lost" \in ops /\ flow[f].step \in {"post", "done"}
    /\ flow' = [flow EXCEPT ![f].step = "failed"]
    /\ UNCHANGED <<dev, server, calls, made, turns, ops, why>>

Owned(u, e) == {x \in {e} : Live(x) /\ subs[x].user = u}

Unsubscribe(f) ==
    /\ At(f, "delete") /\ flow[f].as # None
    /\ \/ subs' = Without(Owned(flow[f].as, flow[f].sub))
       \/ "lost" \in ops /\ UNCHANGED subs
    /\ flow' = [flow EXCEPT ![f].step = "deleted"]
    /\ UNCHANGED <<dev, calls, sends, made, rows, failed, turns, ops, why>>

UnsubscribeAtLogout(c) ==
    /\ c \in calls
    /\ calls' = calls \ {c}
    /\ \/ subs' = Without(Owned(c.as, c.sub)) /\ UNCHANGED why
       \/ /\ "lost" \in ops /\ UNCHANGED subs
          /\ why' = [e \in Endpoint |-> why[e] \cup {x \in {"untold"} : e \in Owned(c.as, c.sub)}]
    /\ UNCHANGED <<dev, flow, sends, made, rows, failed, turns, ops>>

To(id) == {m \in Message : sends[m].step # "idle" /\ sends[m].row.id = id}

\* notify and sendTest read the rows of those who want the message.  From then on no
\* message under way to the same row is alone.
BeginDeliver(m, e) ==
    /\ "deliver" \in ops
    /\ sends[m] = NoSend /\ Live(e)
    /\ sends' = [x \in Message |->
          IF x = m THEN [step |-> "send", sub |-> e, row |-> subs[e], alone |-> To(subs[e].id) = {}]
          ELSE IF x \in To(subs[e].id) THEN [sends[x] EXCEPT !.alone = FALSE] ELSE sends[x]]
    /\ UNCHANGED <<dev, subs, flow, calls, made, rows, failed, turns, ops, why>>

\* The push service takes the message, fails, or says that the endpoint is gone.
Send(m, outcome) ==
    LET s == sends[m] IN
    /\ s.step = "send"
    /\ outcome = "ok" => Alive(s.sub)
    /\ outcome = "gone" => ~Alive(s.sub)
    /\ sends' = [sends EXCEPT ![m].step = outcome]
    /\ failed' = IF outcome = "ok" \/ failed[s.row.id] = MaxFailures THEN failed
                 ELSE [failed EXCEPT ![s.row.id] = @ + 1]
    /\ UNCHANGED <<dev, subs, flow, calls, made, rows, turns, ops, why>>

Dropped(s) == s.step = "gone" \/ (s.step = "fail" /\ s.row.failures + 1 >= MaxFailures)

\* Fault: a success leaves the count as it is.
Count_Kept(s) == IF s.step = "ok" THEN s.row.failures ELSE s.row.failures + 1

Count(s) == IF s.step = "ok" THEN 0 ELSE s.row.failures + 1

Found(s) == {e \in Endpoint : subs[e].id = s.row.id}

\* deliver writes what follows from the row it read, if there is still one with its id.
Record(m) ==
    LET s == sends[m] IN
    /\ s.step \in {"ok", "fail", "gone"}
    /\ \/ s.step = "ok" /\ s.row.failures = 0 /\ UNCHANGED subs
       \/ Dropped(s) /\ subs' = Without(Found(s))
       \/ /\ ~Dropped(s)
          /\ subs' = [e \in Endpoint |-> IF e \in Found(s) THEN [subs[e] EXCEPT !.failures = Count(s)] ELSE subs[e]]
    /\ sends' = [sends EXCEPT ![m] = NoSend]
    /\ failed' = IF s.step = "ok" /\ s.alone THEN [failed EXCEPT ![s.row.id] = 0] ELSE failed
    /\ UNCHANGED <<dev, flow, calls, made, rows, turns, ops, why>>

-----------------------------------------------------------------------------
Next ==
    \/ \E f \in Flow :
        \/ \E d \in Device : Renew(f, d) \/ Settings(f, d) \/ Enable(f, d) \/ Disable(f, d)
        \/ DropOwn(f) \/ Config(f) \/ Ask(f) \/ Refuse(f)
        \/ Registered(f) \/ Unregistered(f) \/ Unauthorized(f) \/ Disabled(f)
        \/ Upsert(f) \/ Prune(f) \/ Lost(f) \/ Unsubscribe(f)
    \/ \E d \in Device : Logout(d) \/ Drop(d) \/ Reload(d) \/ Browser(d) \/ \E u \in Person : SignIn(d, u)
    \/ \E c \in calls : UnsubscribeAtLogout(c)
    \/ \E m \in Message :
        \/ \E e \in Endpoint : BeginDeliver(m, e)
        \/ \E o \in {"ok", "fail", "gone"} : Send(m, o)
        \/ Record(m)

Spec == Init /\ [][Next]_vars

\* Messages to a registration keep coming, each is answered (they have a timeout)
\* and recorded.
Fairness ==
    /\ \A e \in Endpoint : SF_vars(\E m \in Message : BeginDeliver(m, e))
    /\ \A m \in Message : WF_vars(Record(m)) /\ WF_vars(\E o \in {"ok", "fail", "gone"} : Send(m, o))

FairSpec == Spec /\ Fairness

-----------------------------------------------------------------------------
\* Types.  Endpoints and ids are handed out once, and no browser shares an endpoint.
TypeOK ==
    /\ dev \in [Device -> [user: Person \cup {None}, allowed: {"default", "granted", "denied"},
                           local: Endpoint \cup {None}, key: Endpoint \cup {None}, state: State,
                           ready: BOOLEAN, renewed: Person \cup {None}, listening: BOOLEAN,
                           drops: BOOLEAN, busy: BOOLEAN]]
    /\ subs \in [Endpoint -> [id: 0 .. Rows, user: Person \cup {None}, failures: 0 .. MaxFailures - 1]]
    /\ made \in 0 .. Endpoints /\ rows \in 0 .. Rows /\ turns \in 0 .. Turns
    /\ failed \in [1 .. Rows -> 0 .. MaxFailures] /\ why \in [Endpoint -> SUBSET Cause]
    /\ \A e \in Endpoint : IF Live(e) THEN subs[e].user # None /\ subs[e].id <= rows /\ e <= made
                                       ELSE subs[e] = NoRow
    /\ \A e, o \in Endpoint : Live(e) /\ subs[e].id = subs[o].id => e = o
    /\ \A d, x \in Device : dev[d].local # None /\ dev[d].local = dev[x].local => d = x
    /\ \A d \in Device : dev[d].local # None => dev[d].local <= made

\* push.service.ts of the client: after a logout "the next user on this device gets
\* nothing".  A device receives somebody else's messages only while both ways to end it
\* are still under way or have failed: the browser's subscription is yet to be dropped, or
\* was kept (a failure, a reload), and the server is yet to be told, or was not (a lost
\* call, a key that is older than the endpoint).  Or nothing was undone: there was no key
\* at the sign-out, somebody signed in over a session, or a registration sent before
\* either arrived late.
NextUserGetsNothing ==
    \A d \in Device :
        LET e == dev[d].local IN
        Foreign(d) =>
            \/ why[e] \cap {"forgotten", "over", "late"} # {}
            \/ /\ dev[d].drops \/ "kept" \in why[e]
               /\ [as |-> subs[e].user, sub |-> e] \in calls \/ "untold" \in why[e]

\* "A subscription that failed this many sends in a row is dropped": however many messages
\* count failures at once from rows they read earlier, a registration counts at most the
\* failures since a success that no other message overlapped, and one with a living
\* endpoint is dropped by deliver only after MAX_FAILURES since then.
FailuresCounted ==
    /\ \A e \in Endpoint : Live(e) => subs[e].failures <= failed[subs[e].id]
    /\ \A m \in Message : sends[m].step = "fail" /\ Dropped(sends[m])
                            => failed[sends[m].row.id] = MaxFailures

\* A person keeps at most MAX_SUBSCRIPTIONS_PER_USER registrations, and one more for
\* each registration that has not yet come to the second statement.
DevicesBounded ==
    \A u \in Person :
        Cardinality(RowsOf(u)) <= MaxDevices + Cardinality({f \in Flow : At(f, "upserted") /\ flow[f].as = u})

\* "the server drops dead endpoints itself": as long as messages to it come, also when
\* they fail at once and their counts overwrite each other.
DeadEndpointsGo ==
    \A e \in Endpoint : [](Live(e) /\ ~Alive(e) => <>(~Live(e) \/ Alive(e)))

\* push.service.ts of the client: "`on`: this device receives push", when nothing is
\* under way and no browser drops subscriptions.
OnReceives ==
    \A d \in Device :
        dev[d].state = "on" /\ (\A f \in Flow : At(f, "idle")) => dev[d].local # None
=============================================================================
