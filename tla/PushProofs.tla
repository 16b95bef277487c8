----------------------------- MODULE PushProofs -----------------------------
(***************************************************************************)
(* Failures are counted, registrations are bounded, and the next user of a *)
(* device gets nothing, for any number of people, devices and messages.    *)
(*                                                                         *)
(* Endpoints and ids are handed out once (Locals, Registrations), a call   *)
(* registers an endpoint some browser got (Flows).  A message counts no    *)
(* more failures than its registration had when it was read (Counted), and *)
(* one that is alone finds its registration as it read it (Lone).  While a *)
(* device has the registration of somebody else, the causes are noted      *)
(* (Causes).                                                               *)
(***************************************************************************)
EXTENDS Push, FiniteSetTheorems, WellFoundedInduction, TLAPS

DevRow == [user: Person \cup {None}, allowed: {"default", "granted", "denied"},
           local: Endpoint \cup {None}, key: Endpoint \cup {None}, state: State,
           ready: BOOLEAN, renewed: Person \cup {None}, listening: BOOLEAN, drops: BOOLEAN, busy: BOOLEAN]
SubRow == [id: 0 .. Rows, user: Person \cup {None}, failures: 0 .. MaxFailures - 1]
Step == {"idle", "config", "ask", "post", "upserted", "done", "failed", "drop", "delete", "deleted"}
FlowRow == [step: Step, dev: Device \cup {None}, kind: {"refresh", "enable", "both", "disable"},
            page: BOOLEAN, as: Person \cup {None}, sub: Endpoint \cup {None}]

\* An endpoint that a browser got.
Given(e) == e \in Endpoint /\ e <= made

Devs == dev \in [Device -> DevRow]
Locals ==
    /\ made \in 0 .. Endpoints
    /\ \A d \in Device : dev[d].local # None => dev[d].local <= made
    /\ \A d, x \in Device : dev[d].local # None /\ dev[d].local = dev[x].local => d = x

\* A call is about a device, and registers an endpoint for somebody.
Sound(r) ==
    /\ r.step # "idle" => r.dev \in Device
    /\ r.step \in {"post", "upserted", "done"} => Given(r.sub)
    /\ r.step = "upserted" => r.as \in Person
Flows == flow \in [Flow -> FlowRow] /\ \A f \in Flow : Sound(flow[f])

RowSound(e) ==
    IF Live(e) THEN subs[e].user \in Person /\ subs[e].id <= rows /\ e <= made
    ELSE subs[e] = NoRow
Registrations ==
    /\ subs \in [Endpoint -> SubRow] /\ rows \in 0 .. Rows
    /\ \A e \in Endpoint : RowSound(e)
    /\ \A e, o \in Endpoint : Live(e) /\ subs[e].id = subs[o].id => e = o

TInv == Devs /\ Locals /\ Flows /\ Registrations
Past == why \in [Endpoint -> SUBSET Cause] /\ turns \in 0 .. Turns

-----------------------------------------------------------------------------
(* Types. *)
LEMMA Typed == TInv /\ Past /\ failed \in [1 .. Rows -> 0 .. MaxFailures] => TypeOK
  <1> SUFFICES ASSUME TInv, Past, failed \in [1 .. Rows -> 0 .. MaxFailures] PROVE TypeOK
    OBVIOUS
  <1>1. \A e \in Endpoint : IF Live(e) THEN subs[e].user # None /\ subs[e].id <= rows /\ e <= made
                                        ELSE subs[e] = NoRow
    BY NoneAssumption DEF TInv, Registrations, RowSound
  <1> QED BY <1>1 DEF TInv, Past, Devs, DevRow, Locals, Registrations, SubRow, TypeOK

LEMMA InitTyped == Init => TInv
  <1> SUFFICES ASSUME Init PROVE TInv
    OBVIOUS
  <1> USE LimitsAssumption, BoundsAssumption DEF Init
  <1>1. Devs
    BY DEF Devs, DevRow, State
  <1>2. Locals
    BY DEF Locals
  <1>3. Flows
    BY DEF Flows, FlowRow, Step, Sound, Idle
  <1>4. Registrations
    BY DEF Registrations, RowSound, Live, SubRow, NoRow
  <1> QED BY <1>1, <1>2, <1>3, <1>4 DEF TInv

(* A page that gets no new endpoint. *)
LEMMA PageKeeps ==
  ASSUME TInv, NEW d \in Device, NEW r \in DevRow, r.local \in {None, dev[d].local},
         dev' = [dev EXCEPT ![d] = r], UNCHANGED made
  PROVE  Devs' /\ Locals'
  BY DEF TInv, Devs, Locals

(* A call that goes on. *)
LEMMA CallGoes ==
  ASSUME TInv, NEW f \in Flow, NEW r \in FlowRow, Sound(r), flow' = [flow EXCEPT ![f] = r],
         made' \in Nat, made <= made'
  PROVE  Flows'
  <1>1. \A e : Given(e) => Given(e)'
    BY BoundsAssumption DEF Given, TInv, Locals, Endpoint
  <1>2. \A x : Sound(x) => Sound(x)'
    BY <1>1 DEF Sound
  <1> QED BY <1>2 DEF TInv, Flows

(* A call that goes on to register an endpoint, perhaps a new one. *)
LEMMA CallPosts ==
  ASSUME TInv, NEW f \in Flow, NEW r \in FlowRow, flow' = [flow EXCEPT ![f] = r],
         r.step = "post", r.dev \in Device, r.sub \in Endpoint, r.sub <= made',
         made' \in Nat, made <= made'
  PROVE  Flows'
  <1>1. \A e : Given(e) => Given(e)'
    BY BoundsAssumption DEF Given, TInv, Locals, Endpoint
  <1>2. \A x : Sound(x) => Sound(x)'
    BY <1>1 DEF Sound
  <1>3. Sound(r)'
    BY DEF Sound, Given
  <1>4. flow' \in [Flow -> FlowRow] /\ \A x \in Flow : flow'[x] = IF x = f THEN r ELSE flow[x]
    BY DEF TInv, Flows
  <1>5. \A x \in Flow : Sound(flow[x])
    BY DEF TInv, Flows
  <1>6. \A x \in Flow : Sound(flow[x])'
    <2> SUFFICES ASSUME NEW x \in Flow PROVE Sound(flow[x])'
      OBVIOUS
    <2>1. Sound(flow[x]) => Sound(flow[x])'
      BY <1>1, <1>4, <1>5, <1>3 DEF Sound, Given
    <2> QED BY <1>5, <2>1
  <1> QED BY <1>4, <1>6 DEF Flows

(* Registrations that go, or get another count of failures. *)
LEMMA RowsGo ==
  ASSUME TInv, NEW E, subs' = Without(E), UNCHANGED <<rows, made>>
  PROVE  Registrations'
  <1>1. NoRow \in SubRow
    BY LimitsAssumption, BoundsAssumption DEF NoRow, SubRow
  <1>2. \A e \in Endpoint : subs'[e] = IF e \in E THEN NoRow ELSE subs[e]
    BY DEF Without
  <1>3. subs' \in [Endpoint -> SubRow]
    BY <1>1 DEF Without, TInv, Registrations
  <1> QED BY <1>2, <1>3 DEF TInv, Registrations, RowSound, Live, NoRow

LEMMA ElseStay ==
  ASSUME TInv
  PROVE  /\ UNCHANGED <<dev, made>> => Devs' /\ Locals'
         /\ UNCHANGED <<flow, made>> => Flows'
         /\ UNCHANGED <<subs, rows, made>> => Registrations'
  BY DEF TInv, Devs, Locals, Flows, Sound, Given, Registrations, RowSound, Live

(* The end of a call, for a page that gets no new endpoint. *)
LEMMA CallEnds ==
  ASSUME TInv, NEW f \in Flow, NEW r \in DevRow, r.local \in {None, dev[flow[f].dev].local},
         flow[f].step # "idle", UNCHANGED made,
         Ends(f, flow[f].dev, r) \/ EndsRefresh(f, flow[f].dev, r)
  PROVE  Devs' /\ Locals' /\ Flows'
  <1> DEFINE d == flow[f].dev
             idle == [r EXCEPT !.busy = FALSE]
             next == [flow[f] EXCEPT !.kind = "enable", !.step = "ask", !.sub = None]
  <1>1. d \in Device /\ flow[f] \in FlowRow
    BY DEF TInv, Flows, Sound
  <1>2. idle \in DevRow /\ idle.local = r.local
    BY DEF DevRow
  <1>3. next \in FlowRow /\ next.step = "ask" /\ next.dev = d
    BY <1>1 DEF FlowRow, Step
  <1>4. Idle \in FlowRow /\ Idle.step = "idle"
    BY DEF Idle, FlowRow, Step
  <1>5. made' \in Nat /\ made <= made'
    BY BoundsAssumption DEF TInv, Locals
  <1>6. /\ dev' = [dev EXCEPT ![d] = r] \/ dev' = [dev EXCEPT ![d] = idle]
        /\ flow' = [flow EXCEPT ![f] = Idle] \/ flow' = [flow EXCEPT ![f] = next]
    BY DEF Ends, EndsRefresh
  <1>7. Sound(next) /\ Sound(Idle)
    BY <1>1, <1>3, <1>4 DEF Sound
  <1> HIDE DEF d, idle, next
  <1>8. Devs' /\ Locals'
    BY <1>1, <1>2, <1>6, PageKeeps DEF d
  <1>9. Flows'
    BY <1>3, <1>4, <1>5, <1>6, <1>7, CallGoes
  <1> QED BY <1>8, <1>9

LEMMA StartsSound ==
  ASSUME TInv, NEW f \in Flow, NEW d \in Device, NEW kind \in {"refresh", "enable", "both", "disable"},
         NEW step \in {"config", "ask", "drop"}, NEW sub \in Endpoint \cup {None},
         Starts(f, d, kind, step, sub), UNCHANGED made
  PROVE  Flows'
  <1> DEFINE r == [step |-> step, dev |-> d, kind |-> kind, page |-> TRUE, as |-> dev[d].user, sub |-> sub]
  <1>1. r \in FlowRow
    BY DEF FlowRow, Step, TInv, Devs, DevRow
  <1>2. Sound(r)
    BY DEF Sound
  <1>3. flow' = [flow EXCEPT ![f] = r]
    BY DEF Starts
  <1>4. made' \in Nat /\ made <= made'
    BY BoundsAssumption DEF TInv, Locals
  <1> HIDE DEF r
  <1> QED BY <1>1, <1>2, <1>3, <1>4, CallGoes

LEMMA DetachedRow ==
  ASSUME NEW r \in DevRow
  PROVE  LET x == [Detached(r) EXCEPT !.user = None] IN
         /\ x \in DevRow /\ x.user = None /\ x.local = r.local
         /\ r.local # None /\ (r.drops \/ r.key # None) => x.drops
         /\ (r.drops => r.listening) => (x.drops => x.listening)
  BY DEF Detached, DevRow, State

-----------------------------------------------------------------------------
LEMMA PageSteps ==
  ASSUME TInv, NEW f \in Flow, NEW d \in Device,
         Renew(f, d) \/ Settings(f, d) \/ Enable(f, d) \/ Disable(f, d)
  PROVE  TInv'
  <1>1. dev[d] \in DevRow
    BY DEF TInv, Devs
  <1>2. UNCHANGED <<subs, rows, made>>
    BY DEF Renew, Settings, Enable, Disable, server
  <1>3. CASE Renew(f, d)
    <2> DEFINE r == [dev[d] EXCEPT !.renewed = dev[d].user]
    <2>1. r \in DevRow /\ r.local = dev[d].local
      BY <1>1 DEF DevRow
    <2>2. dev' = [dev EXCEPT ![d] = r]
      BY <1>3 DEF Renew
    <2> HIDE DEF r
    <2> QED BY <1>2, <1>3, <2>1, <2>2, PageKeeps, StartsSound, ElseStay DEF Renew, TInv
  <1>4. CASE Settings(f, d)
    BY <1>2, <1>4, StartsSound, ElseStay DEF Settings, TInv
  <1>5. CASE Enable(f, d)
    <2> DEFINE r == [dev[d] EXCEPT !.busy = TRUE]
    <2>1. r \in DevRow /\ r.local = dev[d].local
      BY <1>1 DEF DevRow
    <2>2. dev' = [dev EXCEPT ![d] = r]
      BY <1>5 DEF Enable
    <2> HIDE DEF r
    <2> QED BY <1>2, <1>5, <2>1, <2>2, PageKeeps, StartsSound, ElseStay DEF Enable, TInv
  <1>6. CASE Disable(f, d)
    <2> DEFINE r == [dev[d] EXCEPT !.busy = TRUE]
    <2>1. r \in DevRow /\ r.local = dev[d].local /\ dev[d].key \in Endpoint \cup {None}
      BY <1>1 DEF DevRow
    <2>2. dev' = [dev EXCEPT ![d] = r] /\ Starts(f, d, "disable", "drop", dev[d].key)
      BY <1>6 DEF Disable
    <2> HIDE DEF r
    <2> QED BY <1>2, <2>1, <2>2, PageKeeps, StartsSound, ElseStay DEF TInv
  <1> QED BY <1>3, <1>4, <1>5, <1>6

LEMMA ConfigStep ==
  ASSUME TInv, NEW f \in Flow, Config(f)
  PROVE  TInv'
  <1> DEFINE d == flow[f].dev
             lost == [dev[d] EXCEPT !.state = "unsupported"]
             row == [dev[d] EXCEPT !.ready = TRUE]
             off == [row EXCEPT !.state = IF row.allowed = "denied" THEN "denied" ELSE "off"]
             goes == [flow[f] EXCEPT !.step = IF dev[d].local = None THEN "ask" ELSE "post",
                                     !.as = dev[d].user, !.sub = dev[d].local]
  <1>1. At(f, "config") /\ UNCHANGED <<subs, rows, made>>
    BY DEF Config, server
  <1>2. d \in Device /\ dev[d] \in DevRow /\ flow[f] \in FlowRow
    BY <1>1 DEF TInv, Flows, Sound, Devs, At
  <1>3. /\ lost \in DevRow /\ lost.local = dev[d].local
        /\ row \in DevRow /\ row.local = dev[d].local
        /\ off \in DevRow /\ off.local = dev[d].local
    BY <1>2 DEF DevRow, State
  <1>4. goes \in FlowRow /\ goes.step \in {"ask", "post"} /\ goes.dev = d /\ goes.sub = dev[d].local
        /\ (goes.step = "post" => dev[d].local # None)
    BY <1>2 DEF FlowRow, Step, DevRow
  <1>5. Sound(goes)
    BY <1>2, <1>4 DEF Sound, Given, TInv, Locals, DevRow
  <1>6. made' \in Nat /\ made <= made'
    BY <1>1, BoundsAssumption DEF TInv, Locals
  <1>7. \/ Ends(f, d, lost)
        \/ EndsRefresh(f, d, off)
        \/ dev' = [dev EXCEPT ![d] = row] /\ flow' = [flow EXCEPT ![f] = goes]
    BY DEF Config
  <1>8. Registrations'
    BY <1>1, ElseStay
  <1>9. flow[f].step # "idle"
    BY <1>1 DEF At
  <1> HIDE DEF lost, row, off, goes
  <1>10. CASE Ends(f, d, lost) \/ EndsRefresh(f, d, off)
    BY <1>1, <1>3, <1>8, <1>9, <1>10, CallEnds DEF TInv
  <1>11. CASE dev' = [dev EXCEPT ![d] = row] /\ flow' = [flow EXCEPT ![f] = goes]
    <2> HIDE DEF d
    <2> QED BY <1>1, <1>2, <1>3, <1>4, <1>5, <1>6, <1>8, <1>11, CallGoes, PageKeeps DEF TInv
  <1> QED BY <1>7, <1>10, <1>11

LEMMA AskStep ==
  ASSUME TInv, NEW f \in Flow, Ask(f)
  PROVE  TInv'
  <1> DEFINE d == flow[f].dev
             old == dev[d].local
             sub == IF old = None THEN made + 1 ELSE old
             row == [dev[d] EXCEPT !.allowed = "granted", !.local = sub, !.drops = dev[d].listening]
             goes == [flow[f] EXCEPT !.step = "post", !.sub = sub, !.as = dev[d].user]
  <1>1. /\ At(f, "ask") /\ sub <= Endpoints
        /\ made' = IF old = None THEN made + 1 ELSE made
        /\ dev' = [dev EXCEPT ![d] = row] /\ flow' = [flow EXCEPT ![f] = goes]
        /\ UNCHANGED <<subs, rows>>
    BY DEF Ask, server
  <1>2. d \in Device /\ dev[d] \in DevRow /\ flow[f] \in FlowRow
    BY <1>1 DEF TInv, Flows, Sound, Devs, At
  <1>3. made \in Nat /\ Endpoints \in Nat /\ (old # None => old \in Endpoint /\ old <= made)
    BY <1>2, BoundsAssumption DEF TInv, Locals, DevRow
  <1>4. /\ made' \in 0 .. Endpoints /\ made <= made'
        /\ sub \in Endpoint /\ sub <= made'
    <2>1. CASE old = None
      BY <1>1, <1>3, <2>1 DEF Endpoint, TInv, Locals
    <2>2. CASE old # None
      BY <1>1, <1>3, <2>2 DEF Endpoint, TInv, Locals
    <2> QED BY <2>1, <2>2
  <1>5. \A x \in Device : dev[x].local = sub => x = d
    <2> SUFFICES ASSUME NEW x \in Device, dev[x].local = sub PROVE x = d
      OBVIOUS
    <2>1. sub # None
      BY <1>4, NoneAssumption, BoundsAssumption DEF Endpoint
    <2>2. sub <= made
      BY <2>1 DEF TInv, Locals
    <2>3. old # None
      BY <1>3, <2>2
    <2> QED BY <1>2, <2>1, <2>3 DEF TInv, Locals
  <1>6. row \in DevRow /\ row.local \in {None, sub}
    BY <1>2, <1>4 DEF DevRow
  <1>7. goes \in FlowRow /\ goes.step = "post" /\ goes.dev = d /\ goes.sub = sub
    BY <1>2, <1>4 DEF FlowRow, Step, DevRow
  <1> HIDE DEF row, goes, sub, old
  <1>8. Devs'
    BY <1>1, <1>2, <1>6 DEF TInv, Devs
  <1>9. \A x \in Device : dev'[x] = IF x = d THEN row ELSE dev[x]
    BY <1>1, <1>2 DEF TInv, Devs
  <1>10. Locals'
    <2>1. \A x \in Device : dev'[x].local # None => dev'[x].local <= made'
      <3>1. \A x \in Device : dev[x].local # None => dev[x].local \in Endpoint /\ dev[x].local <= made
        BY DEF TInv, Devs, DevRow, Locals
      <3> QED BY <1>3, <1>4, <1>6, <1>9, <3>1, BoundsAssumption DEF Endpoint
    <2>2. \A x, y \in Device : dev'[x].local # None /\ dev'[x].local = dev'[y].local => x = y
      BY <1>5, <1>6, <1>9 DEF TInv, Locals
    <2> QED BY <1>4, <2>1, <2>2 DEF Locals
  <1>11. Flows'
    <2>1. made' \in Nat
      BY <1>4, BoundsAssumption
    <2> QED BY <1>1, <1>2, <1>3, <1>4, <1>7, <2>1, CallPosts
  <1>12. Registrations'
    <2>1. \A e \in Endpoint : e <= made => e <= made'
      BY <1>3, <1>4, BoundsAssumption DEF Endpoint
    <2> QED BY <1>1, <2>1 DEF TInv, Registrations, RowSound, Live
  <1> QED BY <1>8, <1>10, <1>11, <1>12 DEF TInv

LEMMA DropOwnStep ==
  ASSUME TInv, NEW f \in Flow, DropOwn(f)
  PROVE  TInv'
  <1> DEFINE d == flow[f].dev
             sub == IF dev[d].local # None THEN dev[d].local ELSE flow[f].sub
             off == [dev[d] EXCEPT !.key = None, !.state = "off"]
             row == [dev[d] EXCEPT !.local = None, !.drops = FALSE]
             goes == [flow[f] EXCEPT !.step = "delete", !.sub = sub, !.as = dev[d].user]
  <1>1. flow[f].step = "drop" /\ UNCHANGED <<subs, rows, made>>
    BY DEF DropOwn, At, server
  <1>2. d \in Device /\ dev[d] \in DevRow /\ flow[f] \in FlowRow
    BY <1>1 DEF TInv, Flows, Sound, Devs
  <1>3. off \in DevRow /\ off.local = dev[d].local /\ row \in DevRow /\ row.local = None
    BY <1>2 DEF DevRow, State
  <1>4. goes \in FlowRow /\ goes.step = "delete" /\ goes.dev = d
    BY <1>2 DEF FlowRow, Step, DevRow
  <1>5. Sound(goes)
    BY <1>2, <1>4 DEF Sound
  <1>6. made' \in Nat /\ made <= made'
    BY <1>1, BoundsAssumption DEF TInv, Locals
  <1>7. \/ Ends(f, d, off)
        \/ dev' = [dev EXCEPT ![d] = row] /\ flow' = [flow EXCEPT ![f] = goes]
    BY DEF DropOwn
  <1>8. Registrations'
    BY <1>1, ElseStay
  <1> HIDE DEF off, row, goes, sub
  <1>9. CASE Ends(f, d, off)
    BY <1>1, <1>3, <1>8, <1>9, CallEnds DEF TInv
  <1>10. CASE dev' = [dev EXCEPT ![d] = row] /\ flow' = [flow EXCEPT ![f] = goes]
    <2> HIDE DEF d
    <2> QED BY <1>1, <1>2, <1>3, <1>4, <1>5, <1>6, <1>8, <1>10, CallGoes, PageKeeps DEF TInv
  <1> QED BY <1>7, <1>9, <1>10

LEMMA AnswerSteps ==
  ASSUME TInv, NEW f \in Flow,
         Refuse(f) \/ Registered(f) \/ Unregistered(f) \/ Unauthorized(f) \/ Disabled(f)
  PROVE  TInv'
  <1> DEFINE d == flow[f].dev
  <1>1. flow[f].step # "idle" /\ UNCHANGED <<subs, rows, made>>
    BY DEF Refuse, Registered, Unregistered, Unauthorized, Disabled, server, At
  <1>2. d \in Device /\ dev[d] \in DevRow /\ flow[f] \in FlowRow
    BY <1>1 DEF TInv, Flows, Sound, Devs
  <1>3. Registrations'
    BY <1>1, ElseStay
  <1>4. ASSUME NEW r \in DevRow, r.local \in {None, dev[d].local}, Ends(f, d, r) \/ EndsRefresh(f, d, r)
        PROVE  TInv'
    BY <1>1, <1>3, <1>4, CallEnds DEF TInv
  <1>5. ASSUME NEW r \in DevRow, r.local \in {None, dev[d].local}, Failed(f, r) PROVE TInv'
    <2> DEFINE x == [r EXCEPT !.state = IF flow[f].kind = "enable" /\ r.allowed = "denied" THEN "denied" ELSE "off"]
    <2>1. x \in DevRow /\ x.local = r.local
      BY DEF DevRow, State
    <2>2. EndsRefresh(f, d, x)
      BY <1>5 DEF Failed
    <2> HIDE DEF x
    <2> QED BY <1>4, <1>5, <2>1, <2>2
  <1>6. ASSUME flow' = [flow EXCEPT ![f] = Idle], UNCHANGED dev PROVE TInv'
    <2>1. Idle \in FlowRow /\ Sound(Idle) /\ made' \in Nat /\ made <= made'
      BY <1>1, BoundsAssumption DEF Idle, FlowRow, Step, Sound, TInv, Locals
    <2> QED BY <1>1, <1>3, <1>6, <2>1, CallGoes, ElseStay DEF TInv
  <1>7. CASE Refuse(f)
    <2> DEFINE r == [dev[d] EXCEPT !.allowed = "denied"]
    <2>1. r \in DevRow /\ r.local = dev[d].local /\ Failed(f, r)
      BY <1>2, <1>7 DEF DevRow, Refuse
    <2> HIDE DEF r
    <2> QED BY <1>5, <2>1
  <1>8. CASE Registered(f)
    <2> DEFINE r == [dev[d] EXCEPT !.key = flow[f].sub, !.state = IF flow[f].kind = "both" THEN @ ELSE "on"]
    <2>1. r \in DevRow /\ r.local = dev[d].local
      BY <1>2, ZenonT(40) DEF DevRow, FlowRow, State
    <2>2. EndsRefresh(f, d, r) \/ (flow' = [flow EXCEPT ![f] = Idle] /\ UNCHANGED dev)
      BY <1>8 DEF Registered
    <2> HIDE DEF r
    <2> QED BY <1>4, <1>6, <2>1, <2>2
  <1>9. CASE Unregistered(f)
    <2>1. Failed(f, dev[d]) \/ (flow' = [flow EXCEPT ![f] = Idle] /\ UNCHANGED dev)
      BY <1>9 DEF Unregistered
    <2> QED BY <1>2, <1>5, <1>6, <2>1
  <1>10. CASE Unauthorized(f)
    <2> DEFINE r == [Detached(dev[d]) EXCEPT !.user = None]
               x == [r EXCEPT !.state = "off"]
    <2>1. r \in DevRow /\ r.local = dev[d].local
      BY <1>2, DetachedRow
    <2>2. Failed(f, r) \/ Ends(f, d, x) \/ (flow' = [flow EXCEPT ![f] = Idle] /\ UNCHANGED dev)
      BY <1>10 DEF Unauthorized
    <2> HIDE DEF r
    <2>3. x \in DevRow /\ x.local = dev[d].local
      BY <2>1 DEF DevRow, State
    <2> HIDE DEF x
    <2> QED BY <1>4, <1>5, <1>6, <2>1, <2>2, <2>3
  <1>11. CASE Disabled(f)
    <2> DEFINE r == [dev[d] EXCEPT !.key = None, !.state = "off"]
    <2>1. r \in DevRow /\ r.local = dev[d].local
      BY <1>2 DEF DevRow, State
    <2>2. Ends(f, d, r) \/ (flow' = [flow EXCEPT ![f] = Idle] /\ UNCHANGED dev)
      BY <1>11 DEF Disabled
    <2> HIDE DEF r
    <2> QED BY <1>4, <1>6, <2>1, <2>2
  <1> QED BY <1>7, <1>8, <1>9, <1>10, <1>11

LEMMA DeviceSteps ==
  ASSUME TInv, NEW d \in Device,
         Logout(d) \/ Drop(d) \/ Reload(d) \/ Browser(d) \/ \E u \in Person : SignIn(d, u)
  PROVE  TInv'
  <1>1. UNCHANGED <<subs, rows, made>>
    BY DEF Logout, Drop, Reload, Browser, SignIn, server
  <1>2. dev[d] \in DevRow
    BY DEF TInv, Devs
  <1>3. ASSUME NEW r \in DevRow, r.local \in {None, dev[d].local}, dev' = [dev EXCEPT ![d] = r], UNCHANGED flow
        PROVE  TInv'
    BY <1>1, <1>3, PageKeeps, ElseStay DEF TInv
  <1>4. CASE Logout(d)
    <2> DEFINE r == [Detached(dev[d]) EXCEPT !.user = None]
    <2>1. r \in DevRow /\ r.local \in {None, dev[d].local}
      BY <1>2, DetachedRow
    <2>2. dev' = [dev EXCEPT ![d] = r] /\ UNCHANGED flow
      BY <1>4 DEF Logout
    <2> HIDE DEF r
    <2> QED BY <1>3, <2>1, <2>2
  <1>5. CASE Reload(d)
    <2> DEFINE r == Loaded(dev[d])
               out(f) == [flow[f] EXCEPT !.page = FALSE]
    <2>1. r \in DevRow /\ r.local = dev[d].local
      BY <1>2 DEF Loaded, DevRow, State
    <2>2. dev' = [dev EXCEPT ![d] = r]
      BY <1>5 DEF Reload
    <2>3. /\ DOMAIN flow' = Flow
          /\ \A f \in Flow : flow'[f] \in {flow[f], out(f), Idle}
          /\ flow' = [f \in Flow |-> flow'[f]]
      BY <1>5 DEF Reload
    <2>4. \A f \in Flow : flow[f] \in FlowRow /\ Sound(flow[f])
      BY DEF TInv, Flows
    <2>5. \A f \in Flow : out(f) \in FlowRow /\ Sound(out(f))
      BY <2>4 DEF FlowRow, Sound
    <2>6. Idle \in FlowRow /\ Sound(Idle)
      BY DEF Idle, FlowRow, Step, Sound
    <2> HIDE DEF r, out
    <2>7. flow' \in [Flow -> FlowRow] /\ \A f \in Flow : Sound(flow'[f])
      BY <2>3, <2>4, <2>5, <2>6
    <2>8. Flows'
      BY <1>1, <2>7 DEF Flows, Sound, Given
    <2> QED BY <1>1, <2>1, <2>2, <2>8, PageKeeps, ElseStay DEF TInv
  <1>6. CASE Browser(d)
    <2>1. PICK p \in {"default", "granted", "denied"} :
             dev' = [dev EXCEPT ![d].local = None, ![d].drops = FALSE, ![d].allowed = p]
      BY <1>6 DEF Browser
    <2> DEFINE r == [dev[d] EXCEPT !.local = None, !.drops = FALSE, !.allowed = p]
    <2>2. r \in DevRow /\ r.local = None
      BY <1>2 DEF DevRow
    <2>3. dev' = [dev EXCEPT ![d] = r] /\ UNCHANGED flow
      BY <1>6, <2>1 DEF Browser
    <2> HIDE DEF r
    <2> QED BY <1>3, <2>2, <2>3
  <1>7. ASSUME NEW u \in Person, SignIn(d, u) PROVE TInv'
    <2> DEFINE r == [dev[d] EXCEPT !.user = u]
    <2>1. r \in DevRow /\ r.local = dev[d].local
      BY <1>2 DEF DevRow
    <2>2. dev' = [dev EXCEPT ![d] = r] /\ UNCHANGED flow
      BY <1>7 DEF SignIn
    <2> HIDE DEF r
    <2> QED BY <1>3, <2>1, <2>2
  <1>8. CASE Drop(d)
    <2> DEFINE r == [dev[d] EXCEPT !.drops = FALSE]
               x == [dev[d] EXCEPT !.drops = FALSE, !.local = None]
    <2>1. r \in DevRow /\ r.local = dev[d].local /\ x \in DevRow /\ x.local = None
      BY <1>2 DEF DevRow
    <2>2. (dev' = [dev EXCEPT ![d] = r] \/ dev' = [dev EXCEPT ![d] = x]) /\ UNCHANGED flow
      BY <1>8 DEF Drop
    <2> HIDE DEF r, x
    <2> QED BY <1>3, <2>1, <2>2
  <1> QED BY <1>4, <1>5, <1>6, <1>7, <1>8

LEMMA UpsertStep ==
  ASSUME TInv, NEW f \in Flow, Upsert(f)
  PROVE  TInv'
  <1> DEFINE e == flow[f].sub
             new == [id |-> IF Live(e) THEN subs[e].id ELSE rows + 1, user |-> flow[f].as, failures |-> 0]
             goes == [flow[f] EXCEPT !.step = "upserted"]
  <1>1. /\ At(f, "post") /\ flow[f].as # None /\ (Live(e) \/ rows < Rows)
        /\ subs' = [subs EXCEPT ![e] = new]
        /\ rows' = IF Live(e) THEN rows ELSE rows + 1
        /\ flow' = [flow EXCEPT ![f] = goes]
        /\ UNCHANGED <<dev, made>>
    BY DEF Upsert
  <1>2. flow[f] \in FlowRow /\ Sound(flow[f]) /\ flow[f].step = "post"
    BY <1>1 DEF TInv, Flows, At
  <1>3. e \in Endpoint /\ e <= made /\ flow[f].as \in Person
    BY <1>1, <1>2 DEF Sound, Given, FlowRow
  <1>4. goes \in FlowRow /\ Sound(goes)
    BY <1>2, <1>3 DEF FlowRow, Step, Sound
  <1>5. /\ rows \in Nat /\ Rows \in Nat /\ rows <= Rows
        /\ \A x \in Endpoint : subs[x].id \in Nat
        /\ \A x \in Endpoint : Live(x) => subs[x].id <= rows
    BY BoundsAssumption DEF TInv, Registrations, SubRow, RowSound
  <1>6. new \in SubRow /\ new.id # 0 /\ new.id <= rows' /\ rows' \in 0 .. Rows /\ rows <= rows'
    BY <1>1, <1>3, <1>5, LimitsAssumption DEF SubRow, Live
  <1>7. new.user = flow[f].as /\ new.id = (IF Live(e) THEN subs[e].id ELSE rows + 1)
    OBVIOUS
  <1>8. made' \in Nat /\ made <= made'
    BY <1>1, BoundsAssumption DEF TInv, Locals
  <1> HIDE DEF new, goes, e
  <1>9. \A x \in Endpoint : subs'[x] = IF x = e THEN new ELSE subs[x]
    BY <1>1 DEF TInv, Registrations
  <1>10. Registrations'
    <2>1. subs' \in [Endpoint -> SubRow]
      BY <1>1, <1>6 DEF TInv, Registrations
    <2>2. \A x \in Endpoint : RowSound(x)'
      BY <1>1, <1>3, <1>5, <1>6, <1>7, <1>9 DEF TInv, Registrations, RowSound, Live
    <2>3. \A x, o \in Endpoint : Live(x)' /\ subs'[x].id = subs'[o].id => x = o
      <3>1. \A x \in Endpoint : subs[x].id # rows + 1
        BY <1>5 DEF Live
      <3>2. \A x \in Endpoint : x # e => subs[x].id # new.id
        <4>1. CASE Live(e)
          BY <1>3, <1>7, <4>1 DEF TInv, Registrations
        <4>2. CASE ~Live(e)
          BY <1>7, <3>1, <4>2
        <4> QED BY <4>1, <4>2
      <3> QED BY <1>9, <3>2 DEF TInv, Registrations, Live
    <2> QED BY <1>6, <2>1, <2>2, <2>3 DEF Registrations
  <1>11. Flows'
    BY <1>1, <1>4, <1>8, CallGoes
  <1> QED BY <1>1, <1>10, <1>11, ElseStay DEF TInv

LEMMA ServerSteps ==
  ASSUME TInv, NEW f \in Flow, Prune(f) \/ Lost(f) \/ Unsubscribe(f)
  PROVE  TInv'
  <1>1. PICK step \in {"done", "failed", "deleted"} : flow' = [flow EXCEPT ![f].step = step]
    BY DEF Prune, Lost, Unsubscribe
  <1>2. flow[f].step \in {"post", "upserted", "done", "delete"} /\ (step = "done" => flow[f].step = "upserted")
    <2>1. CASE Prune(f)
      BY <2>1 DEF Prune, At
    <2>2. CASE Lost(f)
      <3>1. flow' = [flow EXCEPT ![f].step = "failed"] /\ flow[f].step \in {"post", "done"}
        BY <2>2 DEF Lost
      <3>2. step = "failed"
        BY <1>1, <3>1 DEF TInv, Flows, FlowRow
      <3> QED BY <3>1, <3>2
    <2>3. CASE Unsubscribe(f)
      <3>1. flow' = [flow EXCEPT ![f].step = "deleted"] /\ flow[f].step = "delete"
        BY <2>3 DEF Unsubscribe, At
      <3>2. step = "deleted"
        BY <1>1, <3>1 DEF TInv, Flows, FlowRow
      <3> QED BY <3>1, <3>2
    <2> QED BY <2>1, <2>2, <2>3
  <1>3. UNCHANGED <<dev, made, rows>> /\ (UNCHANGED subs \/ \E E : subs' = Without(E))
    BY DEF Prune, Lost, Unsubscribe, server
  <1> DEFINE goes == [flow[f] EXCEPT !.step = step]
  <1>4. flow[f] \in FlowRow /\ Sound(flow[f])
    BY DEF TInv, Flows
  <1>5. goes \in FlowRow /\ Sound(goes)
    BY <1>2, <1>4 DEF FlowRow, Step, Sound
  <1>6. made' \in Nat /\ made <= made'
    BY <1>3, BoundsAssumption DEF TInv, Locals
  <1>7. flow' = [flow EXCEPT ![f] = goes]
    BY <1>1
  <1> HIDE DEF goes
  <1> QED BY <1>3, <1>5, <1>6, <1>7, CallGoes, RowsGo, ElseStay DEF TInv

LEMMA RecordKeeps ==
  ASSUME TInv, NEW E, NEW n \in 0 .. MaxFailures - 1, UNCHANGED <<dev, flow, made, rows>>,
         subs' = [e \in Endpoint |-> IF e \in E THEN [subs[e] EXCEPT !.failures = n] ELSE subs[e]],
         \A e \in Endpoint : e \in E => Live(e)
  PROVE  TInv'
  <1> DEFINE with(e) == [subs[e] EXCEPT !.failures = n]
  <1>1. \A e \in Endpoint : /\ subs[e] \in SubRow /\ with(e) \in SubRow
                            /\ with(e).id = subs[e].id /\ with(e).user = subs[e].user
    BY DEF TInv, Registrations, SubRow
  <1>2. \A e \in Endpoint : subs'[e] = IF e \in E THEN with(e) ELSE subs[e]
    OBVIOUS
  <1> HIDE DEF with
  <1>3. subs' \in [Endpoint -> SubRow]
    BY <1>1, <1>2
  <1>4. Registrations'
    BY <1>1, <1>2, <1>3 DEF TInv, Registrations, RowSound, Live, NoRow
  <1> QED BY <1>4, ElseStay DEF TInv

-----------------------------------------------------------------------------
(* Failures.  A message counts from the row it was read from: a failure is *)
(* counted once it is known, so the row never counts more than there were. *)
(* A message that is alone is the only one to its row, which still counts   *)
(* what the message read, unless a registration has cleared it (Lone).      *)
SendRow == [step: {"idle", "send", "ok", "fail", "gone"}, sub: Endpoint \cup {None}, row: SubRow,
            alone: BOOLEAN]

Counting(s) ==
    s.step # "idle" =>
        /\ s.row.id \in 1 .. rows
        /\ s.step \in {"send", "ok"} => s.row.failures <= failed[s.row.id]
        /\ s.step \in {"fail", "gone"} =>
             s.row.failures + 1 <= failed[s.row.id] \/ failed[s.row.id] = MaxFailures

Lone(m) ==
    sends[m].step # "idle" /\ sends[m].alone =>
        /\ \A x \in Message : x # m /\ sends[x].step # "idle" => sends[x].row.id # sends[m].row.id
        /\ \A e \in Endpoint : Live(e) /\ subs[e].id = sends[m].row.id
                                 => subs[e].failures \in {0, sends[m].row.failures}

Counted ==
    /\ failed \in [1 .. Rows -> 0 .. MaxFailures]
    /\ \A e \in Endpoint : Live(e) => subs[e].failures <= failed[subs[e].id]
    /\ sends \in [Message -> SendRow]
    /\ \A m \in Message : Counting(sends[m]) /\ Lone(m)

LEMMA CountedIsRight == TInv /\ Counted => FailuresCounted
  <1> SUFFICES ASSUME Counted, NEW m \in Message, sends[m].step = "fail", Dropped(sends[m])
               PROVE  failed[sends[m].row.id] = MaxFailures
    BY DEF Counted, FailuresCounted
  <1> DEFINE s == sends[m]
  <1>1. s \in SendRow /\ Counting(s)
    BY DEF Counted
  <1>2. s.row.failures \in Nat /\ s.row.failures + 1 >= MaxFailures
    BY <1>1, LimitsAssumption DEF SendRow, SubRow, Dropped
  <1>3. rows \in Nat => failed[s.row.id] \in 0 .. MaxFailures \/ s.row.id \notin 1 .. Rows
    BY DEF Counted
  <1>4. s.row.id \in 0 .. Rows /\ s.row.id # 0
    BY <1>1 DEF SendRow, SubRow, Counting
  <1>5. failed[s.row.id] \in 0 .. MaxFailures
    BY <1>4, BoundsAssumption DEF Counted
  <1> QED BY <1>1, <1>2, <1>5, LimitsAssumption DEF Counting

LEMMA InitCounted == Init => Counted
  <1> SUFFICES ASSUME Init PROVE Counted
    OBVIOUS
  <1>1. NoSend \in SendRow /\ NoSend.step = "idle"
    BY LimitsAssumption, BoundsAssumption DEF NoSend, NoRow, SendRow, SubRow
  <1> QED BY <1>1, LimitsAssumption, BoundsAssumption DEF Init, Counted, Counting, Lone, Live, NoRow

(* Rows that go, that keep their counts, or that are registered anew. *)
LEMMA CountsStay ==
  ASSUME TInv, Counted, UNCHANGED <<sends, failed>>, rows' \in Nat, rows <= rows',
         \A e \in Endpoint : Live(e)' => subs'[e] = subs[e] \/ (subs'[e].failures = 0 /\ subs'[e].id \in 1 .. Rows)
  PROVE  Counted'
  <1>1. \A e \in Endpoint : Live(e)' => subs'[e].failures <= failed[subs'[e].id]
    <2> SUFFICES ASSUME NEW e \in Endpoint, Live(e)' PROVE subs'[e].failures <= failed[subs'[e].id]
      OBVIOUS
    <2>1. CASE subs'[e] = subs[e]
      BY <2>1 DEF Counted, Live
    <2>2. CASE subs'[e].failures = 0 /\ subs'[e].id \in 1 .. Rows
      BY <2>2, LimitsAssumption DEF Counted
    <2> QED BY <2>1, <2>2
  <1>2. \A i : i \in 1 .. rows => i \in 1 .. rows'
    BY BoundsAssumption DEF TInv, Registrations
  <1>3. \A m \in Message : Counting(sends[m])'
    BY <1>2 DEF Counted, Counting
  <1>4. \A m \in Message : Lone(m)'
    BY DEF Counted, Lone, Live
  <1> QED BY <1>1, <1>3, <1>4 DEF Counted

LEMMA BeginCounts ==
  ASSUME TInv, Counted, NEW m \in Message, NEW e \in Endpoint, BeginDeliver(m, e)
  PROVE  Counted'
  <1> DEFINE id == subs[e].id
             s == [step |-> "send", sub |-> e, row |-> subs[e], alone |-> To(id) = {}]
             heard(x) == [sends[x] EXCEPT !.alone = FALSE]
  <1>1. /\ Live(e) /\ sends[m] = NoSend /\ UNCHANGED <<subs, rows, failed>>
        /\ sends' = [x \in Message |-> IF x = m THEN s ELSE IF x \in To(id) THEN heard(x) ELSE sends[x]]
    BY DEF BeginDeliver
  <1>2. /\ subs[e] \in SubRow /\ id # 0 /\ id <= rows /\ rows \in Nat /\ subs[e].failures <= failed[id]
        /\ subs[e].failures \in Nat
    BY <1>1, LimitsAssumption, BoundsAssumption DEF TInv, Registrations, RowSound, Live, Counted, SubRow
  <1>3. s \in SendRow /\ s.step = "send" /\ s.row = subs[e] /\ (s.alone => To(id) = {})
    BY <1>2 DEF SendRow
  <1>4. Counting(s)
    <2>1. id \in 1 .. rows
      BY <1>2, BoundsAssumption DEF SubRow
    <2> QED BY <1>2, <1>3, <2>1 DEF Counting
  <1>5. \A x \in Message : /\ sends[x] \in SendRow /\ heard(x) \in SendRow /\ ~heard(x).alone
                           /\ heard(x).step = sends[x].step /\ heard(x).row = sends[x].row
    BY DEF Counted, SendRow
  <1> HIDE DEF s, heard
  <1>6. sends' \in [Message -> SendRow]
    BY <1>1, <1>3, <1>5
  <1>7. /\ sends'[m] = s
        /\ \A x \in Message \ {m} :
              /\ sends'[x].step = sends[x].step /\ sends'[x].row = sends[x].row
              /\ sends'[x].alone => sends[x].alone /\ x \notin To(id)
    BY <1>1, <1>5
  <1>8. \A x \in Message : Counting(sends[x])'
    <2> SUFFICES ASSUME NEW x \in Message PROVE Counting(sends[x])'
      OBVIOUS
    <2>1. CASE x = m
      BY <1>1, <1>4, <1>7, <2>1 DEF Counting
    <2>2. CASE x # m
      BY <1>1, <1>7, <2>2 DEF Counting, Counted
    <2> QED BY <2>1, <2>2
  <1>9. \A x \in Message : Lone(x)'
    <2> SUFFICES ASSUME NEW x \in Message, sends'[x].step # "idle", sends'[x].alone
                 PROVE  /\ \A y \in Message : y # x /\ sends'[y].step # "idle" => sends'[y].row.id # sends'[x].row.id
                        /\ \A o \in Endpoint : Live(o) /\ subs[o].id = sends'[x].row.id
                                                 => subs[o].failures \in {0, sends'[x].row.failures}
      BY <1>1 DEF Lone, Live
    <2>1. CASE x = m
      <3>1. To(id) = {} /\ sends'[x].row = subs[e]
        BY <1>3, <1>7, <2>1
      <3>2. \A y \in Message : y # x /\ sends'[y].step # "idle" => sends'[y].row.id # sends'[x].row.id
        BY <1>7, <2>1, <3>1 DEF To
      <3>3. \A o \in Endpoint : Live(o) /\ subs[o].id = id => o = e
        BY DEF TInv, Registrations
      <3> QED BY <3>1, <3>2, <3>3
    <2>2. CASE x # m
      <3>1. /\ sends[x].step # "idle" /\ sends[x].alone /\ sends[x].row.id # id /\ sends'[x].row = sends[x].row
            /\ Lone(x)
        BY <1>7, <2>2 DEF To, Counted
      <3>2. \A y \in Message : y # x /\ sends'[y].step # "idle" => sends'[y].row.id # sends'[x].row.id
        BY <1>3, <1>7, <3>1 DEF Lone
      <3> QED BY <3>1, <3>2 DEF Lone
    <2> QED BY <2>1, <2>2
  <1> QED BY <1>1, <1>6, <1>8, <1>9 DEF Counted, Live

LEMMA SendCounts ==
  ASSUME TInv, Counted, NEW m \in Message, NEW o \in {"ok", "fail", "gone"}, Send(m, o)
  PROVE  Counted'
  <1> DEFINE s == sends[m]
             id == s.row.id
             n == [s EXCEPT !.step = o]
  <1>1. /\ s.step = "send" /\ sends' = [sends EXCEPT ![m] = n] /\ UNCHANGED <<subs, rows>>
        /\ failed' = IF o = "ok" \/ failed[id] = MaxFailures THEN failed ELSE [failed EXCEPT ![id] = failed[id] + 1]
    BY DEF Send
  <1>2. s \in SendRow /\ Counting(s)
    BY DEF Counted
  <1>3. /\ id \in 1 .. Rows /\ id \in 1 .. rows /\ s.row.failures <= failed[id] /\ s.row.failures \in Nat
        /\ failed[id] \in 0 .. MaxFailures
    <2>1. id \in 1 .. rows /\ s.row.failures <= failed[id]
      BY <1>1, <1>2 DEF Counting
    <2>2. s.row.failures \in Nat /\ id \in 1 .. Rows
      BY <1>2, <2>1, LimitsAssumption, BoundsAssumption DEF SendRow, SubRow, TInv, Registrations
    <2> QED BY <2>1, <2>2 DEF Counted
  <1>4. n \in SendRow /\ n.step = o /\ n.row = s.row /\ n.alone = s.alone
    BY <1>2 DEF SendRow
  <1> HIDE DEF n
  <1>5. /\ failed' \in [1 .. Rows -> 0 .. MaxFailures]
        /\ \A i \in 1 .. Rows : failed[i] <= failed'[i]
        /\ \A i \in 1 .. Rows : failed[i] = MaxFailures => failed'[i] = MaxFailures
        /\ o # "ok" => failed'[id] = MaxFailures \/ failed'[id] = failed[id] + 1
    BY <1>1, <1>3, LimitsAssumption, BoundsAssumption, SMTT(30) DEF Counted
  <1>6. sends' \in [Message -> SendRow] /\ \A x \in Message : sends'[x] = IF x = m THEN n ELSE sends[x]
    BY <1>1, <1>4 DEF Counted
  <1>7. \A x \in Message : Counting(sends[x])'
    <2> SUFFICES ASSUME NEW x \in Message PROVE Counting(sends[x])'
      OBVIOUS
    <2>1. CASE x = m
      BY <1>1, <1>3, <1>4, <1>5, <1>6, <2>1, LimitsAssumption, SMTT(30) DEF Counting
    <2>2. CASE x # m
      <3>1. sends'[x] = sends[x] /\ sends[x] \in SendRow /\ Counting(sends[x])
        BY <1>6, <2>2 DEF Counted
      <3>2. CASE sends[x].step = "idle"
        BY <3>1, <3>2 DEF Counting
      <3>3. CASE sends[x].step # "idle"
        <4>1. sends[x].row.id \in 1 .. Rows /\ sends[x].row.failures \in Nat
          BY <3>1, <3>3, LimitsAssumption, BoundsAssumption DEF Counting, SendRow, SubRow, TInv, Registrations
        <4>2. /\ failed[sends[x].row.id] \in Nat /\ failed'[sends[x].row.id] \in Nat
              /\ failed[sends[x].row.id] <= failed'[sends[x].row.id]
              /\ failed[sends[x].row.id] = MaxFailures => failed'[sends[x].row.id] = MaxFailures
          BY <1>5, <4>1, LimitsAssumption DEF Counted
        <4> QED BY <1>1, <3>1, <3>3, <4>1, <4>2, LimitsAssumption DEF Counting
      <3> QED BY <3>2, <3>3
    <2> QED BY <2>1, <2>2
  <1>8. \A e \in Endpoint : (Live(e) => subs[e].failures <= failed[subs[e].id])'
    <2> SUFFICES ASSUME NEW e \in Endpoint, Live(e) PROVE subs[e].failures <= failed'[subs[e].id]
      BY <1>1 DEF Live
    <2>1. subs[e].id \in 1 .. Rows /\ subs[e].failures \in Nat /\ subs[e].failures <= failed[subs[e].id]
      BY LimitsAssumption, BoundsAssumption DEF TInv, Registrations, SubRow, Live, Counted
    <2>2. failed[subs[e].id] \in Nat /\ failed'[subs[e].id] \in Nat
      BY <1>5, <2>1, LimitsAssumption DEF Counted
    <2> QED BY <1>5, <2>1, <2>2
  <1>9. \A x \in Message : Lone(x)'
    <2>1. \A x \in Message : /\ sends'[x].row = sends[x].row /\ sends'[x].alone = sends[x].alone
                             /\ sends'[x].step # "idle" <=> sends[x].step # "idle"
      BY <1>1, <1>4, <1>6
    <2> QED BY <1>1, <2>1 DEF Counted, Lone, Live
  <1> QED BY <1>5, <1>6, <1>7, <1>8, <1>9 DEF Counted

(* What follows from a message: its registration goes, or counts what there was. *)
LEMMA RecordSteps ==
  ASSUME TInv, Counted, NEW m \in Message, Record(m)
  PROVE  TInv' /\ Counted'
  <1> DEFINE s == sends[m]
             id == s.row.id
             reset == s.step = "ok" /\ s.alone
  <1>1. s.step \in {"ok", "fail", "gone"} /\ sends' = [sends EXCEPT ![m] = NoSend]
        /\ failed' = (IF reset THEN [failed EXCEPT ![id] = 0] ELSE failed)
        /\ UNCHANGED <<dev, flow, made, rows>>
    BY DEF Record
  <1>2. s \in SendRow /\ Counting(s) /\ Lone(m)
    BY DEF Counted
  <1>3. id \in 1 .. Rows /\ id # 0 /\ s.row.failures \in Nat
    BY <1>1, <1>2, LimitsAssumption, BoundsAssumption DEF Counting, SendRow, SubRow, TInv, Registrations
  <1>4. NoSend \in SendRow /\ NoSend.step = "idle"
    BY LimitsAssumption, BoundsAssumption DEF NoSend, NoRow, SendRow, SubRow
  <1>5. /\ sends' \in [Message -> SendRow] /\ sends'[m] = NoSend
        /\ \A x \in Message \ {m} : sends'[x] = sends[x]
    BY <1>1, <1>4 DEF Counted
  <1>6. /\ failed' \in [1 .. Rows -> 0 .. MaxFailures]
        /\ \A i \in 1 .. Rows : failed'[i] = IF reset /\ i = id THEN 0 ELSE failed[i]
    BY <1>1, <1>3, LimitsAssumption DEF Counted
  <1> HIDE DEF s, id, reset
  <1>7. \A x \in Message : Counting(sends[x])'
    <2> SUFFICES ASSUME NEW x \in Message PROVE Counting(sends[x])'
      OBVIOUS
    <2>1. CASE x = m \/ sends[x].step = "idle"
      BY <1>4, <1>5, <2>1 DEF Counting
    <2>2. CASE x # m /\ sends[x].step # "idle"
      <3>1. sends'[x] = sends[x] /\ sends[x] \in SendRow /\ Counting(sends[x])
        BY <1>5, <2>2 DEF Counted
      <3>2. sends[x].row.id \in 1 .. Rows
        BY <2>2, <3>1, BoundsAssumption DEF Counting, SendRow, SubRow
      <3>3. reset => sends[x].row.id # id
        BY <1>1, <1>2, <2>2 DEF reset, s, id, Lone
      <3>4. failed'[sends[x].row.id] = failed[sends[x].row.id]
        BY <1>6, <3>2, <3>3
      <3> QED BY <1>1, <3>1, <3>4 DEF Counting
    <2> QED BY <2>1, <2>2
  (* Every way to write leaves other registrations alone. *)
  <1>8. ASSUME \A e \in Endpoint : Live(e)' =>
                  /\ Live(e) /\ subs'[e].id = subs[e].id
                  /\ subs[e].id # id => subs'[e] = subs[e]
                  /\ subs[e].id = id => /\ subs'[e].failures <= failed[id]
                                        /\ reset => subs'[e].failures = 0
        PROVE  Counted'
    <2>1. \A e \in Endpoint : (Live(e) => subs[e].failures <= failed[subs[e].id])'
      <3> SUFFICES ASSUME NEW e \in Endpoint, Live(e)' PROVE subs'[e].failures <= failed'[subs'[e].id]
        BY DEF Live
      <3>1. /\ Live(e) /\ subs'[e].id = subs[e].id /\ subs[e].failures <= failed[subs[e].id]
            /\ subs[e].id # id => subs'[e] = subs[e]
            /\ subs[e].id = id => subs'[e].failures <= failed[id] /\ (reset => subs'[e].failures = 0)
        BY <1>8 DEF Counted
      <3>2. subs[e].id \in 1 .. Rows
        BY <3>1, BoundsAssumption DEF TInv, Registrations, SubRow, Live
      <3>3. failed'[subs[e].id] = IF reset /\ subs[e].id = id THEN 0 ELSE failed[subs[e].id]
        BY <1>6, <3>2
      <3> QED BY <3>1, <3>3
    <2>2. \A x \in Message : Lone(x)'
      <3> SUFFICES ASSUME NEW x \in Message, sends'[x].step # "idle", sends'[x].alone
                   PROVE  /\ \A y \in Message : y # x /\ sends'[y].step # "idle" => sends'[y].row.id # sends'[x].row.id
                          /\ \A o \in Endpoint : Live(o)' /\ subs'[o].id = sends'[x].row.id
                                                   => subs'[o].failures \in {0, sends'[x].row.failures}
        BY DEF Lone, Live
      <3>1. x # m /\ sends'[x] = sends[x] /\ Lone(x)
        BY <1>4, <1>5 DEF Counted
      <3>2. id # sends[x].row.id
        BY <1>1, <3>1 DEF Lone, s, id
      <3>3. \A y \in Message : y # x /\ sends'[y].step # "idle" => sends'[y].row.id # sends'[x].row.id
        BY <1>4, <1>5, <3>1 DEF Lone
      <3> QED BY <1>8, <3>1, <3>2, <3>3 DEF Lone
    <2> QED BY <1>5, <1>6, <1>7, <2>1, <2>2 DEF Counted
  <1>9. CASE s.step = "ok" /\ s.row.failures = 0 /\ UNCHANGED subs
    <2>1. \A e \in Endpoint : subs[e].id = id /\ Live(e) => subs[e].failures <= failed[id]
      BY DEF Counted
    <2>2. \A e \in Endpoint : subs[e].id = id /\ Live(e) /\ reset => subs[e].failures = 0
      BY <1>2, <1>9 DEF Lone, s, id, reset
    <2>3. Counted'
      BY <1>8, <1>9, <2>1, <2>2 DEF Live
    <2> QED BY <1>1, <1>9, <2>3, ElseStay DEF TInv
  <1>10. CASE Dropped(s) /\ subs' = Without(Found(s))
    <2>1. TInv'
      BY <1>1, <1>10, RowsGo, ElseStay DEF TInv
    <2>2. \A e \in Endpoint : Live(e)' => subs'[e] = subs[e] /\ Live(e) /\ subs[e].id # id
      BY <1>10 DEF Without, Live, NoRow, Found, id
    <2> QED BY <1>8, <2>1, <2>2
  <1>11. CASE /\ ~Dropped(s)
              /\ subs' = [e \in Endpoint |-> IF e \in Found(s) THEN [subs[e] EXCEPT !.failures = Count(s)] ELSE subs[e]]
    <2> DEFINE count == Count(s)
    <2>1. count \in 0 .. MaxFailures - 1 /\ (reset => count = 0)
      BY <1>1, <1>3, <1>11, LimitsAssumption DEF Dropped, Count, reset
    <2>2. count <= failed[id]
      <3>1. failed[id] \in 0 .. MaxFailures
        BY <1>3 DEF Counted
      <3> QED BY <1>1, <1>2, <1>3, <2>1, <3>1, LimitsAssumption DEF Counting, Count, id
    <2>3. \A e \in Endpoint : e \in Found(s) => Live(e) /\ subs[e].id = id
      BY <1>3 DEF Found, Live, id
    <2>4. \A e \in Endpoint : e \notin Found(s) => subs[e].id # id
      BY DEF Found, id
    <2> HIDE DEF count
    <2>5. subs' = [e \in Endpoint |-> IF e \in Found(s) THEN [subs[e] EXCEPT !.failures = count] ELSE subs[e]]
      BY <1>11 DEF count
    <2>6. TInv'
      BY <1>1, <2>1, <2>3, <2>5, RecordKeeps
    <2>7. \A e \in Endpoint : /\ subs'[e].id = subs[e].id
                              /\ e \notin Found(s) => subs'[e] = subs[e]
                              /\ e \in Found(s) => subs'[e].failures = count
      BY <2>5 DEF TInv, Registrations, SubRow
    <2>8. Counted'
      BY <1>8, <2>1, <2>2, <2>3, <2>4, <2>7 DEF Live
    <2> QED BY <2>6, <2>8
  <1> QED BY <1>9, <1>10, <1>11 DEF Record, s

LEMMA StepHolds == TInv /\ Counted /\ [Next]_vars => (TInv /\ Counted)'
  <1> SUFFICES ASSUME TInv, Counted, [Next]_vars PROVE TInv' /\ Counted'
    OBVIOUS
  <1>1. rows \in Nat
    BY BoundsAssumption DEF TInv, Registrations
  <1>2. ASSUME UNCHANGED server PROVE Counted'
    <2>1. rows' \in Nat /\ rows <= rows' /\ UNCHANGED <<subs, sends, failed>>
      BY <1>1, <1>2 DEF server
    <2> QED BY <2>1, CountsStay
  <1>3. ASSUME NEW E, subs' = Without(E) \/ UNCHANGED subs, UNCHANGED <<sends, rows, failed>> PROVE Counted'
    <2>1. \A e \in Endpoint : subs'[e] = subs[e] \/ subs'[e] = NoRow
      BY <1>3 DEF Without
    <2>2. \A e \in Endpoint : Live(e)' => subs'[e] = subs[e]
      BY <2>1 DEF Live, NoRow
    <2>3. rows' \in Nat /\ rows <= rows'
      BY <1>1, <1>3
    <2> QED BY <1>3, <2>2, <2>3, CountsStay
  <1>4. ASSUME NEW f \in Flow, NEW d \in Device, Renew(f, d) \/ Settings(f, d) \/ Enable(f, d) \/ Disable(f, d)
        PROVE  TInv' /\ Counted'
    <2>1. UNCHANGED server
      BY <1>4 DEF Renew, Settings, Enable, Disable
    <2> QED BY <1>2, <1>4, <2>1, PageSteps
  <1>5. ASSUME NEW f \in Flow,
               \/ DropOwn(f) \/ Config(f) \/ Ask(f)
               \/ Refuse(f) \/ Registered(f) \/ Unregistered(f) \/ Unauthorized(f) \/ Disabled(f)
        PROVE  TInv' /\ Counted'
    <2>1. UNCHANGED server
      BY <1>5, Zenon DEF DropOwn, Config, Ask, Refuse, Registered, Unregistered, Unauthorized, Disabled
    <2>2. TInv'
      BY <1>5, DropOwnStep, ConfigStep, AskStep, AnswerSteps, Zenon
    <2> QED BY <1>2, <2>1, <2>2
  <1>6. ASSUME NEW f \in Flow, Upsert(f) PROVE TInv' /\ Counted'
    <2>1. TInv'
      BY <1>6, UpsertStep
    <2>2. rows' \in Nat /\ rows <= rows' /\ UNCHANGED <<sends, failed>>
      BY <1>1, <1>6 DEF Upsert
    <2>3. \A e \in Endpoint : Live(e)' => subs'[e] = subs[e] \/ subs'[e].failures = 0
      BY <1>6 DEF Upsert, TInv, Registrations
    <2>4. \A e \in Endpoint : Live(e)' => subs'[e].id \in 1 .. Rows
      BY <2>1, BoundsAssumption DEF TInv, Registrations, SubRow, Live
    <2> QED BY <2>1, <2>2, <2>3, <2>4, CountsStay
  <1>7. ASSUME NEW f \in Flow, Prune(f) \/ Lost(f) \/ Unsubscribe(f) PROVE TInv' /\ Counted'
    <2>1. (UNCHANGED subs \/ \E E : subs' = Without(E)) /\ UNCHANGED <<sends, rows, failed>>
      BY <1>7 DEF Prune, Lost, Unsubscribe, server
    <2> QED BY <1>3, <1>7, <2>1, ServerSteps
  <1>8. ASSUME NEW d \in Device, Logout(d) \/ Drop(d) \/ Reload(d) \/ Browser(d) \/ \E u \in Person : SignIn(d, u)
        PROVE  TInv' /\ Counted'
    <2>1. UNCHANGED server
      BY <1>8 DEF Logout, Drop, Reload, Browser, SignIn
    <2> QED BY <1>2, <1>8, <2>1, DeviceSteps
  <1>9. ASSUME NEW c \in calls, UnsubscribeAtLogout(c) PROVE TInv' /\ Counted'
    <2>1. (UNCHANGED subs \/ \E E : subs' = Without(E)) /\ UNCHANGED <<sends, rows, failed, dev, flow, made>>
      BY <1>9 DEF UnsubscribeAtLogout
    <2> QED BY <1>3, <2>1, RowsGo, ElseStay DEF TInv
  <1>10. ASSUME NEW m \in Message, NEW e \in Endpoint, BeginDeliver(m, e) PROVE TInv' /\ Counted'
    BY <1>10, BeginCounts, ElseStay DEF BeginDeliver, TInv
  <1>11. ASSUME NEW m \in Message, NEW o \in {"ok", "fail", "gone"}, Send(m, o) PROVE TInv' /\ Counted'
    BY <1>11, SendCounts, ElseStay DEF Send, TInv
  <1>12. ASSUME NEW m \in Message, Record(m) PROVE TInv' /\ Counted'
    BY <1>12, RecordSteps
  <1>13. CASE UNCHANGED vars
    BY <1>2, <1>13, ElseStay DEF vars, server, TInv
  <1> QED BY <1>4, <1>5, <1>6, <1>7, <1>8, <1>9, <1>10, <1>11, <1>12, <1>13 DEF Next

\* A registration counts at most the failures since a success that no other message
\* overlapped, and one that deliver drops for its failures had MAX_FAILURES of them since
\* then, however many messages count at once from older rows.
THEOREM FailuresAreCounted == Spec => []FailuresCounted
  BY InitTyped, InitCounted, StepHolds, CountedIsRight, PTL DEF Spec

-----------------------------------------------------------------------------
(* Devices.  Only the second statement of a registration shrinks what a     *)
(* person has to MAX_SUBSCRIPTIONS_PER_USER; until then it may be the one   *)
(* row too many (Flying).                                                   *)
Flying(u) == {f \in Flow : At(f, "upserted") /\ flow[f].as = u}

(* Of what is left, the oldest has fewer than the limit newer than it. *)
LEMMA NewestAreFew ==
  ASSUME TInv, NEW u
  PROVE  IsFiniteSet(Newest(u)) /\ Cardinality(Newest(u)) <= MaxDevices
  <1> DEFINE N == Newest(u)
             T == {subs[e].id : e \in N}
             Newer(e) == {o \in RowsOf(u) : subs[o].id > subs[e].id}
  <1>1. IsFiniteSet(Endpoint)
    BY FS_Interval, BoundsAssumption DEF Endpoint
  <1>2. IsFiniteSet(N) /\ N \subseteq RowsOf(u) /\ RowsOf(u) \subseteq Endpoint
    BY <1>1, FS_Subset DEF Newest, RowsOf
  <1>3. CASE N = {}
    BY <1>3, FS_EmptySet, LimitsAssumption
  <1>4. CASE N # {}
    <2>1. T \subseteq Nat /\ T # {}
      BY <1>2, <1>4, BoundsAssumption DEF TInv, Registrations, SubRow
    <2>2. PICK i \in T : \A j \in T : ~(<<j, i>> \in OpToRel(<, Nat))
      BY <2>1, NatLessThanWellFounded, WFMin
    <2>3. \A j \in T : ~(j < i)
      BY <2>1, <2>2 DEF OpToRel
    <2>4. PICK x \in N : subs[x].id = i
      BY <2>2
    <2>5. N \ {x} \subseteq Newer(x)
      <3> SUFFICES ASSUME NEW o \in N, o # x PROVE subs[o].id > subs[x].id
        BY <1>2
      <3>1. Live(o) /\ o \in Endpoint /\ x \in Endpoint /\ subs[o].id \in T
        BY <1>2 DEF RowsOf
      <3>2. subs[o].id # subs[x].id
        BY <3>1 DEF TInv, Registrations
      <3>3. subs[o].id \in Nat /\ i \in Nat /\ ~(subs[o].id < i)
        BY <2>1, <2>3, <3>1
      <3> HIDE DEF T
      <3> QED BY <2>4, <3>2, <3>3
    <2>6. Cardinality(Newer(x)) < MaxDevices /\ IsFiniteSet(Newer(x))
      BY <1>1, <1>2, FS_Subset DEF Newest
    <2>7. Cardinality(N \ {x}) <= Cardinality(Newer(x)) /\ Cardinality(N \ {x}) = Cardinality(N) - 1
      BY <1>2, <2>5, <2>6, FS_Subset, FS_RemoveElement
    <2>8. Cardinality(N) \in Nat /\ Cardinality(Newer(x)) \in Nat
      BY <1>2, <2>6, FS_CardinalityType
    <2> QED BY <1>2, <2>6, <2>7, <2>8, LimitsAssumption
  <1> QED BY <1>3, <1>4

LEMMA Finite ==
  ASSUME NEW u
  PROVE  /\ IsFiniteSet(RowsOf(u)) /\ IsFiniteSet(Flying(u))
         /\ IsFiniteSet(RowsOf(u)') /\ IsFiniteSet(Flying(u)')
         /\ Cardinality(RowsOf(u)) \in Nat /\ Cardinality(Flying(u)) \in Nat
         /\ Cardinality(RowsOf(u)') \in Nat /\ Cardinality(Flying(u)') \in Nat
  <1>1. IsFiniteSet(Endpoint) /\ IsFiniteSet(Flow)
    BY FS_Interval, BoundsAssumption DEF Endpoint
  <1>2. RowsOf(u) \subseteq Endpoint /\ RowsOf(u)' \subseteq Endpoint /\ Flying(u) \subseteq Flow /\ Flying(u)' \subseteq Flow
    BY DEF RowsOf, Flying
  <1>3. IsFiniteSet(RowsOf(u)) /\ IsFiniteSet(Flying(u)) /\ IsFiniteSet(RowsOf(u)') /\ IsFiniteSet(Flying(u)')
    BY <1>1, <1>2, FS_Subset
  <1> QED BY <1>3, FS_CardinalityType

Few(u) == Cardinality(RowsOf(u)) <= MaxDevices + Cardinality(Flying(u))

(* Nobody gets a registration, and nobody's second statement is run. *)
LEMMA FewStay ==
  ASSUME NEW u, Few(u), RowsOf(u)' \subseteq RowsOf(u), Flying(u) \subseteq Flying(u)'
  PROVE  Few(u)'
  <1>1. Cardinality(RowsOf(u)') <= Cardinality(RowsOf(u)) /\ Cardinality(Flying(u)) <= Cardinality(Flying(u)')
    BY Finite, FS_Subset
  <1> QED BY <1>1, Finite, LimitsAssumption DEF Few

LEMMA FewUpserted ==
  ASSUME TInv, NEW u, Few(u), NEW f \in Flow, Upsert(f)
  PROVE  Few(u)'
  <1> DEFINE e == flow[f].sub
  <1>1. /\ flow[f].step = "post" /\ flow' = [flow EXCEPT ![f].step = "upserted"]
        /\ \A x \in Endpoint : x # e => subs'[x] = subs[x]
    BY DEF Upsert, At, TInv, Registrations
  <1>2. subs'[e].user = flow[f].as /\ e \in Endpoint
    BY <1>1 DEF Upsert, TInv, Registrations, Flows, Sound, Given
  <1>3. \A g \in Flow : /\ flow'[g].as = flow[g].as
                        /\ flow'[g].step = IF g = f THEN "upserted" ELSE flow[g].step
    BY <1>1 DEF TInv, Flows, FlowRow
  <1>4. CASE flow[f].as = u
    <2>1. RowsOf(u)' \subseteq RowsOf(u) \cup {e}
      BY <1>1 DEF RowsOf, Live
    <2>2. Flying(u)' = Flying(u) \cup {f} /\ f \notin Flying(u)
      BY <1>1, <1>3, <1>4 DEF Flying, At
    <2>3. IsFiniteSet(RowsOf(u) \cup {e}) /\ Cardinality(RowsOf(u) \cup {e}) <= Cardinality(RowsOf(u)) + 1
      <3>1. IsFiniteSet(RowsOf(u)) /\ Cardinality(RowsOf(u)) \in Nat
        BY Finite
      <3>2. /\ IsFiniteSet(RowsOf(u) \cup {e})
            /\ Cardinality(RowsOf(u) \cup {e}) = IF e \in RowsOf(u) THEN Cardinality(RowsOf(u)) ELSE Cardinality(RowsOf(u)) + 1
        BY <3>1, FS_AddElement
      <3> QED BY <3>1, <3>2
    <2>4. Cardinality(RowsOf(u)') <= Cardinality(RowsOf(u) \cup {e}) /\ Cardinality(RowsOf(u) \cup {e}) \in Nat
      <3>1. Cardinality(RowsOf(u) \cup {e}) \in Nat
        BY <2>3, FS_CardinalityType
      <3>2. \A R, S : IsFiniteSet(S) /\ R \subseteq S => Cardinality(R) <= Cardinality(S)
        BY FS_Subset
      <3> QED BY <2>1, <2>3, <3>1, <3>2
    <2>5. Cardinality(Flying(u)') = Cardinality(Flying(u)) + 1
      BY <2>2, Finite, FS_AddElement
    <2> QED BY <2>3, <2>4, <2>5, Finite, LimitsAssumption DEF Few
  <1>5. CASE flow[f].as # u
    <2>1. RowsOf(u)' \subseteq RowsOf(u)
      BY <1>1, <1>2, <1>5 DEF RowsOf, Live
    <2>2. Flying(u) \subseteq Flying(u)'
      BY <1>1, <1>3 DEF Flying, At
    <2> QED BY <2>1, <2>2, FewStay
  <1> QED BY <1>4, <1>5

LEMMA FewPruned ==
  ASSUME TInv, NEW u, Few(u), NEW f \in Flow, Prune(f)
  PROVE  Few(u)'
  <1>1. /\ flow[f].step = "upserted" /\ flow' = [flow EXCEPT ![f].step = "done"]
        /\ subs' = Without(RowsOf(flow[f].as) \ Newest(flow[f].as))
    BY DEF Prune, At
  <1>2. \A x \in Endpoint : subs'[x] = IF x \in RowsOf(flow[f].as) \ Newest(flow[f].as) THEN NoRow ELSE subs[x]
    BY <1>1 DEF Without
  <1>3. CASE flow[f].as = u
    <2>1. RowsOf(u)' \subseteq Newest(u)
      BY <1>2, <1>3 DEF RowsOf, Live, NoRow
    <2>2. Cardinality(RowsOf(u)') <= Cardinality(Newest(u)) /\ Cardinality(Newest(u)) <= MaxDevices /\ Cardinality(Newest(u)) \in Nat
      BY <2>1, NewestAreFew, FS_Subset, FS_CardinalityType
    <2> QED BY <2>2, Finite, LimitsAssumption DEF Few
  <1>4. CASE flow[f].as # u
    <2>1. RowsOf(u)' \subseteq RowsOf(u)
      BY <1>2 DEF RowsOf, Live, NoRow
    <2>2. Flying(u) \subseteq Flying(u)'
      BY <1>1, <1>4 DEF Flying, At, TInv, Flows, FlowRow
    <2> QED BY <2>1, <2>2, FewStay
  <1> QED BY <1>3, <1>4

(* A call that is not between the two statements leaves those that are alone. *)
LEMMA OthersFly ==
  ASSUME TInv, NEW u, NEW f \in Flow, flow[f].step # "upserted",
         UNCHANGED flow \/ \E r : flow' = [flow EXCEPT ![f] = r]
  PROVE  Flying(u) \subseteq Flying(u)'
  BY DEF Flying, At, TInv, Flows

LEMMA StepFew ==
  ASSUME TInv, [Next]_vars, NEW u, Few(u)
  PROVE  Few(u)'
  <1>1. ASSUME UNCHANGED subs PROVE RowsOf(u)' \subseteq RowsOf(u)
    BY <1>1 DEF RowsOf, Live
  <1>2. ASSUME NEW E, subs' = Without(E) PROVE RowsOf(u)' \subseteq RowsOf(u)
    BY <1>2 DEF RowsOf, Live, Without, NoRow
  <1>3. ASSUME UNCHANGED flow PROVE Flying(u) \subseteq Flying(u)'
    BY <1>3 DEF Flying, At
  <1>4. ASSUME NEW f \in Flow, NEW d \in Device, Renew(f, d) \/ Settings(f, d) \/ Enable(f, d) \/ Disable(f, d)
        PROVE  Few(u)'
    <2>1. UNCHANGED subs
      BY <1>4 DEF Renew, Settings, Enable, Disable, server
    <2>2. UNCHANGED flow \/ (flow[f].step = "idle" /\ \E r : flow' = [flow EXCEPT ![f] = r])
      BY <1>4 DEF Renew, Settings, Enable, Disable, Starts, At
    <2> QED BY <1>1, <1>3, <2>1, <2>2, OthersFly, FewStay
  <1>5. ASSUME NEW f \in Flow,
               \/ DropOwn(f) \/ Config(f) \/ Ask(f)
               \/ Refuse(f) \/ Registered(f) \/ Unregistered(f) \/ Unauthorized(f) \/ Disabled(f)
        PROVE  Few(u)'
    <2>1. UNCHANGED subs /\ flow[f].step # "upserted"
      <3>1. UNCHANGED subs
        BY <1>5, Zenon DEF DropOwn, Config, Ask, Refuse, Registered, Unregistered, Unauthorized, Disabled, server
      <3>2. \/ At(f, "drop") \/ At(f, "config") \/ At(f, "ask") \/ At(f, "done") \/ At(f, "failed")
            \/ At(f, "post") \/ At(f, "delete") \/ At(f, "deleted")
        BY <1>5, Zenon DEF DropOwn, Config, Ask, Refuse, Registered, Unregistered, Unauthorized, Disabled
      <3> QED BY <3>1, <3>2 DEF At
    <2>2. \E r : flow' = [flow EXCEPT ![f] = r]
      BY <1>5 DEF DropOwn, Config, Ask, Refuse, Registered, Unregistered, Unauthorized, Disabled, Failed, EndsRefresh, Ends
    <2> QED BY <1>1, <2>1, <2>2, OthersFly, FewStay
  <1>6. ASSUME NEW f \in Flow, Lost(f) \/ Unsubscribe(f) PROVE Few(u)'
    <2>1. /\ flow[f].step # "upserted" /\ \E r : flow' = [flow EXCEPT ![f] = r]
          /\ UNCHANGED subs \/ \E E : subs' = Without(E)
      BY <1>6 DEF Lost, Unsubscribe, server, At
    <2> QED BY <1>1, <1>2, <2>1, OthersFly, FewStay
  <1>7. ASSUME NEW d \in Device, Logout(d) \/ Drop(d) \/ Reload(d) \/ Browser(d) \/ \E x \in Person : SignIn(d, x)
        PROVE  Few(u)'
    <2>1. UNCHANGED subs
      BY <1>7 DEF Logout, Drop, Reload, Browser, SignIn, server
    <2>2. Flying(u) \subseteq Flying(u)'
      <3>1. CASE Reload(d)
        BY <3>1 DEF Reload, Flying, At, TInv, Flows, FlowRow
      <3>2. CASE UNCHANGED flow
        BY <1>3, <3>2
      <3> QED BY <1>7, <3>1, <3>2 DEF Logout, Drop, Browser, SignIn
    <2> QED BY <1>1, <2>1, <2>2, FewStay
  <1>8. ASSUME NEW c \in calls, UnsubscribeAtLogout(c) PROVE Few(u)'
    BY <1>1, <1>2, <1>3, <1>8, FewStay DEF UnsubscribeAtLogout
  <1>9. ASSUME NEW m \in Message,
               (\E e \in Endpoint : BeginDeliver(m, e)) \/ (\E o \in {"ok", "fail", "gone"} : Send(m, o))
        PROVE  Few(u)'
    BY <1>1, <1>3, <1>9, FewStay DEF BeginDeliver, Send
  <1>10. ASSUME NEW m \in Message, Record(m) PROVE Few(u)'
    <2>1. UNCHANGED flow
      BY <1>10 DEF Record
    <2>2. RowsOf(u)' \subseteq RowsOf(u)
      <3>1. CASE UNCHANGED subs \/ \E E : subs' = Without(E)
        BY <1>1, <1>2, <3>1
      <3>2. ASSUME NEW n,
                   subs' = [e \in Endpoint |-> IF e \in Found(sends[m]) THEN [subs[e] EXCEPT !.failures = n] ELSE subs[e]]
            PROVE  RowsOf(u)' \subseteq RowsOf(u)
        <4>1. \A e \in Endpoint : subs'[e].id = subs[e].id /\ subs'[e].user = subs[e].user
          <5>1. \A x \in SubRow : [x EXCEPT !.failures = n].id = x.id /\ [x EXCEPT !.failures = n].user = x.user
            BY DEF SubRow
          <5>2. \A e \in Endpoint : subs[e] \in SubRow
            BY DEF TInv, Registrations
          <5> QED BY <3>2, <5>1, <5>2
        <4> QED BY <4>1 DEF RowsOf, Live
      <3> DEFINE count == Count(sends[m])
      <3>3. \/ UNCHANGED subs
            \/ subs' = Without(Found(sends[m]))
            \/ subs' = [e \in Endpoint |-> IF e \in Found(sends[m]) THEN [subs[e] EXCEPT !.failures = count] ELSE subs[e]]
        BY <1>10 DEF Record
      <3> HIDE DEF count
      <3> QED BY <3>1, <3>2, <3>3
    <2> QED BY <1>3, <2>1, <2>2, FewStay
  <1>11. CASE UNCHANGED vars
    BY <1>1, <1>3, <1>11, FewStay DEF vars
  <1> QED BY <1>4, <1>5, <1>6, <1>7, <1>8, <1>9, <1>10, <1>11, FewUpserted, FewPruned DEF Next

\* A person keeps at most MAX_SUBSCRIPTIONS_PER_USER registrations, and one more for each
\* registration between its two statements, however many of them interleave.
THEOREM DevicesAreFew == Spec => []DevicesBounded
  <1> DEFINE I == \A u \in Person : Few(u)
  <1>1. Init => I
    <2> SUFFICES ASSUME Init, NEW u \in Person PROVE Few(u)
      OBVIOUS
    <2>1. RowsOf(u) = {}
      BY DEF Init, RowsOf, Live, NoRow
    <2> QED BY <2>1, FS_EmptySet, Finite, LimitsAssumption DEF Few
  <1>2. TInv /\ I /\ [Next]_vars => I'
    BY StepFew
  <1>3. I => DevicesBounded
    BY DEF Few, Flying, DevicesBounded
  <1> HIDE DEF I
  <1> QED BY <1>1, <1>2, <1>3, InitTyped, InitCounted, StepHolds, PTL DEF Spec

-----------------------------------------------------------------------------
(* The next user of a device.  What a sign-out does is under way or has     *)
(* failed, for as long as the registration it is about is there (Excused).  *)
Excused(d) ==
    LET e == dev[d].local IN
    \/ why[e] \cap {"forgotten", "over", "late"} # {}
    \/ /\ dev[d].drops \/ "kept" \in why[e]
       /\ [as |-> subs[e].user, sub |-> e] \in calls \/ "untold" \in why[e]

Causes ==
    /\ Past
    /\ \A d \in Device : dev[d].drops => dev[d].listening
    /\ \A d \in Device : Foreign(d) => Excused(d)

(* Causes that only grow, for a device whose user stays and that drops its  *)
(* endpoint no later, while its registration stays with its owner or goes.  *)
LEMMA StillExcused ==
  ASSUME NEW d \in Device, Foreign(d) => Excused(d),
         dev'[d].user = dev[d].user, dev'[d].local \in {None, dev[d].local},
         dev[d].local # None /\ Live(dev[d].local)'
            => /\ Live(dev[d].local) /\ subs'[dev[d].local].user = subs[dev[d].local].user
               /\ why[dev[d].local] \subseteq why'[dev[d].local]
               /\ dev[d].drops => dev'[d].drops \/ "kept" \in why'[dev[d].local]
               /\ [as |-> subs[dev[d].local].user, sub |-> dev[d].local] \in calls
                    => [as |-> subs[dev[d].local].user, sub |-> dev[d].local] \in calls' \/ "untold" \in why'[dev[d].local]
  PROVE  (Foreign(d) => Excused(d))'
  <1> DEFINE e == dev[d].local
  <1>1. SUFFICES ASSUME Foreign(d)' PROVE Excused(d)'
    OBVIOUS
  <1>2. dev'[d].local = e /\ e # None /\ Live(e)' /\ subs'[e].user # dev[d].user
    BY <1>1 DEF Foreign, Live
  <1>3. /\ Live(e) /\ subs'[e].user = subs[e].user /\ why[e] \subseteq why'[e]
        /\ dev[d].drops => dev'[d].drops \/ "kept" \in why'[e]
        /\ [as |-> subs[e].user, sub |-> e] \in calls => [as |-> subs[e].user, sub |-> e] \in calls' \/ "untold" \in why'[e]
    BY <1>2
  <1> HIDE DEF e
  <1>4. Excused(d)
    BY <1>2, <1>3 DEF Foreign, e
  <1>5. Excused(d)' <=>
          \/ why'[e] \cap {"forgotten", "over", "late"} # {}
          \/ /\ dev'[d].drops \/ "kept" \in why'[e]
             /\ [as |-> subs'[e].user, sub |-> e] \in calls' \/ "untold" \in why'[e]
    BY <1>2 DEF Excused
  <1> QED BY <1>3, <1>4, <1>5 DEF Excused, e

(* A step that moves no user and records no cause. *)
Still ==
    /\ UNCHANGED why /\ calls \subseteq calls' /\ turns' = turns
    /\ \A d \in Device : /\ dev'[d].user = dev[d].user /\ dev'[d].local \in {None, dev[d].local}
                         /\ dev'[d].local # None => dev'[d].drops = dev[d].drops
                         /\ dev'[d].drops => dev'[d].listening

(* Registrations keep their owners, whatever the server does but the first *)
(* statement of a registration.                                            *)
LEMMA RowsKeepOwners ==
  ASSUME TInv, Counted, NEW e \in Endpoint, Live(e)',
         UNCHANGED subs \/ (\E E : subs' = Without(E)) \/ (\E m \in Message : Record(m))
  PROVE  Live(e) /\ subs'[e].user = subs[e].user
  <1>1. CASE UNCHANGED subs
    BY <1>1 DEF Live
  <1>2. ASSUME NEW E, subs' = Without(E) PROVE Live(e) /\ subs'[e].user = subs[e].user
    BY <1>2 DEF Live, Without, NoRow
  <1>3. ASSUME NEW m \in Message, NEW n,
               subs' = [x \in Endpoint |-> IF x \in Found(sends[m]) THEN [subs[x] EXCEPT !.failures = n] ELSE subs[x]]
        PROVE  Live(e) /\ subs'[e].user = subs[e].user
    <2>1. subs'[e].id = subs[e].id /\ subs'[e].user = subs[e].user
      BY <1>3 DEF TInv, Registrations, SubRow
    <2> QED BY <2>1 DEF Live
  <1>4. ASSUME NEW m \in Message, Record(m) PROVE Live(e) /\ subs'[e].user = subs[e].user
    <2> DEFINE s == sends[m]
               count == Count(s)
    <2>1. \/ UNCHANGED subs
          \/ subs' = Without(Found(s))
          \/ subs' = [x \in Endpoint |-> IF x \in Found(s) THEN [subs[x] EXCEPT !.failures = count] ELSE subs[x]]
      BY <1>4 DEF Record
    <2> HIDE DEF count
    <2> QED BY <1>1, <1>2, <1>3, <2>1
  <1> QED BY <1>1, <1>2, <1>4

LEMMA StillCaused ==
  ASSUME TInv, Counted, Causes, Still,
         UNCHANGED subs \/ (\E E : subs' = Without(E)) \/ (\E m \in Message : Record(m))
  PROVE  Causes'
  <1>1. \A d \in Device : (Foreign(d) => Excused(d))'
    <2> SUFFICES ASSUME NEW d \in Device PROVE (Foreign(d) => Excused(d))'
      OBVIOUS
    <2> DEFINE e == dev[d].local
    <2>1. e # None => e \in Endpoint
      BY DEF TInv, Devs, DevRow
    <2>2. CASE dev'[d].local = None
      BY <2>2 DEF Foreign
    <2>3. CASE dev'[d].local # None
      <3>1. dev'[d].user = dev[d].user /\ dev'[d].local = e /\ dev'[d].drops = dev[d].drops /\ UNCHANGED why /\ calls \subseteq calls'
        BY <2>3 DEF Still
      <3>2. Foreign(d) => Excused(d)
        BY DEF Causes
      <3>3. subs'[e].id # 0 => Live(e) /\ subs'[e].user = subs[e].user
        <4> HIDE DEF e
        <4> QED BY <2>1, <2>3, <3>1, RowsKeepOwners DEF Live
      <3> QED BY <3>1, <3>2, <3>3, StillExcused DEF Live
    <2> QED BY <2>2, <2>3
  <1>2. Past'
    BY DEF Causes, Past, Still
  <1> QED BY <1>1, <1>2 DEF Causes, Still

(* A call that keeps its device's user, and gives its browser no new endpoint. *)
LEMMA CallsAreStill ==
  ASSUME TInv, Causes, NEW f \in Flow,
         DropOwn(f) \/ Config(f) \/ Refuse(f) \/ Registered(f) \/ Unregistered(f) \/ Disabled(f)
  PROVE  Still
  <1> DEFINE x == flow[f].dev
  <1>1. flow[f].step # "idle" /\ UNCHANGED <<calls, turns, why>>
    BY DEF DropOwn, Config, Refuse, Registered, Unregistered, Disabled, At
  <1>2. x \in Device /\ dev[x] \in DevRow /\ dev \in [Device -> DevRow]
    BY <1>1 DEF TInv, Flows, Sound, Devs
  <1> DEFINE Keeps(r) == /\ r \in DevRow /\ r.user = dev[x].user /\ r.listening = dev[x].listening
                         /\ \/ r.local = dev[x].local /\ r.drops = dev[x].drops
                            \/ r.local = None /\ ~r.drops
  <1>3. ASSUME NEW r, Keeps(r), Ends(f, x, r) \/ EndsRefresh(f, x, r) \/ dev' = [dev EXCEPT ![x] = r]
        PROVE  Still
    <2> DEFINE y == [r EXCEPT !.busy = FALSE]
    <2>1. Keeps(y)
      BY <1>3 DEF DevRow
    <2>2. dev' = [dev EXCEPT ![x] = r] \/ dev' = [dev EXCEPT ![x] = y]
      BY <1>3 DEF Ends, EndsRefresh
    <2> HIDE DEF y
    <2>3. PICK z : Keeps(z) /\ dev' = [dev EXCEPT ![x] = z]
      BY <1>3, <2>1, <2>2
    <2>4. \A d \in Device : dev'[d] = IF d = x THEN z ELSE dev[d]
      BY <1>2, <2>3
    <2> QED BY <1>1, <1>2, <2>3, <2>4 DEF Still, Causes
  <1>4. ASSUME NEW r, Keeps(r), Failed(f, r) PROVE Still
    <2> DEFINE y == [r EXCEPT !.state = IF flow[f].kind = "enable" /\ r.allowed = "denied" THEN "denied" ELSE "off"]
    <2>1. Keeps(y)
      BY <1>4 DEF DevRow, State
    <2>2. EndsRefresh(f, x, y)
      BY <1>4 DEF Failed
    <2> HIDE DEF y, Keeps
    <2> QED BY <1>3, <2>1, <2>2
  <1>5. CASE Config(f)
    <2> DEFINE lost == [dev[x] EXCEPT !.state = "unsupported"]
               row == [dev[x] EXCEPT !.ready = TRUE]
               off == [row EXCEPT !.state = IF row.allowed = "denied" THEN "denied" ELSE "off"]
    <2>1. Keeps(lost) /\ Keeps(row) /\ Keeps(off)
      BY <1>2 DEF DevRow, State
    <2>2. Ends(f, x, lost) \/ EndsRefresh(f, x, off) \/ dev' = [dev EXCEPT ![x] = row]
      BY <1>5 DEF Config
    <2> HIDE DEF lost, row, off, Keeps
    <2> QED BY <1>3, <2>1, <2>2
  <1>6. CASE Refuse(f)
    <2> DEFINE r == [dev[x] EXCEPT !.allowed = "denied"]
    <2>1. Keeps(r) /\ Failed(f, r)
      BY <1>2, <1>6 DEF DevRow, Refuse
    <2> HIDE DEF r, Keeps
    <2> QED BY <1>4, <2>1
  <1>7. CASE Registered(f)
    <2> DEFINE r == [dev[x] EXCEPT !.key = flow[f].sub, !.state = IF flow[f].kind = "both" THEN @ ELSE "on"]
    <2>1. flow[f].sub \in Endpoint \cup {None}
      BY DEF FlowRow, TInv, Flows
    <2>2. Keeps(r)
      BY <1>2, <2>1 DEF DevRow, State
    <2>3. EndsRefresh(f, x, r) \/ UNCHANGED dev
      BY <1>7 DEF Registered
    <2>4. dev' = [dev EXCEPT ![x] = dev[x]] \/ EndsRefresh(f, x, r)
      BY <1>2, <2>3
    <2>5. Keeps(dev[x])
      BY <1>2
    <2> HIDE DEF r, Keeps
    <2> QED BY <1>3, <2>2, <2>4, <2>5
  <1>8. CASE Unregistered(f)
    <2>1. Failed(f, dev[x]) \/ dev' = [dev EXCEPT ![x] = dev[x]]
      BY <1>2, <1>8 DEF Unregistered
    <2>2. Keeps(dev[x])
      BY <1>2
    <2> HIDE DEF Keeps
    <2> QED BY <1>3, <1>4, <2>1, <2>2
  <1>9. CASE Disabled(f)
    <2> DEFINE r == [dev[x] EXCEPT !.key = None, !.state = "off"]
    <2>1. Keeps(r) /\ Keeps(dev[x])
      BY <1>2 DEF DevRow, State
    <2>2. Ends(f, x, r) \/ dev' = [dev EXCEPT ![x] = dev[x]]
      BY <1>2, <1>9 DEF Disabled
    <2> HIDE DEF r, Keeps
    <2> QED BY <1>3, <2>1, <2>2
  <1>10. CASE DropOwn(f)
    <2> DEFINE r == [dev[x] EXCEPT !.key = None, !.state = "off"]
               y == [dev[x] EXCEPT !.local = None, !.drops = FALSE]
    <2>1. Keeps(r) /\ Keeps(y)
      BY <1>2 DEF DevRow, State
    <2>2. Ends(f, x, r) \/ dev' = [dev EXCEPT ![x] = y]
      BY <1>10 DEF DropOwn
    <2> HIDE DEF r, y, Keeps
    <2> QED BY <1>3, <2>1, <2>2
  <1> QED BY <1>5, <1>6, <1>7, <1>8, <1>9, <1>10

(* The causes of other devices stay: no browsers share an endpoint. *)
LEMMA OthersExcused ==
  ASSUME TInv, Causes, NEW x \in Device, NEW r, dev' = [dev EXCEPT ![x] = r], UNCHANGED subs, calls \subseteq calls',
         why' \in [Endpoint -> SUBSET Cause],
         \A e \in Endpoint : e # dev[x].local => why'[e] = why[e],
         NEW d \in Device, d # x
  PROVE  (Foreign(d) => Excused(d))'
  <1>1. dev'[d] = dev[d] /\ dev[d].local \in Endpoint \cup {None}
    BY DEF TInv, Devs, DevRow
  <1>2. dev[d].local # None => dev[d].local # dev[x].local
    BY DEF TInv, Locals
  <1>3. dev[d].local # None => why'[dev[d].local] = why[dev[d].local]
    BY <1>1, <1>2
  <1>4. Foreign(d) => Excused(d)
    BY DEF Causes
  <1> QED BY <1>1, <1>3, <1>4, StillExcused DEF Live

(* A sign-out: what the device remembers is to be dropped, and the server told. *)
LEMMA SignedOutCaused ==
  ASSUME TInv, Causes, UNCHANGED <<subs, turns>> \/ (UNCHANGED subs /\ turns' \in 0 .. Turns),
         NEW x \in Device, NEW r \in DevRow, r.user = None, r.local = dev[x].local,
         r.local # None /\ (dev[x].drops \/ dev[x].key # None) => r.drops, r.drops => r.listening,
         dev' = [dev EXCEPT ![x] = r], why' = SignedOut(x),
         calls \subseteq calls', \A c \in Removal(x) : c.as # None => c \in calls'
  PROVE  Causes'
  <1> DEFINE e == dev[x].local
             owned == IF dev[x].key = None THEN {"forgotten"} ELSE IF dev[x].key = e THEN {} ELSE {"untold"}
  <1>1. dev'[x] = r /\ \A d \in Device : d # x => dev'[d] = dev[d]
    BY DEF TInv, Devs
  <1>2. why' = IF ~Own(x) THEN why ELSE [why EXCEPT ![e] = owned]
    BY DEF SignedOut
  <1>3. owned \in SUBSET Cause /\ why \in [Endpoint -> SUBSET Cause] /\ (e # None => e \in Endpoint)
    BY DEF Cause, Causes, Past, TInv, Devs, DevRow
  <1> HIDE DEF owned
  <1>4. Past'
    BY <1>2, <1>3 DEF Causes, Past
  <1>5. \A o \in Endpoint : o # e => why'[o] = why[o]
    BY <1>2, <1>3
  <1>6. \A d \in Device : dev'[d].drops => dev'[d].listening
    BY <1>1 DEF Causes
  <1>7. (Foreign(x) => Excused(x))'
    <2>1. SUFFICES ASSUME Foreign(x)' PROVE Excused(x)'
      OBVIOUS
    <2>2. e # None /\ Live(e) /\ e \in Endpoint /\ dev'[x].local = e
      BY <1>1, <1>3, <2>1 DEF Foreign, Live
    <2>3. CASE Own(x)
      <3>1. subs[e].user = dev[x].user /\ dev[x].user # None
        BY <2>2, <2>3, NoneAssumption DEF Own, TInv, Registrations, RowSound
      <3>2. why'[e] = owned
        BY <1>2, <1>3, <2>2, <2>3
      <3>3. dev[x].key = e => [as |-> subs[e].user, sub |-> e] \in calls'
        BY <2>2, <3>1 DEF Removal
      <3> QED BY <1>1, <2>2, <3>1, <3>2, <3>3 DEF Excused, owned
    <2>4. CASE ~Own(x)
      <3>1. Foreign(x) /\ UNCHANGED why
        BY <1>2, <2>2, <2>4 DEF Own, Foreign
      <3>2. Excused(x)
        BY <3>1 DEF Causes
      <3> QED BY <1>1, <2>2, <3>1, <3>2 DEF Excused
    <2> QED BY <2>3, <2>4
  <1>8. ASSUME NEW d \in Device, d # x PROVE (Foreign(d) => Excused(d))'
    BY <1>4, <1>5, <1>8, OthersExcused DEF Past
  <1> QED BY <1>4, <1>6, <1>7, <1>8 DEF Causes

(* What was to be dropped is kept, if there was something. *)
LEMMA KeptCaused ==
  ASSUME TInv, Causes, UNCHANGED <<subs, turns, calls>>, NEW x \in Device, NEW r \in DevRow,
         r.user = dev[x].user, r.local = dev[x].local, ~r.drops,
         dev' = [dev EXCEPT ![x] = r], why' = IF dev[x].drops THEN Kept(x) ELSE why
  PROVE  Causes'
  <1> DEFINE e == dev[x].local
  <1>1. dev'[x] = r /\ \A d \in Device : d # x => dev'[d] = dev[d]
    BY DEF TInv, Devs
  <1>2. why' = (IF dev[x].drops /\ Foreign(x) THEN [why EXCEPT ![e] = why[e] \cup {"kept"}] ELSE why)
    BY DEF Kept
  <1>3. why \in [Endpoint -> SUBSET Cause] /\ (e # None => e \in Endpoint)
    BY DEF Causes, Past, TInv, Devs, DevRow
  <1>4. Past'
    BY <1>2, <1>3 DEF Causes, Past, Cause
  <1>5. \A o \in Endpoint : o # e => why'[o] = why[o]
    BY <1>2, <1>3
  <1>6. \A d \in Device : dev'[d].drops => dev'[d].listening
    BY <1>1 DEF Causes
  <1>7. (Foreign(x) => Excused(x))'
    <2>1. SUFFICES ASSUME Foreign(x)' PROVE Excused(x)'
      OBVIOUS
    <2>2. Foreign(x) /\ e \in Endpoint /\ dev'[x].local = e
      BY <1>1, <1>3, <2>1 DEF Foreign, Live
    <2>3. Excused(x)
      BY <2>2 DEF Causes
    <2>4. why'[e] = IF dev[x].drops THEN why[e] \cup {"kept"} ELSE why[e]
      BY <1>2, <1>3, <2>2
    <2> QED BY <2>2, <2>3, <2>4 DEF Excused
  <1>8. ASSUME NEW d \in Device, d # x PROVE (Foreign(d) => Excused(d))'
    BY <1>4, <1>5, <1>8, OthersExcused DEF Past
  <1> QED BY <1>4, <1>6, <1>7, <1>8 DEF Causes

LEMMA AskCaused ==
  ASSUME TInv, Causes, NEW f \in Flow, Ask(f)
  PROVE  Causes'
  <1> DEFINE x == flow[f].dev
             old == dev[x].local
             sub == IF old = None THEN made + 1 ELSE old
             row == [dev[x] EXCEPT !.allowed = "granted", !.local = sub, !.drops = dev[x].listening]
  <1>1. At(f, "ask") /\ sub <= Endpoints /\ dev' = [dev EXCEPT ![x] = row] /\ UNCHANGED <<subs, calls, why, turns>>
    BY DEF Ask, server
  <1>2. x \in Device /\ dev[x] \in DevRow
    BY <1>1 DEF TInv, Flows, Sound, At, Devs
  <1>3. row.user = dev[x].user /\ row.local = sub /\ row.drops = dev[x].listening /\ row.listening = dev[x].listening
    BY <1>2 DEF DevRow
  <1> HIDE DEF row
  <1>4. \A d \in Device : dev'[d] = IF d = x THEN row ELSE dev[d]
    BY <1>1, <1>2 DEF TInv, Devs
  <1>5. ASSUME NEW d \in Device PROVE (Foreign(d) => Excused(d))'
    <2>1. Foreign(d) => Excused(d)
      BY DEF Causes
    <2>2. CASE d # x \/ old # None
      <3>1. dev'[d].user = dev[d].user /\ dev'[d].local = dev[d].local /\ (dev[d].drops => dev'[d].drops)
        BY <1>2, <1>3, <1>4, <2>2 DEF Causes
      <3> QED BY <1>1, <2>1, <3>1, StillExcused DEF Live
    <2>3. CASE d = x /\ old = None
      <3>1. sub = made + 1 /\ made \in Nat /\ sub \in Endpoint
        BY <1>1, <2>3, BoundsAssumption DEF TInv, Locals, Endpoint
      <3>2. ~Live(sub)
        BY <3>1 DEF TInv, Registrations, RowSound
      <3> HIDE DEF sub
      <3> QED BY <1>1, <1>3, <1>4, <2>3, <3>2 DEF Foreign, Live
    <2> QED BY <2>2, <2>3
  <1>6. \A d \in Device : dev'[d].drops => dev'[d].listening
    BY <1>3, <1>4 DEF Causes
  <1>7. Past'
    BY <1>1 DEF Causes, Past
  <1> QED BY <1>5, <1>6, <1>7 DEF Causes

LEMMA UpsertCaused ==
  ASSUME TInv, Causes, NEW f \in Flow, Upsert(f)
  PROVE  Causes'
  <1> DEFINE e == flow[f].sub
             u == flow[f].as
             late == IF \E d \in Device : dev[d].local = e /\ dev[d].user # u THEN {"late"} ELSE {}
  <1>1. /\ UNCHANGED <<dev, calls, turns>> /\ e \in Endpoint /\ subs'[e].user = u
        /\ \A o \in Endpoint : o # e => subs'[o] = subs[o]
        /\ why' = [why EXCEPT ![e] = late]
    BY DEF Upsert, At, TInv, Registrations, Flows, Sound, Given
  <1>2. late \in SUBSET Cause /\ why \in [Endpoint -> SUBSET Cause]
    BY DEF Cause, Causes, Past
  <1>3. ASSUME NEW d \in Device PROVE (Foreign(d) => Excused(d))'
    <2>1. dev[d].local \in Endpoint \cup {None}
      BY DEF TInv, Devs, DevRow
    <2>2. CASE dev[d].local = e
      <3>1. SUFFICES ASSUME Foreign(d)' PROVE Excused(d)'
        OBVIOUS
      <3>2. dev[d].user # u
        BY <1>1, <2>2, <3>1 DEF Foreign
      <3>3. why'[e] = {"late"}
        BY <1>1, <1>2, <2>2, <3>2
      <3> HIDE DEF e
      <3> QED BY <1>1, <2>2, <3>3 DEF Excused
    <2>3. CASE dev[d].local # e
      <3>1. dev[d].local # None => why'[dev[d].local] = why[dev[d].local] /\ subs'[dev[d].local] = subs[dev[d].local]
        BY <1>1, <1>2, <2>1, <2>3
      <3>2. Foreign(d) => Excused(d)
        BY DEF Causes
      <3> QED BY <1>1, <3>1, <3>2, StillExcused DEF Live
    <2> QED BY <2>2, <2>3
  <1>4. Past'
    BY <1>1, <1>2 DEF Past, Causes
  <1> QED BY <1>1, <1>3, <1>4 DEF Causes

(* The answer to a removal: its registration goes, or the server was not told. *)
LEMMA RemovalCaused ==
  ASSUME TInv, Causes, NEW c \in calls, UnsubscribeAtLogout(c)
  PROVE  Causes'
  <1> DEFINE gone == Owned(c.as, c.sub)
             told(e) == why[e] \cup {x \in {"untold"} : e \in gone}
  <1>1. UNCHANGED <<dev, turns>> /\ calls' = calls \ {c}
    BY DEF UnsubscribeAtLogout
  <1>2. why \in [Endpoint -> SUBSET Cause]
    BY DEF Causes, Past
  <1>3. \A d \in Device : dev[d].local \in Endpoint \cup {None} /\ (Foreign(d) => Excused(d))
    BY DEF TInv, Devs, DevRow, Causes
  <1>4. \A e : Live(e) /\ [as |-> subs[e].user, sub |-> e] = c => e \in gone
    <2> SUFFICES ASSUME NEW e, Live(e), [as |-> subs[e].user, sub |-> e] = c PROVE e \in gone
      OBVIOUS
    <2>1. c.as = subs[e].user /\ c.sub = e
      OBVIOUS
    <2> QED BY <2>1 DEF Owned
  <1>5. CASE subs' = Without(gone) /\ UNCHANGED why
    <2>1. \A e \in Endpoint : subs'[e] = IF e \in gone THEN NoRow ELSE subs[e]
      BY <1>5 DEF Without
    <2> HIDE DEF gone
    <2>2. \A e \in Endpoint : Live(e)' => Live(e) /\ subs'[e] = subs[e] /\ e \notin gone
      BY <2>1 DEF Live, NoRow
    <2>3. ASSUME NEW d \in Device PROVE (Foreign(d) => Excused(d))'
      <3> DEFINE e == dev[d].local
      <3>1. e # None /\ Live(e)' => /\ Live(e) /\ subs'[e].user = subs[e].user
                                    /\ [as |-> subs[e].user, sub |-> e] \in calls => [as |-> subs[e].user, sub |-> e] \in calls'
        BY <1>1, <1>3, <1>4, <2>2
      <3> QED BY <1>1, <1>3, <1>5, <3>1, StillExcused DEF Live
    <2> QED BY <1>1, <1>5, <2>3 DEF Causes, Past
  <1>6. CASE UNCHANGED subs /\ why' = [e \in Endpoint |-> told(e)]
    <2>1. why' \in [Endpoint -> SUBSET Cause]
      <3>1. \A e \in Endpoint : told(e) \in SUBSET Cause
        BY <1>2 DEF Cause
      <3> HIDE DEF told
      <3> QED BY <1>6, <3>1
    <2>2. \A e \in Endpoint : why[e] \subseteq why'[e] /\ (e \in gone => "untold" \in why'[e])
      BY <1>6
    <2> HIDE DEF gone, told
    <2>3. ASSUME NEW d \in Device PROVE (Foreign(d) => Excused(d))'
      <3> DEFINE e == dev[d].local
      <3>1. e # None /\ Live(e)' => /\ Live(e) /\ subs'[e].user = subs[e].user /\ why[e] \subseteq why'[e]
                                    /\ [as |-> subs[e].user, sub |-> e] \in calls
                                         => [as |-> subs[e].user, sub |-> e] \in calls' \/ "untold" \in why'[e]
        BY <1>1, <1>3, <1>4, <1>6, <2>2 DEF Live
      <3> QED BY <1>1, <1>3, <3>1, StillExcused DEF Live
    <2> QED BY <1>1, <2>1, <2>3 DEF Causes, Past
  <1> QED BY <1>5, <1>6 DEF UnsubscribeAtLogout

LEMMA DevicesCaused ==
  ASSUME TInv, Counted, Causes, NEW x \in Device,
         Logout(x) \/ Drop(x) \/ Reload(x) \/ Browser(x) \/ \E u \in Person : SignIn(x, u)
  PROVE  Causes'
  <1>1. dev[x] \in DevRow /\ dev \in [Device -> DevRow] /\ turns \in 0 .. Turns /\ UNCHANGED subs
    BY DEF TInv, Devs, Causes, Past, Logout, Drop, Reload, Browser, SignIn, server
  <1>2. turns < Turns => turns + 1 \in 0 .. Turns
    BY <1>1, BoundsAssumption
  <1>3. CASE Logout(x)
    <2> DEFINE r == [Detached(dev[x]) EXCEPT !.user = None]
    <2>1. /\ dev' = [dev EXCEPT ![x] = r] /\ why' = SignedOut(x) /\ turns' \in 0 .. Turns
          /\ calls' = calls \cup Removal(x)
      BY <1>2, <1>3 DEF Logout
    <2>2. /\ r \in DevRow /\ r.user = None /\ r.local = dev[x].local
          /\ r.local # None /\ (dev[x].drops \/ dev[x].key # None) => r.drops
          /\ r.drops => r.listening
      BY <1>1, DetachedRow DEF Causes
    <2> HIDE DEF r
    <2> QED BY <1>1, <2>1, <2>2, SignedOutCaused
  <1>4. CASE Drop(x)
    <2> DEFINE r == [dev[x] EXCEPT !.drops = FALSE]
               y == [dev[x] EXCEPT !.drops = FALSE, !.local = None]
    <2>1. /\ r \in DevRow /\ r.user = dev[x].user /\ r.local = dev[x].local /\ ~r.drops
          /\ y.user = dev[x].user /\ y.local = None /\ ~y.drops
      BY <1>1 DEF DevRow
    <2>2. /\ \/ dev' = [dev EXCEPT ![x] = y] /\ UNCHANGED why
             \/ dev' = [dev EXCEPT ![x] = r] /\ why' = Kept(x)
          /\ dev[x].drops /\ UNCHANGED <<calls, turns>>
      BY <1>4 DEF Drop
    <2> HIDE DEF r, y
    <2>3. CASE dev' = [dev EXCEPT ![x] = y] /\ UNCHANGED why
      <3>1. \A d \in Device : dev'[d] = IF d = x THEN y ELSE dev[d]
        BY <1>1, <2>3
      <3>2. Still
        BY <2>1, <2>2, <2>3, <3>1 DEF Still, Causes
      <3> QED BY <1>1, <3>2, StillCaused
    <2> QED BY <1>1, <2>1, <2>2, <2>3, KeptCaused
  <1>5. CASE Reload(x)
    <2> DEFINE r == Loaded(dev[x])
    <2>1. r \in DevRow /\ r.user = dev[x].user /\ r.local = dev[x].local /\ ~r.drops
      BY <1>1 DEF DevRow, Loaded, State
    <2>2. dev' = [dev EXCEPT ![x] = r] /\ why' = (IF dev[x].drops THEN Kept(x) ELSE why) /\ UNCHANGED <<calls, turns>>
      BY <1>5 DEF Reload
    <2> HIDE DEF r
    <2> QED BY <1>1, <2>1, <2>2, KeptCaused
  <1>6. CASE Browser(x)
    <2>1. PICK p \in {"default", "granted", "denied"} :
             dev' = [dev EXCEPT ![x].local = None, ![x].drops = FALSE, ![x].allowed = p]
      BY <1>6 DEF Browser
    <2> DEFINE r == [dev[x] EXCEPT !.local = None, !.drops = FALSE, !.allowed = p]
    <2>2. r.user = dev[x].user /\ r.local = None /\ ~r.drops
      BY <1>1 DEF DevRow
    <2>3. \A d \in Device : dev'[d] = IF d = x THEN r ELSE dev[d]
      BY <1>1, <2>1
    <2> HIDE DEF r
    <2>4. UNCHANGED <<calls, turns, why>>
      BY <1>6 DEF Browser
    <2>5. Still
      BY <2>2, <2>3, <2>4 DEF Still, Causes
    <2> QED BY <1>1, <2>5, StillCaused
  <1>7. ASSUME NEW u \in Person, SignIn(x, u) PROVE Causes'
    <2> DEFINE r == [dev[x] EXCEPT !.user = u]
               e == dev[x].local
    <2>1. /\ dev' = [dev EXCEPT ![x] = r] /\ turns' \in 0 .. Turns /\ UNCHANGED <<subs, calls>>
          /\ why' = IF Own(x) THEN [why EXCEPT ![e] = {"over"}] ELSE why
      BY <1>2, <1>7 DEF SignIn, server
    <2>2. r.user = u /\ r.local = e /\ r.drops = dev[x].drops /\ r.listening = dev[x].listening
      BY <1>1 DEF DevRow
    <2> HIDE DEF r
    <2>3. \A d \in Device : dev'[d] = IF d = x THEN r ELSE dev[d]
      BY <1>1, <2>1
    <2>4. why \in [Endpoint -> SUBSET Cause] /\ (e # None => e \in Endpoint)
      BY <1>1 DEF Causes, Past, DevRow
    <2>5. why' \in [Endpoint -> SUBSET Cause] /\ \A o \in Endpoint : o # e => why'[o] = why[o]
      BY <2>1, <2>4 DEF Cause
    <2>6. (Foreign(x) => Excused(x))'
      <3>1. SUFFICES ASSUME Foreign(x)' PROVE Excused(x)'
        OBVIOUS
      <3>2. e # None /\ Live(e) /\ e \in Endpoint /\ dev'[x].local = e
        BY <2>1, <2>2, <2>3, <2>4, <3>1 DEF Foreign, Live
      <3>3. CASE Own(x)
        <4>1. why'[e] = {"over"}
          BY <2>1, <2>4, <3>2, <3>3
        <4> QED BY <3>2, <4>1 DEF Excused
      <3>4. CASE ~Own(x)
        <4>1. Foreign(x) /\ UNCHANGED why
          BY <2>1, <3>2, <3>4 DEF Own, Foreign
        <4>2. Excused(x)
          BY <4>1 DEF Causes
        <4> QED BY <2>1, <2>2, <2>3, <3>2, <4>1, <4>2 DEF Excused
      <3> QED BY <3>3, <3>4
    <2>7. ASSUME NEW d \in Device, d # x PROVE (Foreign(d) => Excused(d))'
      BY <2>1, <2>5, <2>7, OthersExcused
    <2>8. \A d \in Device : dev'[d].drops => dev'[d].listening
      BY <2>2, <2>3 DEF Causes
    <2> QED BY <2>1, <2>5, <2>6, <2>7, <2>8 DEF Causes, Past
  <1> QED BY <1>3, <1>4, <1>5, <1>6, <1>7

LEMMA UnauthorizedCaused ==
  ASSUME TInv, Counted, Causes, NEW f \in Flow, Unauthorized(f)
  PROVE  Causes'
  <1> DEFINE x == flow[f].dev
             r == [Detached(dev[x]) EXCEPT !.user = None]
             off == [r EXCEPT !.state = "off"]
             y == [r EXCEPT !.state = IF flow[f].kind = "enable" /\ r.allowed = "denied" THEN "denied" ELSE "off"]
             Out(z) == /\ z \in DevRow /\ z.user = None /\ z.local = dev[x].local
                       /\ z.local # None /\ (dev[x].drops \/ dev[x].key # None) => z.drops
                       /\ z.drops => z.listening
  <1>1. flow[f].step # "idle" /\ UNCHANGED <<subs, turns>>
    BY DEF Unauthorized, At, server
  <1>2. x \in Device /\ dev[x] \in DevRow /\ dev \in [Device -> DevRow]
    BY <1>1 DEF TInv, Flows, Sound, Devs
  <1>3. Out(r)
    BY <1>2, DetachedRow DEF Causes
  <1>4. \/ UNCHANGED <<dev, calls, why>>
        \/ /\ Failed(f, r) \/ Ends(f, x, off)
           /\ calls' = calls \cup {c \in Removal(x) : c.as # None} /\ why' = SignedOut(x)
    BY DEF Unauthorized
  <1> HIDE DEF r
  <1>5. Out(off) /\ Out(y)
    BY <1>3 DEF DevRow, State
  <1>6. Failed(f, r) => EndsRefresh(f, x, y)
    BY DEF Failed
  <1> HIDE DEF off, y
  <1>7. \A z : Out(z) => Out([z EXCEPT !.busy = FALSE])
    BY DEF DevRow
  <1>8. Failed(f, r) \/ Ends(f, x, off) => \E z : Out(z) /\ dev' = [dev EXCEPT ![x] = z]
    BY <1>5, <1>6, <1>7 DEF EndsRefresh, Ends
  <1>9. CASE UNCHANGED <<dev, calls, why>>
    <2>1. Still
      BY <1>1, <1>9 DEF Still, Causes
    <2> QED BY <1>1, <2>1, StillCaused
  <1>10. CASE /\ Failed(f, r) \/ Ends(f, x, off)
              /\ calls' = calls \cup {c \in Removal(x) : c.as # None} /\ why' = SignedOut(x)
    <2>1. PICK z : Out(z) /\ dev' = [dev EXCEPT ![x] = z]
      BY <1>8, <1>10
    <2> QED BY <1>1, <1>2, <1>10, <2>1, SignedOutCaused
  <1> QED BY <1>4, <1>9, <1>10

LEMMA StepCaused == TInv /\ Counted /\ Causes /\ [Next]_vars => Causes'
  <1> SUFFICES ASSUME TInv, Counted, Causes, [Next]_vars PROVE Causes'
    OBVIOUS
  <1>1. dev \in [Device -> DevRow]
    BY DEF TInv, Devs
  <1>2. ASSUME UNCHANGED <<dev, calls, turns, why>> PROVE Still
    BY <1>2 DEF Still, Causes
  <1>3. ASSUME NEW f \in Flow, NEW d \in Device, Renew(f, d) \/ Settings(f, d) \/ Enable(f, d) \/ Disable(f, d)
        PROVE  Causes'
    <2>1. UNCHANGED <<subs, calls, turns, why>>
      BY <1>3 DEF Renew, Settings, Enable, Disable, server
    <2>2. \/ dev' = [dev EXCEPT ![d].renewed = dev[d].user]
          \/ dev' = [dev EXCEPT ![d].busy = TRUE]
          \/ UNCHANGED dev
      BY <1>3 DEF Renew, Settings, Enable, Disable
    <2>3. \A x \in Device : dev'[x].user = dev[x].user /\ dev'[x].local = dev[x].local
                            /\ dev'[x].drops = dev[x].drops /\ dev'[x].listening = dev[x].listening
      BY <1>1, <2>2 DEF DevRow
    <2>4. Still
      BY <2>1, <2>3 DEF Still, Causes
    <2> QED BY <2>1, <2>4, StillCaused
  <1>4. ASSUME NEW f \in Flow,
               DropOwn(f) \/ Config(f) \/ Refuse(f) \/ Registered(f) \/ Unregistered(f) \/ Disabled(f)
        PROVE  Causes'
    <2>1. UNCHANGED subs
      BY <1>4, Zenon DEF DropOwn, Config, Refuse, Registered, Unregistered, Disabled, server
    <2>2. Still
      BY <1>4, CallsAreStill, Zenon
    <2> QED BY <2>1, <2>2, StillCaused
  <1>5. ASSUME NEW f \in Flow, Prune(f) \/ Lost(f) \/ Unsubscribe(f) PROVE Causes'
    <2>1. UNCHANGED <<dev, calls, turns, why>> /\ (UNCHANGED subs \/ \E E : subs' = Without(E))
      BY <1>5 DEF Prune, Lost, Unsubscribe, server
    <2> QED BY <1>2, <2>1, StillCaused
  <1>6. ASSUME NEW m \in Message,
               (\E e \in Endpoint : BeginDeliver(m, e)) \/ (\E o \in {"ok", "fail", "gone"} : Send(m, o)) \/ Record(m)
        PROVE  Causes'
    <2>1. UNCHANGED <<dev, calls, turns, why>> /\ (UNCHANGED subs \/ Record(m))
      BY <1>6 DEF BeginDeliver, Send, Record
    <2> QED BY <1>2, <2>1, StillCaused
  <1>7. CASE UNCHANGED vars
    <2>1. UNCHANGED <<dev, calls, turns, why, subs>>
      BY <1>7 DEF vars
    <2> QED BY <1>2, <2>1, StillCaused
  <1> QED BY <1>3, <1>4, <1>5, <1>6, <1>7, AskCaused, UpsertCaused, RemovalCaused, DevicesCaused, UnauthorizedCaused DEF Next

LEMMA InitCaused == Init => Causes
  BY BoundsAssumption DEF Init, Causes, Past, Foreign, Cause

\* Endpoints and ids are handed out once, no browser shares an endpoint, and every variable
\* keeps its type, however registrations, messages and removals interleave.
THEOREM TypeCorrect == Spec => []TypeOK
  <1>1. TInv /\ Counted /\ Causes => TypeOK
    BY Typed DEF Counted, Causes
  <1> QED BY <1>1, InitTyped, InitCounted, InitCaused, StepHolds, StepCaused, PTL DEF Spec

\* A device receives somebody else's messages only while both ways to end it are under way
\* or have failed, or when nothing was undone: no key at the sign-out, a sign-in over a
\* session, or a registration sent before either that arrives late.
THEOREM NextUsersGetNothing == Spec => []NextUserGetsNothing
  <1>1. Causes => NextUserGetsNothing
    BY DEF Causes, Excused, NextUserGetsNothing
  <1> QED BY <1>1, InitTyped, InitCounted, InitCaused, StepHolds, StepCaused, PTL DEF Spec
=============================================================================
