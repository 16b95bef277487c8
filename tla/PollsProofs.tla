----------------------------- MODULE PollsProofs -----------------------------
(***************************************************************************)
(* Theorems about Polls for any number of accounts, options, requests and  *)
(* connections, and about the pages of communities (Views) for any         *)
(* endpoints and any number of changes while they are put together.        *)
(***************************************************************************)
EXTENDS MCPolls, FiniteSetTheorems, TLAPS

\* The votes that go with their options leave each person's choice among the
\* options that stay.
LEMMA VotesOnOptions ==
  ASSUME TypeOK, NEW opts
  PROVE  /\ VotesOn(opts) \in [User -> SUBSET Option]
         /\ \A u \in User : VotesOn(opts)[u] = votes[u] \cap opts
BY DEF VotesOn, TypeOK

\* Types hold in every state.
THEOREM TypeCorrect == Spec => []TypeOK
<1> USE DEF TypeOK, At, Goes, Ends, Closing
<1>1. Init => TypeOK
  <2> SUFFICES ASSUME Init PROVE TypeOK
    OBVIOUS
  <2>1. req \in [Proc -> Request]
    BY AuthorAssumption DEF Init, Idle, Request, Step
  <2> QED BY <2>1 DEF Init, Idle
<1>2. TypeOK /\ [Next]_vars => TypeOK'
  <2> SUFFICES ASSUME TypeOK, [Next]_vars PROVE TypeOK'
    OBVIOUS
  <2>0. Idle \in Request /\ Idle.fresh = {}
    BY AuthorAssumption DEF Idle, Request, Step
  <2>1. ASSUME NEW ids \in SUBSET Option, NEW many \in BOOLEAN,
               NEW closes \in {"none", "later", "past"}, Create(ids, many, closes)
        PROVE  TypeOK'
    BY <2>1 DEF Create
  <2>2. ASSUME NEW p \in Proc, NEW u \in User, NEW ids \in SUBSET Option, BeginVote(p, u, ids)
        PROVE  TypeOK'
    BY <2>0, <2>2 DEF BeginVote, Idle, Request, Step
  <2>3. ASSUME NEW p \in Proc, NEW keep \in SUBSET Option, NEW fresh \in SUBSET Option,
               NEW at \in {"keep", "none", "later", "past"}, BeginEdit(p, keep, fresh, at)
        PROVE  TypeOK'
    BY <2>0, <2>3 DEF BeginEdit, Idle, Request, Step
  <2>4. ASSUME NEW p \in Proc, BeginRemove(p) PROVE TypeOK'
    BY <2>0, <2>4 DEF BeginRemove, Idle, Request, Step
  <2>5. ASSUME NEW p \in Proc, Connect(p) PROVE TypeOK'
    BY <2>5 DEF Connect, Request, Step
  <2>6. ASSUME NEW p \in Proc, LockPoll(p) PROVE TypeOK'
    BY <2>0, <2>6 DEF LockPoll, Request, Step
  <2>7. ASSUME NEW p \in Proc, AssertSameHost(p) PROVE TypeOK'
    BY <2>7 DEF AssertSameHost, Request, Step
  <2>8. ASSUME NEW p \in Proc, ClearVotes(p) PROVE TypeOK'
    <3>1. votes[req[p].who] \in SUBSET Option
      BY DEF Request
    <3>2. req' \in [Proc -> Request]
      BY <2>0, <2>8, <3>1 DEF ClearVotes, OwnVotes, Request, Step
    <3>3. \A q \in Proc : req'[q].fresh \subseteq spent
      BY <2>0, <2>8 DEF ClearVotes, Request
    <3> QED BY <2>8, <3>2, <3>3 DEF ClearVotes
  <2>9. ASSUME NEW p \in Proc, CastVotes(p) PROVE TypeOK'
    BY <2>0, <2>9 DEF CastVotes, Request, Step
  <2>10. ASSUME NEW p \in Proc, Edit(p) PROVE TypeOK'
    <3>1. req[p] \in Request /\ Edited(p) \subseteq spent /\ req' \in [Proc -> Request]
      BY <2>0, <2>10 DEF Edit, Edited, Request
    <3> QED BY <2>10, <3>1, VotesOnOptions DEF Edit, Request, Idle
  <2>11. ASSUME NEW p \in Proc, Remove(p) PROVE TypeOK'
    BY <2>0, <2>11 DEF Remove, VotesOn, Request, Step
  <2>12. CASE Expire
    BY <2>12 DEF Expire
  <2>13. CASE UNCHANGED vars
    BY <2>13 DEF vars
  <2> QED
    BY <2>1, <2>2, <2>3, <2>4, <2>5, <2>6, <2>7, <2>8, <2>9, <2>10, <2>11, <2>12,
       <2>13 DEF Next, Serve
<1> QED BY <1>1, <1>2, PTL DEF Spec

-----------------------------------------------------------------------------
\* A vote about to be cast has the row to itself, has deleted all the voter's
\* votes, and its choice fits the poll.
RowHeldOnce == \A p, q \in Proc : HasRow(p) /\ HasRow(q) => p = q

VoteFits(p) ==
    /\ req[p].held = votes[req[p].who]
    /\ req[p].ids \subseteq options
    /\ multiple \/ Cardinality(req[p].ids) = 1

VotesReady == \A p \in Proc : At(p, "cleared") => VoteFits(p)

\* Before the poll is created nothing is there to vote for, and while a vote
\* has the row it is not deleted.
NotYet == poll = "none" => options = {}
RowThere == \A p \in Proc : HasRow(p) => poll = "up"

VoteInv == RowHeldOnce /\ RowThere /\ VotesReady /\ NotYet /\ SingleChoice /\ VotesOnLiveOptions

\* A choice of one has no two members.
LEMMA OneMember ==
  ASSUME NEW S \in SUBSET Option, Cardinality(S) = 1
  PROVE  \A a, b \in S : a = b
<1>1. IsFiniteSet(S)
  BY OptionAssumption, FS_Subset
<1> QED BY <1>1, FS_Singleton

\* Casting a vote gives the voter exactly the choice of the request.
LEMMA CastEffect ==
  ASSUME TypeOK, VoteInv, NEW p \in Proc, CastVotes(p)
  PROVE  /\ votes' = [votes EXCEPT ![req[p].who] = req[p].ids]
         /\ req[p].who \in User /\ req[p].ids \in SUBSET Option
<1>1. VoteFits(p)
  BY DEF CastVotes, VoteInv, VotesReady
<1> QED BY <1>1 DEF CastVotes, VoteFits, TypeOK, Request

\* Every step keeps the invariant of the votes.
LEMMA VoteInvStep == TypeOK /\ VoteInv /\ [Next]_vars => VoteInv'
<1> SUFFICES ASSUME TypeOK, VoteInv, [Next]_vars PROVE VoteInv'
  OBVIOUS
<1> USE DEF VoteInv, RowHeldOnce, RowThere, VotesReady, VoteFits, NotYet, SingleChoice,
            VotesOnLiveOptions, At, Goes, Ends, HasRow
\* A step that leaves the poll alone and brings no request to the row.
<1>0. ASSUME UNCHANGED <<poll, multiple, options, votes>>,
             \A q \in Proc : req'[q] = req[q] \/ req'[q].step \in Step \ {"locked", "checked", "cleared"}
      PROVE  VoteInv'
  BY <1>0 DEF TypeOK
<1>1. ASSUME NEW ids \in SUBSET Option, NEW many \in BOOLEAN,
             NEW closes \in {"none", "later", "past"}, Create(ids, many, closes)
      PROVE  VoteInv'
  BY <1>1 DEF Create, TypeOK
<1>2. ASSUME NEW p \in Proc, NEW u \in User, NEW ids \in SUBSET Option, BeginVote(p, u, ids)
      PROVE  VoteInv'
  BY <1>0, <1>2 DEF BeginVote, TypeOK, Idle, Step
<1>3. ASSUME NEW p \in Proc, NEW keep \in SUBSET Option, NEW fresh \in SUBSET Option,
             NEW at \in {"keep", "none", "later", "past"}, BeginEdit(p, keep, fresh, at)
      PROVE  VoteInv'
  BY <1>0, <1>3 DEF BeginEdit, TypeOK, Idle, Step
<1>4. ASSUME NEW p \in Proc, BeginRemove(p) PROVE VoteInv'
  BY <1>0, <1>4 DEF BeginRemove, TypeOK, Idle, Step
<1>5. ASSUME NEW p \in Proc, Connect(p) PROVE VoteInv'
  <2>1. PICK s \in {"voteOpen", "editOpen", "removeOpen"} : req' = [req EXCEPT ![p].step = s]
    BY <1>5 DEF Connect
  <2>2. \A q \in Proc : req'[q] = req[q] \/ req'[q].step = s
    BY <2>1 DEF TypeOK, Request
  <2> QED BY <1>0, <1>5, <2>2 DEF Connect, Step
<1>6. ASSUME NEW p \in Proc, LockPoll(p) PROVE VoteInv'
  BY <1>6 DEF LockPoll, RowFree, TypeOK, Request, Idle
<1>7. ASSUME NEW p \in Proc, AssertSameHost(p) PROVE VoteInv'
  BY <1>7 DEF AssertSameHost, TypeOK, Request
<1>8. ASSUME NEW p \in Proc, ClearVotes(p) PROVE VoteInv'
  <2>1. CASE Accepts(req[p].ids)
    <3>1. /\ req'[p].step = "cleared" /\ req'[p].held = votes[req[p].who]
          /\ req'[p].who = req[p].who /\ req'[p].ids = req[p].ids
          /\ \A q \in Proc \ {p} : req'[q] = req[q]
          /\ \A q \in Proc : HasRow(q)' = HasRow(q)
      BY <1>8, <2>1 DEF ClearVotes, OwnVotes, TypeOK, Request
    <3>2. poll = "up"
      BY <1>8 DEF ClearVotes
    <3>3. VotesReady'
      BY <1>8, <2>1, <3>1, <3>2 DEF ClearVotes, Accepts
    <3>4. RowHeldOnce' /\ RowThere'
      BY <1>8, <3>1, <3>2 DEF ClearVotes
    <3> QED BY <1>8, <3>3, <3>4 DEF ClearVotes
  <2>2. CASE ~Accepts(req[p].ids)
    BY <1>0, <1>8, <2>2 DEF ClearVotes, TypeOK, Idle, Step
  <2> QED BY <2>1, <2>2
<1>9. ASSUME NEW p \in Proc, CastVotes(p) PROVE VoteInv'
  BY <1>9, CastEffect, OneMember DEF CastVotes, TypeOK, Request, Idle
<1>10. ASSUME NEW p \in Proc, Edit(p) PROVE VoteInv'
  BY <1>10, VotesOnOptions DEF Edit, RowFree, TypeOK, Request, Idle
<1>11. ASSUME NEW p \in Proc, Remove(p) PROVE VoteInv'
  BY <1>11, VotesOnOptions DEF Remove, RowFree, TypeOK, Request, Idle
<1>12. CASE Expire
  BY <1>0, <1>12 DEF Expire
<1>13. CASE UNCHANGED vars
  BY <1>0, <1>13 DEF vars
<1> HIDE DEF VoteInv
<1> QED
  BY <1>1, <1>2, <1>3, <1>4, <1>5, <1>6, <1>7, <1>8, <1>9, <1>10, <1>11, <1>12,
     <1>13 DEF Next, Serve

\* The invariant of the votes holds always.
LEMMA VoteInvariant == Spec => []VoteInv
<1>1. Init => VoteInv
  BY DEF Init, VoteInv, RowHeldOnce, RowThere, VotesReady, NotYet, SingleChoice,
         VotesOnLiveOptions, At, HasRow, Idle
<1> QED BY <1>1, VoteInvStep, TypeCorrect, PTL DEF Spec

\* One choice means one vote per person, for any number of concurrent votes.
THEOREM OneVoteInASingleChoicePoll == Spec => []SingleChoice
BY VoteInvariant, PTL DEF VoteInv

\* No vote is left for an option that is gone.
THEOREM VotesHaveTheirOption == Spec => []VotesOnLiveOptions
BY VoteInvariant, PTL DEF VoteInv

\* Only a person's own vote changes their choice among the options that stay.
THEOREM ChoicesAreOnesOwn == Spec => OnlyOwnVoteCounts
<1> DEFINE Own ==
      \A u \in User :
         \/ votes'[u] = votes[u] \cap options'
         \/ \E p \in Proc : At(p, "cleared") /\ req[p].who = u /\ At(p, "idle")'
<1>1. TypeOK /\ VoteInv /\ [Next]_vars => [Own]_vars
  <2> SUFFICES ASSUME TypeOK, VoteInv, Next PROVE Own
    BY DEF vars
  <2>1. ASSUME votes' = votes, options \subseteq options' PROVE Own
    BY <2>1 DEF VoteInv, VotesOnLiveOptions
  <2>2. ASSUME NEW ids \in SUBSET Option, NEW many \in BOOLEAN,
               NEW closes \in {"none", "later", "past"}, Create(ids, many, closes)
        PROVE  Own
    BY <2>1, <2>2 DEF Create, VoteInv, NotYet
  <2>3. ASSUME NEW p \in Proc, CastVotes(p) PROVE Own
    <3> SUFFICES ASSUME NEW u \in User
                 PROVE \/ votes'[u] = votes[u] \cap options'
                       \/ \E q \in Proc : At(q, "cleared") /\ req[q].who = u /\ At(q, "idle")'
      OBVIOUS
    <3>1. CASE u = req[p].who
      BY <2>3, <3>1 DEF CastVotes, At, Ends, Idle, TypeOK
    <3>2. CASE u # req[p].who
      BY <2>3, <3>2, CastEffect DEF CastVotes, VoteInv, VotesOnLiveOptions, TypeOK
    <3> QED BY <3>1, <3>2
  <2>4. ASSUME NEW p \in Proc, Edit(p) PROVE Own
    <3>1. CASE poll = "up"
      BY <2>4, <3>1, VotesOnOptions DEF Edit
    <3>2. CASE poll # "up"
      BY <2>1, <2>4, <3>2 DEF Edit
    <3> QED BY <3>1, <3>2
  <2>5. ASSUME NEW p \in Proc, Remove(p) PROVE Own
    BY <2>5, VotesOnOptions DEF Remove
  <2>6. ASSUME NEW p \in Proc, Connect(p) \/ LockPoll(p) \/ AssertSameHost(p) \/ ClearVotes(p)
                               \/ BeginRemove(p)
        PROVE  Own
    BY <2>1, <2>6 DEF Connect, LockPoll, AssertSameHost, ClearVotes, BeginRemove
  <2>7. ASSUME NEW p \in Proc, NEW u \in User, NEW ids \in SUBSET Option, BeginVote(p, u, ids)
        PROVE  Own
    BY <2>1, <2>7 DEF BeginVote
  <2>8. ASSUME NEW p \in Proc, NEW keep \in SUBSET Option, NEW fresh \in SUBSET Option,
               NEW at \in {"keep", "none", "later", "past"}, BeginEdit(p, keep, fresh, at)
        PROVE  Own
    BY <2>1, <2>8 DEF BeginEdit
  <2>9. CASE Expire
    BY <2>1, <2>9 DEF Expire
  <2> QED
    BY <2>2, <2>3, <2>4, <2>5, <2>6, <2>7, <2>8, <2>9 DEF Next, Serve
<1> QED BY <1>1, TypeCorrect, VoteInvariant, PTL DEF Spec, OnlyOwnVoteCounts

-----------------------------------------------------------------------------
\* A vote that passed the check holds the row, and nobody closes the poll without it.
OpenOnceCleared == \A p \in Proc : At(p, "cleared") => closing # "past"

LEMMA OpenOnceClearedStep ==
  TypeOK /\ VoteInv /\ OpenOnceCleared /\ [Next]_vars => OpenOnceCleared'
<1> SUFFICES ASSUME TypeOK, VoteInv, OpenOnceCleared, [Next]_vars PROVE OpenOnceCleared'
  OBVIOUS
<1> USE DEF OpenOnceCleared, At, Goes, Ends, TypeOK
\* A step that does not close the poll and clears no vote.
<1>0. ASSUME closing' = closing \/ closing' # "past",
             \A q \in Proc : req'[q] = req[q] \/ req'[q].step # "cleared"
      PROVE  OpenOnceCleared'
  BY <1>0
<1>1. ASSUME NEW ids \in SUBSET Option, NEW many \in BOOLEAN,
             NEW closes \in {"none", "later", "past"}, Create(ids, many, closes)
      PROVE  OpenOnceCleared'
  <2>1. \A q \in Proc : req[q].step # "cleared"
    BY <1>1 DEF Create, VoteInv, RowThere, HasRow
  <2> QED
    BY <1>1, <2>1 DEF Create
<1>2. ASSUME NEW p \in Proc, NEW u \in User, NEW ids \in SUBSET Option, BeginVote(p, u, ids)
      PROVE  OpenOnceCleared'
  BY <1>0, <1>2 DEF BeginVote, Idle
<1>3. ASSUME NEW p \in Proc, NEW keep \in SUBSET Option, NEW fresh \in SUBSET Option,
             NEW at \in {"keep", "none", "later", "past"}, BeginEdit(p, keep, fresh, at)
      PROVE  OpenOnceCleared'
  BY <1>0, <1>3 DEF BeginEdit, Idle
<1>4. ASSUME NEW p \in Proc, BeginRemove(p) \/ Remove(p) PROVE OpenOnceCleared'
  BY <1>0, <1>4 DEF BeginRemove, Remove, Idle
<1>5. ASSUME NEW p \in Proc, Connect(p) \/ LockPoll(p) \/ AssertSameHost(p) PROVE OpenOnceCleared'
  <2>1. closing' = closing /\ ((\E s \in Step \ {"cleared"} : Goes(p, s)) \/ Ends(p))
    BY <1>5 DEF Connect, LockPoll, AssertSameHost, Step
  <2>2. \A q \in Proc : req'[q] = req[q] \/ req'[q].step # "cleared"
    BY <2>1 DEF Idle, Request
  <2> QED
    BY <1>0, <2>1, <2>2
<1>6. ASSUME NEW p \in Proc, ClearVotes(p) PROVE OpenOnceCleared'
  <2>1. CASE Accepts(req[p].ids)
    BY <1>6, <2>1 DEF ClearVotes, Accepts, Closed
  <2>2. CASE ~Accepts(req[p].ids)
    BY <1>0, <1>6, <2>2 DEF ClearVotes, Idle
  <2> QED BY <2>1, <2>2
<1>7. ASSUME NEW p \in Proc, CastVotes(p) PROVE OpenOnceCleared'
  BY <1>0, <1>7 DEF CastVotes, Idle
<1>8. ASSUME NEW p \in Proc, Edit(p) PROVE OpenOnceCleared'
  BY <1>8 DEF Edit, RowFree, HasRow, Idle
<1>9. CASE Expire \/ UNCHANGED vars
  BY <1>0, <1>9 DEF Expire, vars
<1> QED
  BY <1>1, <1>2, <1>3, <1>4, <1>5, <1>6, <1>7, <1>8, <1>9 DEF Next, Serve

\* A poll its author has closed takes no vote, not even one that was under way: it finds
\* the poll closed once it has the row (vote, behind the lock).
THEOREM NoVoteAfterClosing == Spec => ClosedTakesNoVotes
<1> DEFINE Closes == closing = "past" => \A u \in User : votes'[u] \subseteq votes[u]
<1>1. Init => OpenOnceCleared
  BY DEF Init, OpenOnceCleared, At, Idle
<1>2. TypeOK /\ OpenOnceCleared /\ [Next]_vars => [Closes]_vars
  <2> SUFFICES ASSUME TypeOK, OpenOnceCleared, Next PROVE Closes
    BY DEF vars
  <2>1. ASSUME votes' = votes \/ \E opts : votes' = VotesOn(opts) PROVE Closes
    BY <2>1, VotesOnOptions
  <2>2. \A p \in Proc : CastVotes(p) => Closes
    BY DEF CastVotes, OpenOnceCleared
  <2>3. \A p \in Proc : Edit(p) \/ Remove(p) => Closes
    BY <2>1 DEF Edit, Remove
  <2>4. \A p \in Proc : Connect(p) \/ LockPoll(p) \/ AssertSameHost(p) \/ ClearVotes(p) \/ BeginRemove(p)
                        => Closes
    BY <2>1 DEF Connect, LockPoll, AssertSameHost, ClearVotes, BeginRemove
  <2>5. \A p \in Proc, u \in User, ids \in SUBSET Option : BeginVote(p, u, ids) => Closes
    BY <2>1 DEF BeginVote
  <2>6. \A p \in Proc, keep, fresh \in SUBSET Option, at \in {"keep", "none", "later", "past"} :
          BeginEdit(p, keep, fresh, at) => Closes
    BY <2>1 DEF BeginEdit
  <2>7. \A ids \in SUBSET Option, many \in BOOLEAN, closes \in {"none", "later", "past"} :
          Create(ids, many, closes) => Closes
    BY <2>1 DEF Create
  <2>8. Expire => Closes
    BY <2>1 DEF Expire
  <2> QED
    BY <2>2, <2>3, <2>4, <2>5, <2>6, <2>7, <2>8 DEF Next, Serve
<1> QED
  BY <1>1, <1>2, OpenOnceClearedStep, TypeCorrect, VoteInvariant, PTL DEF Spec, ClosedTakesNoVotes

-----------------------------------------------------------------------------
(* The pages.  Every row that was read stood in the tables at some moment  *)
(* since the request began (Held), and could collects what the viewer was  *)
(* entitled to at each of them.                                            *)
Tables == [club : [vis : V!Visibilities, suspended : BOOLEAN], role : {"none", "member", "admin"}, ask : BOOLEAN,
           group : V!Groups, crew : {"none", "member", "moderator"}, beg : BOOLEAN,
           poll : [inGroup : BOOLEAN, public : BOOLEAN, all : BOOLEAN, closed : BOOLEAN, own : BOOLEAN], site : BOOLEAN]

Held(n) ==
    \E d \in Tables : /\ V!Entitled(d) \subseteq could /\ d.poll.inGroup = db.poll.inGroup
                      /\ seen[n] = d[V!FieldOf(n)]

ViewInv ==
    /\ kind \in Endpoints /\ db \in Tables /\ moves \in Nat
    /\ V!Entitled(db) \subseteq could
    /\ \A n \in DOMAIN seen : Held(n)
    /\ moves = 0 => \A n \in DOMAIN seen : seen[n] = db[V!FieldOf(n)]

LEMMA ViewsBegin == V!Init => ViewInv
<1> SUFFICES ASSUME V!Init PROVE ViewInv
  OBVIOUS
<1>1. db \in Tables
  <2> PICK vis \in V!Visibilities, suspended \in BOOLEAN, role \in {"none", "member", "admin"} :
         \E ask \in IF kind \in V!CommunityKinds THEN BOOLEAN ELSE {FALSE},
            ballot \in IF kind \in V!HostKinds THEN V!Polls ELSE {V!NoPoll},
            beg \in IF kind \in V!GroupKinds THEN BOOLEAN ELSE {FALSE} :
          \E group \in IF kind \in V!GroupKinds \/ ballot.inGroup THEN V!Groups ELSE {"open"},
            crew \in IF kind \in V!GroupKinds \/ ballot.inGroup THEN {"none", "member", "moderator"} ELSE {"none"},
            site \in IF kind \in {"poll", "voters"} THEN BOOLEAN ELSE {FALSE} :
              db = [club |-> [vis |-> vis, suspended |-> suspended], role |-> role, ask |-> ask, group |-> group,
                    crew |-> crew, beg |-> beg, poll |-> ballot, site |-> site]
    BY DEF V!Init
  <2> PICK ask \in IF kind \in V!CommunityKinds THEN BOOLEAN ELSE {FALSE},
           ballot \in IF kind \in V!HostKinds THEN V!Polls ELSE {V!NoPoll},
           beg \in IF kind \in V!GroupKinds THEN BOOLEAN ELSE {FALSE} :
          \E group \in IF kind \in V!GroupKinds \/ ballot.inGroup THEN V!Groups ELSE {"open"},
            crew \in IF kind \in V!GroupKinds \/ ballot.inGroup THEN {"none", "member", "moderator"} ELSE {"none"},
            site \in IF kind \in {"poll", "voters"} THEN BOOLEAN ELSE {FALSE} :
              db = [club |-> [vis |-> vis, suspended |-> suspended], role |-> role, ask |-> ask, group |-> group,
                    crew |-> crew, beg |-> beg, poll |-> ballot, site |-> site]
    OBVIOUS
  <2> PICK group \in IF kind \in V!GroupKinds \/ ballot.inGroup THEN V!Groups ELSE {"open"},
           crew \in IF kind \in V!GroupKinds \/ ballot.inGroup THEN {"none", "member", "moderator"} ELSE {"none"},
           site \in IF kind \in {"poll", "voters"} THEN BOOLEAN ELSE {FALSE} :
              db = [club |-> [vis |-> vis, suspended |-> suspended], role |-> role, ask |-> ask, group |-> group,
                    crew |-> crew, beg |-> beg, poll |-> ballot, site |-> site]
    OBVIOUS
  <2>1. ask \in BOOLEAN /\ beg \in BOOLEAN /\ site \in BOOLEAN /\ crew \in {"none", "member", "moderator"}
    OBVIOUS
  <2>2. group \in V!Groups
    BY DEF V!Groups
  <2>3. ballot \in [inGroup : BOOLEAN, public : BOOLEAN, all : BOOLEAN, closed : BOOLEAN, own : BOOLEAN]
    <3>1. CASE kind \in V!HostKinds
      <4>1. ballot \in V!Polls
        BY <3>1
      <4>2. PICK S1 \in SUBSET BOOLEAN, S2 \in SUBSET BOOLEAN, S3 \in SUBSET BOOLEAN, S4 \in SUBSET BOOLEAN :
               ballot \in [inGroup : BOOLEAN, public : S1, all : S2, closed : S3, own : S4]
        BY <4>1, Zenon DEF V!Polls
      <4> QED BY <4>2
    <3>2. CASE kind \notin V!HostKinds
      <4>1. ballot = V!NoPoll
        BY <3>2
      <4>2. V!NoPoll = [inGroup |-> FALSE, public |-> FALSE, all |-> TRUE, closed |-> FALSE, own |-> FALSE]
        BY DEF V!NoPoll
      <4> QED BY <4>1, <4>2
    <3> QED BY <3>1, <3>2
  <2> QED BY <2>1, <2>2, <2>3 DEF Tables
<1>2. DOMAIN seen = {}
  BY DEF V!Init
<1> QED BY <1>1, <1>2 DEF V!Init, ViewInv

LEMMA RowsMove ==
  ASSUME ViewInv, NEW d \in Tables, d.poll.inGroup = db.poll.inGroup, V!Moved(d)
  PROVE  ViewInv'
<1>1. db' = d /\ could \subseteq could' /\ V!Entitled(d) \subseteq could' /\ moves' = moves + 1 /\ UNCHANGED <<kind, seen>>
  BY DEF V!Moved
<1>2. V!Entitled(db)' \subseteq could'
  BY <1>1
<1>3. ASSUME NEW n \in DOMAIN seen PROVE Held(n)'
  BY <1>1 DEF ViewInv, Held
<1> QED BY <1>1, <1>2, <1>3 DEF ViewInv

LEMMA ViewsGoOn == ViewInv /\ V!Next => ViewInv'
<1> SUFFICES ASSUME ViewInv, V!Next PROVE ViewInv'
  OBVIOUS
<1>0. db \in Tables
  BY DEF ViewInv
<1>1. CASE V!Read
  <2> PICK name : seen' = [n \in DOMAIN seen \cup {name} |-> IF n = name THEN db[V!FieldOf(n)] ELSE seen[n]]
    BY <1>1 DEF V!Read
  <2>1. UNCHANGED <<db, kind, could, moves>>
    BY <1>1 DEF V!Read
  <2>2. ASSUME NEW n \in DOMAIN seen' PROVE Held(n)'
    BY <2>1 DEF ViewInv, Held
  <2> QED BY <2>1, <2>2 DEF ViewInv
<1>2. ASSUME NEW d \in Tables, d.poll.inGroup = db.poll.inGroup, V!Moved(d) PROVE ViewInv'
  BY <1>2, RowsMove
<1>3. CASE V!SetVisibility \/ V!Suspend
  BY <1>0, <1>2, <1>3 DEF V!SetVisibility, V!Suspend, Tables
<1>4. CASE V!Ask \/ V!SetRole \/ V!Leave
  BY <1>0, <1>2, <1>4 DEF V!Ask, V!SetRole, V!Leave, Tables
<1>5. CASE V!SetGroup \/ V!SetCrew
  BY <1>0, <1>2, <1>5 DEF V!SetGroup, V!SetCrew, Tables, V!Groups
<1>6. CASE V!SetPoll
  BY <1>0, <1>2, <1>6 DEF V!SetPoll, V!Polls, Tables
<1> QED BY <1>1, <1>3, <1>4, <1>5, <1>6 DEF V!Next

\* What a list of names and conditions says.
LEMMA SaysWhatIs == \A is, name : name \in V!Flags(is) <=> name \in DOMAIN is /\ is[name]
BY DEF V!Flags

\* What the tables say of a viewer entitles to.
LEMMA EntitledBy ==
  ASSUME NEW d \in Tables, NEW E, E = V!Entitled(d)
  PROVE  /\ d.role # "none" => {"club", "member"} \subseteq E /\ (~d.poll.inGroup => "host" \in E)
         /\ d.role = "admin" => {"admin", "group", "crew", "moderator", "host", "moderates"} \subseteq E
         /\ d.crew # "none" => {"group", "crew"} \subseteq E /\ (d.poll.inGroup => "host" \in E)
         /\ d.crew = "moderator" => "moderator" \in E /\ (d.poll.inGroup => "moderates" \in E)
         /\ d.club.vis # "private" => "openClub" \in E /\ (~d.club.suspended => "club" \in E)
         /\ d.group # "invite" => {"group", "openGroup"} \subseteq E
         /\ d.poll.public => "openPoll" \in E
         /\ "host" \in E => IF d.poll.inGroup THEN d.role = "admin" \/ d.crew # "none" ELSE d.role # "none"
<1>1. /\ "club" \in E <=> d.role # "none" \/ (d.club.vis # "private" /\ ~d.club.suspended)
      /\ "member" \in E <=> d.role # "none"
      /\ "admin" \in E <=> d.role = "admin"
  BY DEF V!Entitled, V!Flags
<1>2. /\ "group" \in E <=> d.role = "admin" \/ d.crew # "none" \/ d.group # "invite"
      /\ "crew" \in E <=> d.role = "admin" \/ d.crew # "none"
      /\ "moderator" \in E <=> d.role = "admin" \/ d.crew = "moderator"
  BY DEF V!Entitled, V!Flags
<1>3. /\ "host" \in E <=> IF d.poll.inGroup THEN d.role = "admin" \/ d.crew # "none" ELSE d.role # "none"
      /\ "moderates" \in E <=> d.role = "admin" \/ (d.poll.inGroup /\ d.crew = "moderator")
  BY DEF V!Entitled, V!Flags
<1>4. /\ "openPoll" \in E <=> d.poll.public
      /\ "openClub" \in E <=> d.club.vis # "private"
      /\ "openGroup" \in E <=> d.group # "invite"
  BY DEF V!Entitled, V!Flags
<1> QED BY <1>1, <1>2, <1>3, <1>4

\* What a request may conclude from each row it read.
LEMMA ReadRows ==
  ASSUME ViewInv
  PROVE  /\ \A n \in {"role", "in", "still", "admin"} \cap DOMAIN seen :
              /\ seen[n] # "none" => {"club", "member"} \subseteq could /\ (~db.poll.inGroup => "host" \in could)
              /\ seen[n] = "admin" =>
                   {"admin", "group", "crew", "moderator", "host", "moderates"} \subseteq could /\ seen[n] # "none"
         /\ \A n \in {"crew", "inside", "seen"} \cap DOMAIN seen :
              /\ seen[n] # "none" => {"group", "crew"} \subseteq could /\ (db.poll.inGroup => "host" \in could)
              /\ seen[n] = "moderator" =>
                   "moderator" \in could /\ (db.poll.inGroup => "moderates" \in could) /\ seen[n] # "none"
         /\ "row" \in DOMAIN seen =>
              /\ seen["row"].vis # "private" =>
                   "openClub" \in could /\ (~seen["row"].suspended => "club" \in could)
         /\ "group" \in DOMAIN seen =>
              /\ seen["group"] # "invite" => {"group", "openGroup"} \subseteq could
         /\ "poll" \in DOMAIN seen =>
              /\ seen["poll"].public => "openPoll" \in could
              /\ seen["poll"].inGroup = db.poll.inGroup
<1>1. ASSUME NEW n \in {"role", "in", "still", "admin"} \cap DOMAIN seen
      PROVE  /\ seen[n] # "none" => {"club", "member"} \subseteq could /\ (~db.poll.inGroup => "host" \in could)
             /\ seen[n] = "admin" =>
                  {"admin", "group", "crew", "moderator", "host", "moderates"} \subseteq could /\ seen[n] # "none"
  <2> PICK d \in Tables : V!Entitled(d) \subseteq could /\ d.poll.inGroup = db.poll.inGroup /\ seen[n] = d[V!FieldOf(n)]
    BY DEF ViewInv, Held
  <2>1. V!FieldOf(n) = "role"
    BY DEF V!FieldOf
  <2> QED BY <2>1, EntitledBy
<1>2. ASSUME NEW n \in {"crew", "inside", "seen"} \cap DOMAIN seen
      PROVE  /\ seen[n] # "none" => {"group", "crew"} \subseteq could /\ (db.poll.inGroup => "host" \in could)
             /\ seen[n] = "moderator" =>
                  "moderator" \in could /\ (db.poll.inGroup => "moderates" \in could) /\ seen[n] # "none"
  <2> PICK d \in Tables : V!Entitled(d) \subseteq could /\ d.poll.inGroup = db.poll.inGroup /\ seen[n] = d[V!FieldOf(n)]
    BY DEF ViewInv, Held
  <2>1. V!FieldOf(n) = "crew"
    BY DEF V!FieldOf
  <2> QED BY <2>1, EntitledBy
<1>3. ASSUME "row" \in DOMAIN seen
      PROVE  seen["row"].vis # "private" => "openClub" \in could /\ (~seen["row"].suspended => "club" \in could)
  <2> PICK d \in Tables : V!Entitled(d) \subseteq could /\ seen["row"] = d[V!FieldOf("row")]
    BY <1>3 DEF ViewInv, Held
  <2>1. V!FieldOf("row") = "club"
    BY DEF V!FieldOf
  <2> QED BY <2>1, EntitledBy
<1>4. ASSUME "group" \in DOMAIN seen
      PROVE  seen["group"] # "invite" => {"group", "openGroup"} \subseteq could
  <2> PICK d \in Tables : V!Entitled(d) \subseteq could /\ seen["group"] = d[V!FieldOf("group")]
    BY <1>4 DEF ViewInv, Held
  <2>1. V!FieldOf("group") = "group"
    BY DEF V!FieldOf
  <2> QED BY <2>1, EntitledBy
<1>5. ASSUME "poll" \in DOMAIN seen
      PROVE  (seen["poll"].public => "openPoll" \in could) /\ seen["poll"].inGroup = db.poll.inGroup
  <2> PICK d \in Tables : V!Entitled(d) \subseteq could /\ d.poll.inGroup = db.poll.inGroup
                          /\ seen["poll"] = d[V!FieldOf("poll")]
    BY <1>5 DEF ViewInv, Held
  <2>1. V!FieldOf("poll") = "poll"
    BY DEF V!FieldOf
  <2> QED BY <2>1, EntitledBy
<1> QED BY <1>1, <1>2, <1>3, <1>4, <1>5

\* The rows each endpoint reads.
LEMMA RowsRead ==
  /\ V!Names("findAll") = {"row", "role", "ask"}
  /\ V!Names("findMine") = {"role", "row"}
  /\ V!Names("findBySlug") = {"row", "in", "still", "role", "ask"}
  /\ \A k \in {"members", "requests"} : V!Names(k) = {"row", "role"}
  /\ V!Names("groups") = {"row", "in", "admin", "group", "inside", "crew", "beg", "still"}
  /\ V!Names("group") = {"row", "in", "group", "admin", "inside", "seen", "crew", "beg", "still"}
  /\ \A k \in {"crew", "begs"} : V!Names(k) = {"row", "in", "group", "admin", "inside", "crew"}
  /\ \A k \in {"polls", "poll", "voters", "posts"} : V!Names(k) = {"row", "role", "group", "crew", "poll"}
BY DEF V!Names, V!Script, V!Range

\* What each endpoint's answer rests on.
LEMMA WhenServed ==
  ASSUME V!Given.served, kind \in DOMAIN V!Script, NEW host, host = V!ResolveHost(seen, FALSE), db.site = FALSE
  PROVE  /\ kind = "findAll" => seen.row.vis # "private" /\ ~seen.row.suspended
         /\ kind = "findMine" => seen.role # "none"
         /\ kind = "findBySlug" => V!FoundBySlug(seen)
         /\ kind = "members" => seen.role # "none"
         /\ kind = "requests" => seen.role = "admin"
         /\ kind = "groups" => V!ReadableCommunity(seen) /\ V!CanSee(seen.group, seen.admin = "admin", seen.inside)
         /\ kind = "group" => V!RequireVisible(seen)
         /\ kind = "crew" => V!RequireVisible(seen) /\ (seen.admin = "admin" \/ seen.crew # "none")
         /\ kind = "begs" => V!RequireManageable(seen)
         /\ kind \in {"polls", "posts"} => host.isMember
         /\ kind = "poll" => host.isMember \/ (seen.poll.public /\ V!CanBePublic(seen))
         /\ kind = "voters" => host.canModerate
<1>1. CASE kind \in {"findAll", "findMine", "findBySlug"}
  BY <1>1 DEF V!Given, V!Answer, V!FindAll, V!FindMine, V!FindBySlug, V!Only, V!Refused, V!Page
<1>2. CASE kind \in {"members", "requests"}
  BY <1>2 DEF V!Given, V!Answer, V!ListMembers, V!ListJoinRequests, V!Plain, V!Page
<1>3. CASE kind \in {"groups", "group"}
  BY <1>3 DEF V!Given, V!Answer, V!ListSubgroups, V!FindSubgroup, V!Only, V!Refused, V!Page
<1>4. CASE kind \in {"crew", "begs"}
  BY <1>4 DEF V!Given, V!Answer, V!ListCrew, V!ListCrewRequests, V!Plain, V!Page
<1>5. CASE kind \in {"polls", "posts"}
  BY <1>5 DEF V!Given, V!Answer, V!ListPolls, V!ListPosts, V!Only, V!Refused, V!Page
<1>6. CASE kind = "poll"
  BY <1>6 DEF V!Given, V!Answer, V!FindPoll, V!Only, V!Refused, V!Page
<1>7. CASE kind = "voters"
  BY <1>7 DEF V!Given, V!Answer, V!Voters, V!Plain, V!Page
<1> QED BY <1>1, <1>2, <1>3, <1>4, <1>5, <1>6, <1>7 DEF V!Script

\* Only who was entitled is served.
LEMMA OnlyTheEntitled == ViewInv => V!ServedToTheEntitled
<1> SUFFICES ASSUME ViewInv, V!Done, V!Given.served, ~db.site, NEW need \in V!Needs(kind) PROVE need \cap could # {}
  BY DEF V!ServedToTheEntitled
<1> DEFINE host == V!ResolveHost(seen, FALSE)
<1>0. kind \in DOMAIN V!Script /\ DOMAIN seen = V!Names(kind) /\ db.site = FALSE
  BY EndpointsAssumption DEF ViewInv, V!Done, Tables
<1>1. CASE kind \in {"findAll", "findMine", "findBySlug"}
  <2>1. need = {"club"}
    BY <1>1 DEF V!Needs
  <2> QED BY <1>0, <1>1, <2>1, WhenServed, ReadRows, RowsRead DEF V!FoundBySlug
<1>2. CASE kind \in {"members", "requests"}
  <2>1. need = IF kind = "members" THEN {"member"} ELSE {"admin"}
    BY <1>2 DEF V!Needs
  <2> QED BY <1>0, <1>2, <2>1, WhenServed, ReadRows, RowsRead
<1>3. CASE kind \in {"groups", "group", "crew", "begs"}
  <2>1. need \in {{"club"}, {"group"}, {"crew"}, {"moderator"}}
    BY <1>3 DEF V!Needs
  <2>2. V!ReadableCommunity(seen) /\ V!CanSee(seen.group, seen.admin = "admin", seen.inside)
    BY <1>0, <1>3, WhenServed DEF V!RequireManageable, V!RequireVisible
  <2>3. {"row", "in", "group", "admin", "inside", "crew"} \subseteq DOMAIN seen
    BY <1>0, <1>3, RowsRead
  <2>4. "club" \in could
    BY <2>2, <2>3, ReadRows DEF V!ReadableCommunity
  <2>5. "group" \in could
    BY <2>2, <2>3, ReadRows DEF V!CanSee
  <2>6. need = {"crew"} => "crew" \in could
    <3> SUFFICES ASSUME need = {"crew"} PROVE "crew" \in could
      OBVIOUS
    <3>1. kind = "crew"
      BY <1>3 DEF V!Needs
    <3> QED BY <1>0, <2>3, <3>1, WhenServed, ReadRows
  <2>7. need = {"moderator"} => "moderator" \in could
    <3> SUFFICES ASSUME need = {"moderator"} PROVE "moderator" \in could
      OBVIOUS
    <3>1. kind = "begs"
      BY <1>3 DEF V!Needs
    <3> QED BY <1>0, <2>3, <3>1, WhenServed, ReadRows DEF V!RequireManageable
  <2> QED BY <2>1, <2>4, <2>5, <2>6, <2>7
<1>4. CASE kind \in {"polls", "poll", "voters", "posts"}
  <2>1. {"row", "role", "group", "crew", "poll"} \subseteq DOMAIN seen
    BY <1>0, <1>4, RowsRead
  <2>2. seen.poll.inGroup = db.poll.inGroup
    BY <2>1, ReadRows
  <2>3. host.isMember => "host" \in could
    BY <2>1, <2>2, ReadRows DEF V!ResolveHost
  <2>4. host.canModerate => "moderates" \in could
    BY <2>1, <2>2, ReadRows DEF V!ResolveHost
  <2>5. CASE kind \in {"polls", "posts"}
    <3>1. need = {"host"}
      BY <2>5 DEF V!Needs
    <3> QED BY <1>0, <2>3, <2>5, <3>1, WhenServed
  <2>6. CASE kind = "voters"
    <3>1. need = {"moderates"}
      BY <2>6 DEF V!Needs
    <3> QED BY <1>0, <2>4, <2>6, <3>1, WhenServed
  <2>7. CASE kind = "poll"
    <3>1. need \in {{"host", "openPoll"}, {"host", "openClub"},
                    {"host", "openGroup", IF db.poll.inGroup THEN "host" ELSE "openClub"}}
      BY <2>7 DEF V!Needs
    <3>2. ~host.isMember => "openPoll" \in could /\ "openClub" \in could /\ (db.poll.inGroup => "openGroup" \in could)
      BY <1>0, <2>1, <2>2, <2>7, WhenServed, ReadRows DEF V!CanBePublic
    <3> QED BY <2>3, <3>1, <3>2
  <2> QED BY <1>4, <2>5, <2>6, <2>7
<1> QED BY <1>0, <1>1, <1>2, <1>3, <1>4 DEF V!Script

\* While no row moved, what was read is what is there.
LEMMA AsTheyAre ==
  ASSUME ViewInv, moves = 0
  PROVE  /\ \A n \in {"role", "in", "still", "admin"} \cap DOMAIN seen : seen[n] = db.role
         /\ \A n \in {"crew", "inside", "seen"} \cap DOMAIN seen : seen[n] = db.crew
         /\ "row" \in DOMAIN seen => seen.row = db.club
         /\ "group" \in DOMAIN seen => seen.group = db.group
         /\ "poll" \in DOMAIN seen => seen.poll = db.poll
<1>1. \A n \in {"role", "in", "still", "admin"} : V!FieldOf(n) = "role"
  BY DEF V!FieldOf
<1>2. \A n \in {"crew", "inside", "seen"} : V!FieldOf(n) = "crew"
  BY DEF V!FieldOf
<1>3. V!FieldOf("row") = "club" /\ V!FieldOf("group") = "group" /\ V!FieldOf("poll") = "poll"
  BY DEF V!FieldOf
<1> QED BY <1>1, <1>2, <1>3 DEF ViewInv

\* What an operation reads now.
LEMMA RowsNow ==
  /\ LET now == V!Rows("requests") IN now.row = db.club /\ now.role = db.role
  /\ LET now == V!Rows("begs") IN
     now.row = db.club /\ now.in = db.role /\ now.group = db.group /\ now.admin = db.role
     /\ now.inside = db.crew /\ now.crew = db.crew
  /\ \A k \in {"poll", "voters"} :
       LET now == V!Rows(k) IN
       now.row = db.club /\ now.role = db.role /\ now.group = db.group /\ now.crew = db.crew /\ now.poll = db.poll
<1>1. \A n \in {"role", "in", "admin"} : V!FieldOf(n) = "role"
  BY DEF V!FieldOf
<1>2. \A n \in {"crew", "inside"} : V!FieldOf(n) = "crew"
  BY DEF V!FieldOf
<1>3. V!FieldOf("row") = "club" /\ V!FieldOf("group") = "group" /\ V!FieldOf("poll") = "poll"
  BY DEF V!FieldOf
<1>4. \A k : V!Rows(k) = [n \in V!Names(k) |-> db[V!FieldOf(n)]]
  BY DEF V!Rows
<1>5. \A k, n : n \in V!Names(k) => V!Rows(k)[n] = db[V!FieldOf(n)]
  BY <1>4
<1> QED BY <1>1, <1>2, <1>3, <1>5, RowsRead

\* A host is the same to whoever reads the same.
LEMMA SameHost ==
  ASSUME NEW r, NEW q, NEW b, r.row = q.row, r.role = q.role, r.group = q.group, r.crew = q.crew, r.poll = q.poll
  PROVE  V!ResolveHost(r, b) = V!ResolveHost(q, b) /\ (V!CanBePublic(r) <=> V!CanBePublic(q))
BY DEF V!ResolveHost, V!CanBePublic

\* The buttons are what the services accept.
LEMMA ButtonsAreAccepted == ViewInv => V!ButtonsDo
<1> SUFFICES ASSUME ViewInv, V!Done, V!Given.served, moves = 0, V!OneOfTheHost, NEW op \in V!Offered(kind)
             PROVE  op \in V!Given.can <=> V!Accepts(op)
  BY DEF V!ButtonsDo
<1>0. kind \in DOMAIN V!Script /\ DOMAIN seen = V!Names(kind) /\ db \in Tables
  BY EndpointsAssumption DEF ViewInv, V!Done
<1>1. CASE kind = "findBySlug"
  <2>1. op = "requests"
    BY <1>1 DEF V!Offered
  <2>2. V!Given.can = V!Flags([requests |-> TRUE /\ seen.role = "admin"])
    BY <1>1 DEF V!Given, V!Answer, V!FindBySlug, V!Only, V!Refused, V!Page, V!SerializeCommunity
  <2>3. V!Accepts("requests") <=> V!Rows("requests").role = "admin"
    BY DEF V!Accepts, V!ListJoinRequests, V!Plain, V!Page
  <2>4. seen.role = db.role
    BY <1>0, <1>1, AsTheyAre, RowsRead
  <2>5. op \in V!Flags([requests |-> TRUE /\ seen.role = "admin"]) <=> seen.role = "admin"
    BY <2>1 DEF V!Flags
  <2> QED BY <2>1, <2>2, <2>3, <2>4, <2>5, RowsNow
<1>2. CASE kind \in {"groups", "group"}
  <2> DEFINE now == V!Rows("begs")
  <2>1. op = "begs"
    BY <1>2 DEF V!Offered
  <2>2. V!Given.can = V!Flags([begs |-> seen.still = "admin" \/ seen.crew = "moderator"])
    BY <1>2 DEF V!Given, V!Answer, V!ListSubgroups, V!FindSubgroup, V!Only, V!Refused, V!Page, V!SerializeSubgroup
  <2>3. V!Accepts("begs") <=> V!RequireManageable(now)
    BY DEF V!Accepts, V!ListCrewRequests, V!Plain, V!Page
  <2>4. /\ seen.still = db.role /\ seen.admin = db.role /\ seen.in = db.role /\ seen.row = db.club
        /\ seen.crew = db.crew /\ seen.inside = db.crew /\ seen.group = db.group
    BY <1>0, <1>2, AsTheyAre, RowsRead
  <2>5. op \in V!Given.can <=> seen.still = "admin" \/ seen.crew = "moderator"
    BY <2>1, <2>2 DEF V!Flags
  <2>6. V!ReadableCommunity(seen) /\ V!CanSee(seen.group, seen.admin = "admin", seen.inside)
    BY <1>2 DEF V!Given, V!Answer, V!ListSubgroups, V!FindSubgroup, V!Only, V!Refused, V!Page, V!RequireVisible
  <2>7. V!RequireVisible(now)
    BY <2>4, <2>6, RowsNow DEF V!RequireVisible, V!ReadableCommunity, V!CanSee
  <2>8. V!RequireManageable(now) <=> db.role = "admin" \/ db.crew = "moderator"
    BY <2>7, RowsNow DEF V!RequireManageable
  <2> QED BY <2>1, <2>3, <2>4, <2>5, <2>8
<1>3. CASE kind \in {"polls", "poll", "posts"}
  <2> DEFINE host == V!ResolveHost(seen, FALSE)
             now == V!ResolveHost(V!Rows("poll"), FALSE)
  <2>1. db.site = FALSE /\ "host" \in V!Entitled(db)
    BY <1>0, <1>3 DEF V!OneOfTheHost, V!HostKinds, Tables
  <2>2. /\ seen.row = db.club /\ seen.role = db.role /\ seen.group = db.group /\ seen.crew = db.crew
        /\ seen.poll = db.poll
    BY <1>0, <1>3, AsTheyAre, RowsRead
  <2>3. host = now /\ host = V!ResolveHost(V!Rows("voters"), FALSE)
        /\ (V!CanBePublic(V!Rows("poll")) <=> V!CanBePublic(seen))
    <3>1. ASSUME NEW k \in {"poll", "voters"}
          PROVE  /\ V!ResolveHost(seen, FALSE) = V!ResolveHost(V!Rows(k), FALSE)
                 /\ V!CanBePublic(seen) <=> V!CanBePublic(V!Rows(k))
      <4> PICK q : q = V!Rows(k)
        OBVIOUS
      <4>1. seen.row = q.row /\ seen.role = q.role /\ seen.group = q.group /\ seen.crew = q.crew /\ seen.poll = q.poll
        BY <2>2, RowsNow
      <4>2. V!ResolveHost(seen, FALSE) = V!ResolveHost(q, FALSE) /\ (V!CanBePublic(seen) <=> V!CanBePublic(q))
        BY <4>1, SameHost
      <4> QED BY <4>2
    <3> QED BY <3>1
  <2>4. host.isMember
    <3>1. IF db.poll.inGroup THEN db.role = "admin" \/ db.crew # "none" ELSE db.role # "none"
      BY <1>0, <2>1, EntitledBy
    <3> QED BY <2>2, <3>1 DEF V!ResolveHost
  <2>5. host.found
    BY <1>3, <2>1 DEF V!Given, V!Answer, V!ListPolls, V!ListPosts, V!FindPoll, V!Only, V!Refused, V!Page
  <2> HIDE DEF host, now
  <2>6. /\ V!Accepts("vote") <=> ~db.poll.closed
        /\ V!Accepts("voters") <=> host.canModerate
        /\ V!Accepts("edit") <=> db.poll.own
        /\ V!Accepts("delete") <=> db.poll.own \/ host.canModerate
        /\ V!Accepts("publish") <=> V!CanBePublic(seen)
    <3> USE <2>3, <2>4, <2>5 DEF now
    <3>1. V!Accepts("vote") <=> ~db.poll.closed
      BY DEF V!Accepts
    <3>2. V!Accepts("voters") <=> host.canModerate
      BY <2>1 DEF V!Accepts, V!Voters, V!Plain, V!Page
    <3>3. V!Accepts("edit") <=> db.poll.own
      BY DEF V!Accepts
    <3>4. V!Accepts("delete") <=> db.poll.own \/ host.canModerate
      BY DEF V!Accepts
    <3>5. V!Accepts("publish") <=> V!CanBePublic(seen)
      BY DEF V!Accepts
    <3> QED BY <3>1, <3>2, <3>3, <3>4, <3>5
  <2>7. CASE kind \in {"polls", "poll"}
    <3>1. op \in {"vote", "voters", "edit", "delete", "publish"}
      BY <2>7 DEF V!Offered
    <3>2. V!Given.can = V!SerializePoll(seen, host, FALSE).can
      BY <2>1, <2>7 DEF V!Given, V!Answer, V!ListPolls, V!FindPoll, V!Only, V!Refused, V!Page, host
    <3>3. V!Given.can = V!Flags([vote |-> host.isMember /\ ~seen.poll.closed, voters |-> host.canModerate,
                                 edit |-> seen.poll.own, delete |-> seen.poll.own \/ host.canModerate,
                                 publish |-> V!CanBePublic(seen)])
      BY <3>2 DEF V!SerializePoll, V!Page
    <3>4. /\ "vote" \in V!Given.can <=> host.isMember /\ ~seen.poll.closed
          /\ "voters" \in V!Given.can <=> host.canModerate
          /\ "edit" \in V!Given.can <=> seen.poll.own
          /\ "delete" \in V!Given.can <=> seen.poll.own \/ host.canModerate
          /\ "publish" \in V!Given.can <=> V!CanBePublic(seen)
      BY <3>3 DEF V!Flags
    <3> QED BY <2>2, <2>4, <2>6, <3>1, <3>4
  <2>8. CASE kind = "posts"
    <3>1. op \in {"edit", "delete"}
      BY <2>8 DEF V!Offered
    <3>2. V!Given.can = V!Flags([edit |-> seen.poll.own, delete |-> seen.poll.own \/ host.canModerate])
      BY <2>8 DEF V!Given, V!Answer, V!ListPosts, V!Only, V!Refused, V!Page, V!SerializePost, host
    <3>3. /\ "edit" \in V!Given.can <=> seen.poll.own
          /\ "delete" \in V!Given.can <=> seen.poll.own \/ host.canModerate
      BY <3>2 DEF V!Flags
    <3> QED BY <2>2, <2>6, <3>1, <3>3
  <2> QED BY <1>3, <2>7, <2>8
<1>4. CASE kind \in {"findAll", "findMine", "members", "requests", "crew", "begs", "voters"}
  BY <1>4 DEF V!Offered
<1> QED BY <1>0, <1>1, <1>2, <1>3, <1>4 DEF V!Script

\* The picture's link has a token where it needs one.
LEMMA PicturesAreThere == ViewInv => V!PicturesLoad
<1> SUFFICES ASSUME ViewInv, V!Done, V!Given.served, V!Given.signed # null
             PROVE  /\ moves = 0 => (V!Given.signed <=> V!Restriction(kind) = "signed")
                    /\ ~V!Given.signed =>
                         {"openClub"} \cup (IF kind \in V!GroupKinds THEN {"openGroup"} ELSE {}) \subseteq could
  BY DEF V!PicturesLoad
<1>0. kind \in DOMAIN V!Script /\ DOMAIN seen = V!Names(kind)
  BY EndpointsAssumption DEF ViewInv, V!Done
<1>1. CASE kind \in {"findAll", "findMine", "findBySlug"}
  <2>1. V!Given.signed <=> seen.row.vis = "private"
    BY <1>1 DEF V!Given, V!Answer, V!FindAll, V!FindMine, V!FindBySlug, V!Only, V!Refused, V!Page, V!SerializeCommunity
  <2>2. kind \notin V!GroupKinds /\ "row" \in DOMAIN seen
    BY <1>0, <1>1, RowsRead DEF V!GroupKinds
  <2>3. V!Restriction(kind) = "signed" <=> db.club.vis = "private"
    BY <2>2 DEF V!Restriction
  <2> QED BY <2>1, <2>2, <2>3, AsTheyAre, ReadRows
<1>2. CASE kind \in {"groups", "group"}
  <2>1. V!Given.signed <=> seen.row.vis = "private" \/ seen.group = "invite"
    BY <1>2 DEF V!Given, V!Answer, V!ListSubgroups, V!FindSubgroup, V!Only, V!Refused, V!Page, V!SerializeSubgroup,
                V!ImagesRestricted
  <2>2. kind \in V!GroupKinds /\ "row" \in DOMAIN seen /\ "group" \in DOMAIN seen
    BY <1>0, <1>2, RowsRead DEF V!GroupKinds
  <2>3. V!Restriction(kind) = "signed" <=> db.club.vis = "private" \/ db.group = "invite"
    BY <2>2 DEF V!Restriction
  <2> QED BY <2>1, <2>2, <2>3, AsTheyAre, ReadRows
<1>3. CASE kind \in {"members", "requests", "crew", "begs", "voters"}
  <2>1. V!Given.signed = null
    BY <1>3 DEF V!Given, V!Answer, V!ListMembers, V!ListJoinRequests, V!ListCrew, V!ListCrewRequests, V!Voters, V!Plain,
                V!Page
  <2> QED BY <2>1
<1>4. CASE kind \in {"polls", "poll", "posts"}
  <2>1. V!Given.signed = null
    BY <1>4 DEF V!Given, V!Answer, V!ListPolls, V!FindPoll, V!ListPosts, V!Only, V!Refused, V!Page, V!SerializePoll,
                V!SerializePost
  <2> QED BY <2>1
<1> QED BY <1>0, <1>1, <1>2, <1>3, <1>4 DEF V!Script

-----------------------------------------------------------------------------
\* Whatever else changes while a page is put together row by row, only somebody who was entitled
\* at some moment of the request is served (resolveHost, requireVisible and the checks beside
\* them), a page offers members the operations that accept them, and its picture loads: for any
\* choice of endpoints and any number of changes.
THEOREM PagesAreRight == HostSpec => []PagesKeepToRights
<1> DEFINE I == part = "views" => ViewInv
           all == <<part, vars, views>>
<1>1. HostInit => I
  BY ViewsBegin DEF HostInit, PagesInit
<1>2. I /\ [HostNext]_all => I'
  <2> SUFFICES ASSUME I, [HostNext]_all, part' = "views" PROVE ViewInv'
    OBVIOUS
  <2>1. CASE ViewsStep
    BY <2>1, ViewsGoOn DEF ViewsStep
  <2>2. CASE PollsStep
    BY <2>2 DEF PollsStep
  <2>3. CASE Answered \/ UNCHANGED all
    <3>1. UNCHANGED <<part, db, kind, seen, could, moves>>
      BY <2>3 DEF Answered, all, views
    <3>2. ViewInv
      BY <3>1
    <3> QED BY <3>1, <3>2 DEF ViewInv, Held
  <2> QED BY <2>1, <2>2, <2>3 DEF HostNext
<1>3. I => PagesKeepToRights
  BY OnlyTheEntitled, ButtonsAreAccepted, PicturesAreThere
     DEF PagesKeepToRights, ServedToTheEntitled, ButtonsWork, V!ButtonsWork
<1> QED BY <1>1, <1>2, <1>3, PTL DEF HostSpec
=============================================================================
