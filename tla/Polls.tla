-------------------------------- MODULE Polls --------------------------------
(***************************************************************************)
(* A poll of a community or a subgroup: create, update, vote and remove of *)
(* communities/community-polls.service.ts, run by concurrent requests that *)
(* share one PostgreSQL connection pool.                                   *)
(*                                                                         *)
(* A vote runs in a transaction that locks the poll's row, checks the host *)
(* through a repository outside that transaction - on a second connection  *)
(* of the same pool - and then replaces the voter's own votes.  An edit    *)
(* reads the options before its transaction, and that transaction waits    *)
(* for the row when it writes the poll.                                    *)
(***************************************************************************)
EXTENDS Naturals, FiniteSets

CONSTANTS
    User,       \* accounts
    Author,     \* the member who creates the poll
    Option,     \* option ids, each handed out once
    Proc,       \* concurrent requests
    PoolSize,   \* connections of the pool
    MinOptions, \* ArrayMinSize of the request's options
    MaxOptions, \* ArrayMaxSize of the request's options
    Ops         \* operations in play

ASSUME AuthorAssumption == Author \in User
ASSUME PoolAssumption == PoolSize \in Nat \ {0}
ASSUME OptionAssumption == IsFiniteSet(Option)

VARIABLES
    poll,     \* whether the row is there: "none", "up" or "gone"
    multiple, \* whether it takes several choices
    closing,  \* closesAt: "none", "later", "past" (set so), "expired" (by the clock)
    options,  \* ids of its options
    spent,    \* ids handed out so far
    votes,    \* the options each account has voted for
    req       \* what each request is doing

vars == <<poll, multiple, closing, options, spent, votes, req>>

Closing == {"none", "later", "past", "expired"}
Step == {"idle", "vote", "voteOpen", "locked", "checked", "cleared",
         "edit", "editOpen", "remove", "removeOpen"}

\* What a request carries: ids is a vote's choice, seen the options an edit
\* has read, keep and fresh the options it asks for, held the votes a vote deletes.
Request == [step: Step, who: User, ids: SUBSET Option, seen: SUBSET Option,
            keep: SUBSET Option, fresh: SUBSET Option, held: SUBSET Option,
            closesAt: Closing \cup {"keep"}]

Idle == [step |-> "idle", who |-> Author, ids |-> {}, seen |-> {}, keep |-> {},
         fresh |-> {}, held |-> {}, closesAt |-> "keep"]

-----------------------------------------------------------------------------
At(p, s) == req[p].step = s
Goes(p, s) == req' = [req EXCEPT ![p].step = s]
Ends(p) == req' = [req EXCEPT ![p] = Idle]

\* Requests inside a transaction, each on a connection of its own.
Holding == {p \in Proc : req[p].step \in
              {"voteOpen", "locked", "checked", "cleared", "editOpen", "removeOpen"}}

\* A query outside a transaction takes a connection and gives it back.
ConnectionFree == Cardinality(Holding) < PoolSize

HasRow(p) == req[p].step \in {"locked", "checked", "cleared"}

\* Fault: the vote reads the poll without FOR UPDATE.
RowFree_NotLocked == TRUE

\* SELECT ... FOR UPDATE, and the UPDATE and DELETE of the row, wait for its holder.
RowFree == \A p \in Proc : ~HasRow(p)

Closed == closing \in {"past", "expired"}

Sized(S) == Cardinality(S) \in MinOptions .. MaxOptions

-----------------------------------------------------------------------------
Init ==
    /\ poll = "none"
    /\ multiple = FALSE
    /\ closing = "none"
    /\ options = {}
    /\ spent = {}
    /\ votes = [u \in User |-> {}]
    /\ req = [p \in Proc |-> Idle]

\* create: the poll and its options in one transaction.
Create(ids, many, closes) ==
    /\ poll = "none"
    /\ Sized(ids)
    /\ poll' = "up"
    /\ multiple' = many
    /\ closing' = closes
    /\ options' = ids
    /\ spent' = spent \cup ids
    /\ UNCHANGED <<votes, req>>

\* requireHost lets in who is a member of the host at that moment - any account
\* may be - and everything else is checked under the lock.
BeginVote(p, u, ids) ==
    /\ "vote" \in Ops
    /\ At(p, "idle") /\ ConnectionFree
    /\ poll # "none"
    /\ ids # {} /\ ids \subseteq spent
    /\ req' = [req EXCEPT ![p] = [Idle EXCEPT !.step = "vote", !.who = u, !.ids = ids]]
    /\ UNCHANGED <<poll, multiple, closing, options, spent, votes>>

\* Opening a transaction takes a connection until it ends.
Connect(p) ==
    /\ ConnectionFree
    /\ \/ At(p, "vote") /\ Goes(p, "voteOpen")
       \/ At(p, "edit") /\ Goes(p, "editOpen")
       \/ At(p, "remove") /\ Goes(p, "removeOpen")
    /\ UNCHANGED <<poll, multiple, closing, options, spent, votes>>

\* The vote has the poll's row, or finds it deleted.
LockPoll(p) ==
    /\ At(p, "voteOpen") /\ RowFree
    /\ IF poll = "up" THEN Goes(p, "locked") ELSE Ends(p)
    /\ UNCHANGED <<poll, multiple, closing, options, spent, votes>>

\* assertSameHost reads the poll with this.polls, on another connection.
AssertSameHost(p) ==
    /\ At(p, "locked") /\ ConnectionFree
    /\ Goes(p, "checked")
    /\ UNCHANGED <<poll, multiple, closing, options, spent, votes>>

\* Fault: the deadline is checked before the transaction only.
Accepts_Closed(ids) ==
    /\ multiple \/ Cardinality(ids) = 1
    /\ ids \subseteq options

\* The poll is open, and the choice fits it.
Accepts(ids) ==
    /\ ~Closed
    /\ multiple \/ Cardinality(ids) = 1
    /\ ids \subseteq options

\* The votes the DELETE of vote removes.
OwnVotes(u) == votes[u]

ClearVotes(p) ==
    /\ At(p, "checked")
    /\ IF Accepts(req[p].ids)
       THEN req' = [req EXCEPT ![p].step = "cleared", ![p].held = OwnVotes(req[p].who)]
       ELSE Ends(p)
    /\ UNCHANGED <<poll, multiple, closing, options, spent, votes>>

\* The INSERTs and the commit.
CastVotes(p) ==
    /\ At(p, "cleared")
    /\ votes' = [votes EXCEPT ![req[p].who] = (@ \ req[p].held) \cup req[p].ids]
    /\ Ends(p)
    /\ UNCHANGED <<poll, multiple, closing, options, spent>>

\* update reads the poll with its options; ids it does not have are refused.
BeginEdit(p, keep, fresh, closesAt) ==
    /\ "edit" \in Ops
    /\ At(p, "idle") /\ ConnectionFree
    /\ poll = "up"
    /\ keep \subseteq options
    /\ fresh \subseteq Option \ spent
    /\ Sized(keep \cup fresh)
    /\ spent' = spent \cup fresh
    /\ req' = [req EXCEPT ![p] = [Idle EXCEPT !.step = "edit", !.seen = options,
                                    !.keep = keep, !.fresh = fresh, !.closesAt = closesAt]]
    /\ UNCHANGED <<poll, multiple, closing, options, votes>>

\* What the edit's transaction leaves of the options: those it read and did
\* not keep go, a kept one that is gone is updated in vain.
Edited(p) == (options \ (req[p].seen \ req[p].keep)) \cup req[p].fresh

\* Fault: the edit deletes every option it read and inserts the list again.
VotesOn_Recount(opts) == [u \in User |-> {}]

\* Votes go with their option (ON DELETE CASCADE).
VotesOn(opts) == [u \in User |-> votes[u] \cap opts]

\* On a poll deleted in between the INSERT of an option fails, the rest is in vain.
Edit(p) ==
    /\ At(p, "editOpen") /\ RowFree
    /\ IF poll = "up"
       THEN /\ options' = Edited(p)
            /\ votes' = VotesOn(Edited(p))
            /\ closing' = IF req[p].closesAt = "keep" THEN closing ELSE req[p].closesAt
       ELSE UNCHANGED <<options, votes, closing>>
    /\ Ends(p)
    /\ UNCHANGED <<poll, multiple, spent>>

\* remove is for the author and the host's moderators; both look the same here.
BeginRemove(p) ==
    /\ "remove" \in Ops
    /\ At(p, "idle") /\ ConnectionFree
    /\ poll = "up"
    /\ req' = [req EXCEPT ![p] = [Idle EXCEPT !.step = "remove"]]
    /\ UNCHANGED <<poll, multiple, closing, options, spent, votes>>

Remove(p) ==
    /\ At(p, "removeOpen") /\ RowFree
    /\ poll' = "gone"
    /\ options' = {}
    /\ votes' = VotesOn({})
    /\ Ends(p)
    /\ UNCHANGED <<multiple, closing, spent>>

\* The clock passes closesAt.
Expire ==
    /\ closing = "later"
    /\ closing' = "expired"
    /\ UNCHANGED <<poll, multiple, options, spent, votes, req>>

Serve(p) ==
    \/ Connect(p) \/ LockPoll(p) \/ AssertSameHost(p)
    \/ ClearVotes(p) \/ CastVotes(p) \/ Edit(p) \/ Remove(p)

Next ==
    \/ \E ids \in SUBSET Option, many \in BOOLEAN, closes \in {"none", "later", "past"} :
          Create(ids, many, closes)
    \/ \E p \in Proc :
          \/ \E u \in User, ids \in SUBSET Option : BeginVote(p, u, ids)
          \/ \E keep, fresh \in SUBSET Option, at \in {"keep", "none", "later", "past"} :
                BeginEdit(p, keep, fresh, at)
          \/ BeginRemove(p)
          \/ Serve(p)
    \/ Expire

Spec == Init /\ [][Next]_vars

\* The pool and the row's lock serve their waiters in turn, so a request whose
\* next step is possible again and again takes it.
FairSpec == Spec /\ \A p \in Proc : SF_vars(Serve(p))

-----------------------------------------------------------------------------
\* The state is of the shape the rows and requests can have: the options of
\* the poll, and those an edit brings, are among the ids handed out.
TypeOK ==
    /\ poll \in {"none", "up", "gone"}
    /\ multiple \in BOOLEAN
    /\ closing \in Closing
    /\ options \subseteq spent
    /\ spent \subseteq Option
    /\ votes \in [User -> SUBSET Option]
    /\ req \in [Proc -> Request]
    /\ \A p \in Proc : req[p].fresh \subseteq spent

\* A poll with a single choice counts one vote per person, however many votes
\* of that person run at once (the row lock of vote).
SingleChoice ==
    ~multiple => \A u \in User : \A a, b \in votes[u] : a = b

\* Every vote is for an option the poll still has: an edit between the check
\* of a vote and its INSERT cannot leave a vote for a removed option.
VotesOnLiveOptions == \A u \in User : votes[u] \subseteq options

\* Nothing but a person's own vote changes what that person chose among the
\* options that stay: "Options that keep their id keep their votes".
OnlyOwnVoteCounts ==
    [][\A u \in User :
         \/ votes'[u] = votes[u] \cap options'
         \/ \E p \in Proc : At(p, "cleared") /\ req[p].who = u /\ At(p, "idle")']_vars

\* Once the author has closed the poll no vote is added, not even one that was
\* under way: it finds the poll closed when it gets the row.
ClosedTakesNoVotes ==
    [][closing = "past" => \A u \in User : votes'[u] \subseteq votes[u]]_vars

\* A poll has two to twelve options: MinOptions to MaxOptions here.
TwoToTwelveOptions == poll = "up" => Sized(options)

\* Every request is answered: its transaction gets its connections and locks.
RequestsEnd == \A p \in Proc : ~At(p, "idle") ~> At(p, "idle")

=============================================================================
