# Verification of VeloCal

VeloCal is a calendar of cycling events with communities, subgroups, polls,
invitations, news, race series and an importer: a NestJS server on PostgreSQL
(`src/backend`) and an Angular client (`src/frontend`). This directory models the
parts of both where the outcome depends on what happens at the same time, in
which order, or at a boundary. TLC checks them on small instances, and TLAPS
proves the main properties of the server for all instances.

Contents: [inventory](#inventory), [from code to model](#from-code-to-model),
[modules](#modules), [runs](#runs), [further statements](#further-statements),
[where code and documents disagree](#where-code-and-documents-disagree),
[observations](#observations), [proofs](#proofs),
[what is not modelled](#what-is-not-modelled), [plan](#plan).

## Inventory

All server parts live in one Node process. They call each other's services
directly, share one PostgreSQL database (READ COMMITTED) through one pool of ten
connections, and keep little in memory. Every request is a chain of `await`s, so
requests interleave at each query. There are few transactions, and fewer locks:
`FOR UPDATE` on a community's, a poll's or a user's row, and one advisory lock.
The browser runs one event loop per tab; tabs share `localStorage`; answers come
in any order, and most pages neither drop nor number their requests.

| component | state | operations | hard behaviour | what makes it correct | module |
|---|---|---|---|---|---|
| Communities (`communities/communities.service.ts`) | `communities`, `community_members`, `community_join_requests` | create, update, remove, join, leave, roles, remove member, invite, approve, reject | checks before the transaction, two admins leaving at once, deletion under way | a community with members has an admin; a suspended one is read-only | Communities |
| Addresses (`admin-communities.service.ts`, `slug-replace.component.ts`) | slugs, links in inbox entries | rename, replace in many | a plan read before the transaction, two admins | links follow the pages | Addresses |
| Account deletion, clean-up (`account-deletion.service.ts`, `community-cleanup.service.ts`) | all rows of a person, of a page | hand over, delete, sweep, cascades, notices | roles read before locks, work after the commit | no community without an admin, reports end, no dangling links | Communities, Accounts, Inbox, Posts |
| Subgroups (`subgroups.service.ts`) | `subgroups`, members, requests | create, update, open, remove, join, leave, invite, decide, roles | writes with and without the community's lock | a subgroup member is a community member; requests are answered | Subgroups, NestedMembership |
| Polls (`community-polls.service.ts`) | polls, options, votes | create, update, vote, remove, expiry | votes at once, edit against vote, pool | one vote where one is allowed, no vote after closing | Polls |
| Pages of communities (the `find` and `serialize` methods, `image-access.service.ts`) | none | serve a page to a viewer | rows read one by one while they move | nobody is served what they never had a right to; buttons work; pictures load | Views |
| Posts, comments, reports | rows per author | create, remove, report, resolve | the page goes meanwhile | reports end with what they are about; notices lead somewhere | Posts |
| Hosted and shared events (`events/events.service.ts`) | `events`, shares, answers, comments, pace groups | create, update, remove, stop, share, answer, comment | stale saves, unique keys, audiences in three versions of SQL | what people see agrees with what they may do | Hosting |
| Repeating events, duplicates, racing (`recurrence.ts`, `event-duplicates.service.ts`, `racing.ts`) | rules, ignored pairs, a cache | lay out, scan, ignore, match | daylight saving, order of joins, edges of ages | reference definitions | Recurrence, Duplicates, Racing |
| Import (`import.service.ts`, `import-diff.ts`, `import-file.ts`) | a flag in memory, `import_runs`, imported events | check a file, start, plan, save, flag, end, recover | crash and restart, two triggers, corrections by hand, partial fetches | every run ends, corrections survive, only what is unlisted is flagged | ImportJobs, ImportSync, ImportFile |
| News and race series (`posts.service.ts`, `series.service.ts`) | rows, tags, entries | create, edit, link, remove | look for an address, then insert; tags outside the save | first free address, tags of one edit | Articles |
| Pictures and routes (`uploads.service.ts`, `routes.service.ts`) | files beside rows | upload, remove, serve, open | no transaction covers both, the process may stop | rows have their files | Files |
| Invitations and inbox (`notifications.service.ts`) | invitations, `notifications` | invite, mail, read, remove | a cap shared by concurrent mails, a crash between stamp and mail | one mail per person and event, the cap holds | Inbox |
| Push (`push.service.ts` of server and client) | registrations, the browser's subscription | subscribe, renew, deliver, prune, sign out | stale counts, a device that changes hands | the next user gets nothing once either undoing of a sign-out is through; only dead devices go | Push |
| Sign-in, users (`auth/`, `users/`) | codes, links, accounts, a cache | request, verify, reset, profile, ban, role, delete | guesses at once, tokens used twice, whole-row saves | attempts bounded, spent stays spent, bans are lifted on purpose | Accounts |
| Session (client: `auth.service.ts`, interceptors, guards, profile) | token, who is shown | restore, sign in and out, save | late answers, two tabs | who is shown is who acts | Session |
| Search pages (client: list, map, calendar) | filters, timers, results | type, pick, place, page | answers and the session in any order | the page shows what it asks | Finder |
| Pages of one thing, lists of people (client) | copies of answers | act, load again | overlapping answers | copies are true | Details, Rosters |
| Form of an event (client) | controls | load, edit, save in three requests | time zones, failures, other people | what is saved is what was entered | EventForm |
| Geocoding, parking, mail, audit, analytics, SEO, changelog, bad words, configuration, migrations, disciplines | caches, append-only rows | | outside services | | - |

How they interact: events, polls, posts and pages ask the membership tables of
communities and subgroups; leaving a community reaches into subgroups; suspending
one makes subgroups, events and feeds read-only; deleting a community cascades to
events, polls, posts and invitations and removes files; deleting an account touches
all of them; the importer writes the events that forms edit and the series that
people edit; most operations write notifications, which push sends on; every page
depends on the session.

`PROJECT.json` lists every component and, under `hazards`, what is hard to test
in this code, at its line, with the properties that watch it.

## From code to model

- **One action per atomic step.** A handler that takes the row lock first is one
  action. A handler that reads, awaits and then writes is `BeginX` (what it read
  goes into `req[p]`) and `X`. A transaction that others can interleave with
  inside is cut at the places where that can be seen.
- **Entities.** TypeORM's `save` reads the row again, writes every column in
  which the entity differs, and inserts when the row is gone. So a stale `save`
  overwrites columns nobody meant to write and brings back removed rows.
- **Locks.** `FOR UPDATE` on a parent row also blocks the inserts of rows that
  refer to it (`Locked`, `Held`, `RowFree`).
- **Cascades.** A foreign key with `ON DELETE CASCADE` is part of the action that
  deletes the parent (`DeleteRow`, `Remove`, `DeleteRows`, `DropEvents`).
- **Requests.** `Proc` bounds the requests in flight at the server. In the browser a
  request is an element of `net`: the server serves it (`Serve`), and its answer comes in
  any order, or it fails.
- **Effects of the client.** A signal's effect, a timer and a subscription are actions of
  their own, enabled by what they wait for; what `switchMap`, `distinctUntilChanged` and
  `takeUntilDestroyed` drop is dropped in the action that causes it.
- **Data.** Names, texts, addresses and times are left out unless a property tells
  them apart; ids are model values or numbers handed out in order.
- **Mixes.** Where all operations at once are too many, `Mixes` is a set of sets of
  operations and a behaviour draws one. Each mix holds the operations that touch the same
  rows; together they are all operations.
- **Faults.** An operator named `Name_Suffix`, with a comment that begins `Fault:`,
  is a plausible mistake in the code behind `Name`. No specification uses it:
  with it in place of `Name`, TLC finds the property of the same run violated, which
  shows that the property depends on that piece of code.

## Modules

`MCM` declares the values, symmetry and properties of module `M`, and `MProofs` holds its
theorems. Several `MC` modules host more than one component: a behaviour belongs to one
of them, named in `part`, and the variables of the others rest. They share a run, and
nothing else. `HostSpec` is all parts at once, `XAlone` one of them.

| module | models | state | actions |
|---|---|---|---|
| Communities | one or more communities, their members and queue, suspension, deletion of accounts | `life`, `vis`, `suspended`, `role`, `pending`, `deleted`: the tables; `req`: what unfinished requests have read | `BeginCreate`/`Create`, `BeginSave`/`Save` (settings; opening admits the queue), `BeginRemove`/`Remove`, `BeginJoin`/`Enter`/`Ask`, `BeginInvite`, `Approve`, `Reject`, `Leave`, `UpdateMemberRole`, `RemoveMember`, `Suspend`, `Unsuspend`, `BeginDeleteAccount`, `DeleteAccount`, `Sweep`, `EndSweep`, `Abort`; which of several heirs is the longest-standing is left open |
| Subgroups | one subgroup table under one community | `crew` (the community), members, requests, `req` | joining, approving and inviting take the community's lock and look again (`OfCrew`); `Create`, `UpdateMemberRole`, `Admit`/`CommitOpen` do not; `LeaveCommunity` with `DropSubgroupAccess` |
| NestedMembership | abstract specification of the two membership tables, from docs/COMMUNITIES.md | `outer`, `inner` | entering a group needs membership outside, and leaving outside leaves all groups; `Subgroups` implements it (`KeepsPromise`, with `outer <- Crew`, `inner <- Members`) without the unlocked writes |
| Polls | one poll, its options and votes, the pool | rows, `spent` ids, `req` | `BeginVote`, `Connect`, `LockPoll`, a check on a second connection, `ClearVotes`, `CastVotes`; edit, close, remove, `Expire` |
| Views | who is served a page, what it says of the viewer and which buttons it shows | `db`: all the tables say of one viewer; `seen`: what the request read; `could`: what the viewer was entitled to since it began | a read of one row at a time; a row moves in between (`MaxMoves`) |
| Details | pages of a community, subgroup, poll, post, event and its comments | `db`, signals of the page, `net` | each act, `Serve`, each answer, the restored session, somebody else's change |
| Rosters | lists of members and of requests | the same, a timer for suggestions | filter, page, role, remove, invite, decide; list, refresh and suggestions arrive |
| Posts | the feed of a community and a subgroup, reports, notices, the deletion of pages | pages, `posts`, `comments`, `reports`, `inbox`, `req` | create and remove with their notices in steps, report, resolve, `CloseReports`/`DeleteRows`/`TellMembers` of a deletion |
| Addresses | the admins' tool that replaces text in slugs, beside another admin who renames | `slug`, `link`, the page, the server's plan | preview, tick, apply, plan, transaction, rename; a slug is the number of its letters |
| Hosting | events and their audiences | people, `events`, `groups`, `shares`, `rsvps`, `comments`, `req` | a `BeginX` with the checks and an `X` with the write for create, update, remove, stop, groups, share, unshare, answer, comment; memberships and suspension change; `Found`, `Page`, `OnHostPage`, `Upcoming` are the views |
| EventForm | the form, in the browser's zone, and the three requests of a save | `form`, `touched`, `stage`, `parts`, `ev` | `Enter`, `OnSubmit`, `Update`, `SetPart`, their failures, lost answers, somebody else's change; time in thirds of a day |
| Files | the files of one picture, or of one route, beside its rows | `row`, `dir`, `kept` (browsers); `files`, `gpx`, `cache` | an upload opens (and empties) and writes variant by variant, in place, then saves the row it read; a write fails or stops midway; removals file by file, whole-row saves, `Serve`, `Stop` of the server |
| Articles | news, their tags and race series, with the series an import links | `rows`, `stages`, `req` | `LookUp` of one address at a time, `Clear` of tags, `Save`, `Linked`, `SaveStage`, `Remove` |
| Accounts | accounts, codes and links of one address, the cached state | `users`, `codes`, `links`, `cache`, `req` | issue, claim, consume, sign in; reset in four steps; profile, ban, role and deletion as whole-row saves; `Tick` |
| Session | the tabs of one browser that two people use | `tab`, `token`, `stored`, `net` | bootstrap, hydrate, restore, sign in (three ways), sign out, profile, guards, refusals and failures |
| Push | registrations of one device, on both sides | `dev`, `subs`, `flow`, `calls` (removals a sign-out sent), `sends`; `failed`, `why` (history) | enable, disable (the browser drops the subscription, the server is told: either may fail), renew, sign in; sign out, which asks the server (`UnsubscribeAtLogout`) and the browser (`Detached`) to forget the device, each later, or never; reload, `Upsert`/`Prune`, `BeginDeliver`/`Send`/`Record` |
| Inbox | invitations to events, entries and mails | rows, `mails` and `lost` (history), `req` | `BeginInvite`, `Record`, `Count` under the advisory lock, `Claim`, `Send`, `GiveBack`; `MarkRead`; events, accounts and the community go; `NextMonth`, `Crash` |
| Finder | list, map and calendar of events | filters, timers, the stream, loads, the address | each filter, timer, effect, position, postcode and answer |
| ImportJobs | the flag, `import_runs`, runs in the process | `flag`, rows, `exec`, `req` | start, end, fail, crash, boot, recovery |
| ImportSync | one import against events that people correct | `row`, `job`, `edit`; `corrected` (history): the records corrected since the import last read an event | `Fetch`, per record `Plan` and `SaveRecord` or `SaveFails`, `Stamp`, `Flag`, `RunFails`; `BeginUpdate`/`Update` |
| ImportFile | validation of an import file, its confirmation, and what the run marks as missing | the file, `kept`, `issues`; `stored` (what decides of an event whether it is marked), `job`, `work` (the run), `correction` (a request of `events.service.ts`); `flagged` and `past` (history: what the admin was told of, which saves failed, what others wrote since) | one event of the file per step, `CheckFile`, `StartFileImport`; the run record by record (`CreateEvent`, `UpdateEvent`, `KeepEvent`, `SkipRecord`, `SaveFails`), `Stamp`, `Flag`, `RunFails`; meanwhile a correction, another import, time |
| Recurrence, Racing, Duplicates | algorithms, each against a definition written independently of the code's loop | | one turn of the loop per step; a scan with its cache |

The hosts: `MCCommunities` (Communities, Details, Rosters), `MCPolls` (Polls, Views),
`MCInbox` (Inbox, Finder), `MCAccounts` (Accounts, Session), `MCHosting` (Hosting,
EventForm, Files), `MCSubgroups` (Subgroups, Articles), `MCPages` (Posts, Addresses),
`MCCalendar` (ImportJobs, ImportSync, ImportFile, Recurrence, Racing, Duplicates; ImportJobsFull
checks the first alone, as `JobsAlone`). `MCPush` hosts one.

The modules share tables but are checked apart: `Subgroups`, `Hosting` and `Posts`
change the membership of the community by an action that stands for any operation of
`Communities`, and an event of `Inbox` is a bare id.

## Runs

`tlc -config X.cfg MCM` in this directory; the number is that of distinct states.

| run | states | parts | properties |
|---|---|---|---|
| CommunitiesFull | 791,000 | every operation on a community by three accounts in two requests; the pages of one thing and lists of people, two acts and one change by others | `AdminsLostOnlyToStaleDeletion`, `FreezeWins`; `PagesAreTrue`: when nothing is under way, a page shows what the server holds, up to what the named causes explain, and a list fits its filters and its page |
| CommunitiesOrphan | - | create, join, deletion | `SuccessorFound`, violated |
| SubgroupsFull | 297,000 | every operation; news and series in five mixes | `StraysOnlyWithoutLock`: only a write without the community's lock puts somebody into a subgroup but not its community; `Answered`: a request disappears only with an answer, or with an opening that chose whom to admit before it came; `NewsAndSeriesStand` |
| SubgroupsPromise | 116,274 | without the unlocked writes | `KeepsPromise` (refinement of `NestedMembership`) |
| ImportJobsFull | 106,058 | two crashes, failures, both kinds of import | `NoForgottenRun`, `RunsEnd` (under fairness) |
| PollsFull | 576,000 | votes, edits, closing, removal at once; thirteen endpoints read row by row | `SingleChoice`, `OnlyOwnVoteCounts`, `ClosedTakesNoVotes`; `PagesKeepToRights`: only somebody entitled at some moment of the request is served, and what a page offers works |
| InboxFull | 695,000 | three invitations of one person to two events over the turn of a month, a stop, deletions; list, map and calendar with three acts | `ClaimsWithinCap`, `CountsMatchMails`, `MailedOnce`; `ShowsWhatIsAsked` |
| AccountsFull | 998,000 | codes, links, forms, bans, roles, deletion in six mixes; two tabs of two people in seven | `AttemptsBounded`, `SpentStaysSpent`, `CacheIsFresh`, `LiftedOnlyBySave`; `ShownIsActing` |
| HostingFull | 1,386,000 | Hosting in six mixes; the form in three zones; a picture and a route | `PeopleSeeWhatTheyMay`, `RoutesBroughtByOwners`, `StopTakesTheRest`; `SavedAsEntered`; `RowsShowPictures`, `RowsHaveTheirFile` |
| PushFull | 1,219,000 | one device, two people, two page calls and two messages at once | `NextUserGetsNothing`: a sign-out leaves messages to the next user only while both of its undoings are under way or when both failed, or in three named orders; `FailuresCounted`, `DevicesBounded` |
| PagesFull | 1,010,000 | feed, reports and deletions in five mixes; addresses | `ReportsAreSettled`; `LinksLeadOn` |
| CalendarFull | 816,000 | imports against corrections in four mixes (of one event with two fields while the source stays or changes; of two events without corrections); files with any two fields off, and good files imported over any events while others write them; occurrences; riders; groups | `CorrectionsOutliveImports`, `ImportsFollowTheSource`, `FilesAreReadAsDocumented`; `MarksNothingUnconfirmed`: a run marks what the admin was told of and confirmed, and beside it only events whose save failed and those others wrote, or that began, meanwhile; `OccurrencesStand`, `CategoriesPartition`, `GroupsAreComponents` |

Every property has a mutant in `PROJECT.json`. The types of Communities, Subgroups,
ImportJobs, Polls, Inbox, Accounts, Push, Posts and Addresses are proved, those of Hosting as
far as its invariants need them, those of ImportSync as `SyncTypes`.

**Conditions inside properties.** Many properties of the browser name the causes for which they
do not hold (`cause`, `spoiled`, `past`: history variables that only properties read). Each such
cause is a behaviour of the code, listed under [observations](#observations); the
property says that there is no other.

**Bounds, and why they are enough.** The races of this code are between two
requests, and need at most a third person: an admin who leaves, one who is
promoted, one who inherits. So two request slots and three accounts show each of them;
a slot is free again when its request ends, so server runs cover sequences of any length
unless a bound below ends them.

- Ids that are handed out: `Events` and `Shares` 2, `Pages` 2, `Posts` 2, `Comments` 1,
  `Reports` 2 (a removed one and its successor), `Endpoints` and `Rows` 2, `MaxItems` 2.
- `Variant` two, as a logo has (other pictures have three): one is whole while the other is written.
  `MaxRequests` 3 for files (an upload, a removal and a save), 3 to 5 by mix for news and
  series (a create and then two edits at once; `requests` in `ArticleMixes`), 2 in Addresses.
- `MaxActs` 2 or 3 things a person does on a page and `MaxMoves` 1 change by somebody
  else: the overlaps of interest are of two requests, and a third act can follow. Sequences of more
  acts only repeat them on a page that is again at rest.
- `MaxCrashes` 2 for the importer (a crash during the recovery), 1 for invitations.
- Limits are small so that they are met: `Cap` 1, `MinOptions` 1, `MaxOptions` 2, `MaxAttempts` 2,
  `Ttl` 2, `Turns` 3 (somebody signs in, out, and the next one in), `MaxDevices` 1, `MaxFailures` 3, `MaxFiles` 2, `CacheSize` 1. The pool has one
  connection more than there are requests.
- The inbox has two events, so that one person's mails compete for the cap, and two months.
- Recurrence runs over a change of the clock in either direction, Racing over the ages on both sides of each
  edge, Duplicates over all relations on three events.

The theorems cover all other sizes of what they are about.

**Fairness.** `Communities!Fairness` and `ImportJobs!Fairness` are weak fairness of
steps that Node or Docker drive and nothing else can disable for ever: the rest of
a deletion, the end of a run (each fetch has a timeout), the restart
(`restart: unless-stopped`) and the recovery. `Polls!FairSpec` asks for strong
fairness of each request's next step: pool and row lock queue their waiters first
come, first served, so a request whose step becomes possible again and again gets
its turn. `Push!Fairness` is for messages to an endpoint: that they keep coming is the premise of
`DeadEndpointsGo`, and each is answered (`sendNotification` has a timeout) and recorded. No request of a
person is ever assumed to be sent.

`CHECK_DEADLOCK FALSE` stands where the system may come to rest: communities,
polls, pages and events are removed for good and their ids are not used
again, runs and acts are bounded.

## Further statements

Modules also state what one would expect and the code does not keep. Each is a
definition with a comment that names the cause. To see the counterexample,
replace the properties of the configuration by the statement (and the constants
as given). `F!`, `D!`, `N!` and `S!` stand for a module the host instantiates under that
letter: give the host a definition for the statement, such as
`TagsSurvive == N!TagsSurvive`, as a configuration names no instance.

| configuration | statement | why it fails |
|---|---|---|
| CommunitiesFull | `RemovedStaysRemoved`, `SuspensionStands`, `InvitesNoShell` | a save or an invitation of what was read before |
| | `OnlyMemberlessSwept` | somebody joins between the deletion's commit and its sweep |
| | `NobodyWaitsInPublic` | a request filed while the community opens |
| | `KnowsTheViewer`, `ErrorGivesWay` | a page opened by link is asked for before the session is restored, and an error stays |
| | `SelectionStands`, `OneChangeAtATime` (`MaxActs` 3) | a late suggestion list or list answer resets what the page was doing |
| SubgroupsFull | `MembersAreCrew`, `FreezeHolds`, `RemovedStaysRemoved` | the writes without the community's lock; a check before the suspension; a stale save |
| | `N!TagsSurvive`, `N!RemovedStays`, `N!AddressStays` | tags go before the save that fails; whole-row saves; the form always sends the name |
| PollsFull | `TwoToTwelveOptions` | two edits that each count on the options they read |
| PollsFull (`PagesSpec`) | `SiteAdminsModerate` | a site admin is offered to delete a poll of a community and refused |
| ImportJobsFull | `CooldownHolds`, `OneAtATime`, `RecoveryFailsOnlyOrphans` | failed runs do not count; test and set of the flag are apart; a run that starts before the recovery has read the list |
| CalendarFull | `S!CorrectionsStand`, `S!FlagsOnlyMissing` | an import saves an event it read before the correction; a record that could not be saved, or whose stamp was overwritten, is flagged |
| | `F!NamedAreNotMarked` | an event the file names but that cannot be read, or could not be saved, counts as absent |
| | `D!AnswersKnowDismissals` | a scan that began before a dismissal fills the cache after it |
| InboxFull | `NothingKept`, `RemovedStaysRemoved` | reading an entry saves it, also after its removal |
| InboxFull (`InboxAlone`, `Ops` `{"event"}`) | `CapHolds` | rows counted for the cap go with the event |
| InboxFull | `MapShowsTheSearch`, `ErrorsAreSurvived`, `ReloadKeepsTheSearch` | answers without a number; an error that stays; filters the address does not keep |
| AccountsFull | `BanStands`, `DeletedStays`, `NoBannedAdmin` | whole-row saves |
| | `WordsStayOnesOwn` (`MaxActs` 3), `FollowsLocale` | another tab signs in; the first sign-in with no stored locale |
| HostingFull | `GoingIsCounted`, `OneList`, `MeetupNotWiped`, `NothingRevived`, `PagesGoToo` | answers of people who left, two audiences, stale saves, a series stopped while it is edited |
| | `F!ClearedIsCleared`, `F!EndsAfterStart`, `F!ClassesOnTheDay`, `F!UntouchedStays`, `F!AllOrNothing`, `F!OthersStand`, `F!OneEventPerForm` (`MaxActs` 4), `F!FormsCanBeSent` (`Locales` `{"en"}`) | see the form below |
| | `D!FilesWithinLimit`, `D!OnePlaceEach`, `D!NoLeftovers`, `D!Immutable`, `D!RemovedStays` | files and rows are written one after the other |
| PushFull (`Mixes` `{{"toggle", "session"}}`) | `OnReceives` | signing out on a device that is being enabled |
| PagesFull | `EntriesStay` (`Mixes` `{{"write", "drop", "renew", "members"}}`), `AppliesWhatIsShown`, `FreePlansApply` | a second deletion at the same address; a plan read before another admin's change |

These hold: `CommunitiesEmptied.cfg` checks that a community emptied by a deletion goes
(`EmptiedCommunitiesGo`, under fairness), `PollsEnd.cfg` that every request on a poll ends
when the pool has more connections than requests (`RequestsEnd`); with as many requests as
connections, `PollsStuck.cfg` violates it. `AlwaysAdmin` holds for communities without
account deletions and removals (it is also proved), and `D!CacheIsSmall` in HostingFull.
`Push!DeadEndpointsGo` states, for `Push!FairSpec`, that a device that is never reached is dropped.

## Where code and documents disagree

One disagreement is a run of its own, with the lines quoted in `PROJECT.json`:
**CommunitiesOrphan.** `deleteAccount` reads the roles before it locks the
communities. Two admins who delete themselves, or a promotion in between, leave
a community without an admin, against docs/COMMUNITIES.md and the comment at the
lock.

The others are among the further statements:

- `OneAtATime`: `startImport` tests the flag and sets it after two more awaits,
  so two triggers start two runs, against docs/IMPORTING.md.
- `RequestsEnd`: `vote` reads through a repository outside its transaction while it
  holds a connection; as many votes as the pool has connections wait for each
  other for ever.
- `CapHolds`: the mails of a month are counted on rows that are deleted with the
  event or the reader's account, so more than 400 can go out, against
  docs/COMMUNITIES.md.
- `Push!FailuresCounted` holds in this form only: a registration "that failed this many sends in a row is
  dropped", says the comment at `MAX_FAILURES` in `push.service.ts`, but a message that read the registration
  before another one reached the device and reset the count still adds to what it read, and may drop it.
- `D!Immutable`: the comment at the cache headers of `uploads.controller.ts` calls
  an address immutable; overlapping uploads and failed ones put other bytes under it.
- `SiteAdminsModerate`: the comment at the permissions of a poll grants site
  admins a button that the server refuses.

## Observations

What reading and checking showed beside the above; each is either a cause named
in a property or a choice in a model.

Server
- Whoever wrote a public poll and left still sees `canEdit` and is refused.
- A page reads row by row, so two changes in between can combine two moments in it.
- The hourly limits of codes and of reset links never bind: the cooldown is stricter.
- Two right guesses at once both sign in. A link that was removed meanwhile is
  inserted again when it is marked as used.
- Opening a subgroup approves the requests it finds at its end but admits those it had chosen before:
  who asked in between, or came into the community, is approved and not a member (`Overlooked`).
- An import of a file marks as missing, without a warning that said so, an event the file lists when its
  record could not be saved, and an event of the source that others moved or added after the check; a
  correction read before the run's stamp and saved after it makes a listed event marked.
- An answer to a share of a suspended community stays on the list of upcoming events.
- Clean-up leaves an inbox entry that is written late, and the second deletion of a
  subgroup clears entries of a new one at the same address. Reports filed between
  its update and its delete stay open, as do those on comments of a removed post.
- A series whose first time occurs twice (clock set back) may move its first start.
- Overlapping uploads mix variants of two pictures, and two writes of one variant mix in the file;
  a failed or stopped upload leaves new files, and the one it was writing cut off, under the old
  address, where browsers keep what they got; the next upload mends it. An upload that overlaps a removal brings the row back. The limit and the order of
  GPX files are exceeded and collide. Files without rows stay after a restart.
- News: `findBySlug` serves drafts, and the list gives drafts to whoever asks for
  that status. An edit that names a tag twice is refused after its tags were deleted.
- Series: every edit by the form makes a new address; `updateEvent` brings back a removed entry;
  an import overwrites stage and label set by hand; a stale save undoes the import's rename.

Browser
- Signing out undoes a device's messages by two calls, to the server and to the browser, and swallows
  the failure of each: when both fail, or a reload cuts them off, the next user of the device gets the
  messages of the former. Turning messages off says "off" as well when the browser refuses to
  drop the subscription, and then does not tell the server: messages go on.
- Map and calendar are loaded anonymously and not again for the signed-in viewer.
- Typing the same postcode again after clearing it is ignored; a postcode found for a position
  arrives after the position was cleared; earlier dates on the map are not loaded; "all events" and a
  cleared place are not kept in the address.
- A community, subgroup or poll opened by link shows the anonymous view; an event page that was
  not found anonymously keeps the error after it loads again.
- An older suggestion request that fails clears newer suggestions; any list answer
  resets `mutating`.
- Form of an event: its text in English cannot be sent; a cleared text or end date is kept; an end day
  without time ends at midnight, before the start; an unknown start becomes a known one in other
  zones, and a known midnight unknown; a moved date leaves the start times of classes on the
  old day; a save of several requests is partly applied on failure, and one that fails leaves the
  others under way; when the answer to a creation is lost, the second try makes a second event.
- Session: late answers of `restoreSession` and `updateCurrentUser` show a user after
  sign-out; a late failure or a 401 removes a newer token; a network failure or an error of the server
  signs out; a profile form saves to the account of another tab; the answer of `requestOtp`
  overrides the choice of the password form; the last discipline cannot be unticked; filter
  preferences are not fetched again when one signs in over a session.

## Proofs

`tlapm MProofs.tla` checks them; those of the modules `MCCalendar` hosts are in `CalendarProofs`,
those of Posts and Addresses, which `MCPages` composes, in `InboxProofs`.
They assume only the `ASSUME`s of the modules, which say of the constants what the code and
the database do: finite sets of accounts, options, events, persons, communities, subgroups and requests, no community a subgroup; a pool, a
cap and limits of at least one; that `None` and `Nothing` (NULL) are no ids, people,
pictures, instants or answers, nor is a file that was cut off a picture, and a page shows one of a picture's variants; that the marks of an import file (nothing, NULL, another type, a text
of spaces, too short, too long or unknown) differ from each other and from what else a field
may have; that codes and links differ; that the pages to search on are list, map and
calendar, the lists of people those of members, of a subgroup and of those who ask, and the
pages of one thing the six of `Details`; that the mixes and operations are some; that zones are within 15 hours of UTC, in
the form of an event any whole number of its units, that there are some number of events, ages within -200 .. 200, and a repeating
event lasts at least a day.
There is no bound on anything else: any number of people, requests in flight, ids and stops.

| theorem | establishes | argument |
|---|---|---|
| Communities: TypeCorrect | types and foreign keys | inductive |
| Communities: AdminsAreLostOneWay | `AdminsLostOnlyToStaleDeletion` | one lemma per action that `HasAdmin` survives it or the action is a stale deletion; `AnotherAdmin` turns the count of `assertNotLastAdminRemoval` into a second admin |
| Communities: RosterAlwaysHasAdmin | `AlwaysAdmin` without account deletions and the race of saves with removals | `RosterInv` adds that an edit under way is of a live community, as its save would otherwise revive one without members |
| Communities: SuspensionFreezes | `FreezeWins` | `BornActive`: a community that is not created yet is not suspended, so a creation is no exception; every other step that gives a role or takes a request looks at the suspension itself or is one that had `Passed` |
| Rosters: ListsFit | `RosterFits`, the half of `PagesAreTrue` about lists of people, under `HostSpec` for any number of acts | `ListInv`: until a cause is noted either one request for the list is under way and asks for what is set (`AsksRight`), or what is shown is right; while a request of a change or its refresh is under way the buttons wait for it (`Waiting`); names suggested are for the text, or asked for, or about to be (`Suggesting`). `CountsAlike` ties the cardinalities of the two instances of the library |
| Details: CopiesStayTrue, PagesStayTrue | `CopiesAreTrue`, the half of `PagesAreTrue` about the pages of one thing, and with `ListsFit` all of it, under `HostSpec` for any number of acts and changes | `DetailInv`: each flag of the page has its request under way (`Flagged`); per part of the page, until it is noted as spoiled, the page has the server's part or an answer under way brings it: the thing with at most one request under way that takes it whole (`ThingCurrent`), the favourite and the viewer's answer (`EventCurrent`), the comments, which are those of the server less what is published and not shown yet, plus what is dropped and still shown (`NotesCurrent`), and their number, off by as many (`CountCurrent`). That a comment is dropped once, and that its id is never given again, is `NotesKept`; `SameNotes` then says that comments in order with equal ids and versions are equal |
| Subgroups: TypeCorrect, StraysNeedAnUnlockedWrite | `StraysOnlyWithoutLock` | the effect of each action on `Members` and `Crew` as a lemma |
| Subgroups: LockedOperationsKeepThePromise, SubgroupMembersAreCrew | refinement of `NestedMembership` without the unlocked writes | `QuietInv`: no such write is under way; each step maps to a step or a stutter |
| Subgroups: RequestsAreAnswered | `Answered` under `Spec`, openings included | the effect of each action on `pending` and `Members`: whoever takes a request admits, rejects, or is the second half of an opening; that one admits all it chose who are still of the crew, so the request it drops without admitting came after the choice (`Overlooked`) |
| Articles: ArticlesStand | `NewsAndSeriesStand` under `HostSpec`, for any number of requests and rows | `OnTheWay`: what a request that nobody crossed found is still so, in particular no smaller number of its address is free; whoever changes a row crosses the others; `Distinct` is the unique keys |
| ImportJobs: TypeCorrect, NoRunIsForgotten | `NoForgottenRun` for any number of crashes | inductive together with the types, which say that a stopped process has nothing in memory |
| ImportSync: CorrectionsOutlive | `CorrectionsOutliveImports` for any records, fields and values | `Fresh`: what the import is about to save is what the record makes of the event as it is now, unless the event was corrected since it was read, and a fresh read leaves corrected fields alone |
| ImportSync: ImportsFollow | `ImportsFollowTheSource` | `Uncorrected`: without corrections an event changes only by the import, so what it is about to save keeps or fills each field (`TakenOver`) and, where no save fails, `AllSeen`: what was fetched is seen or still to come |
| ImportFile: EventsAreReadAsDocumented, FilesAreRead | `FilesAreReadAsDocumented`; the first for any readings in all fields of an event at once, where the runs vary two | group by group (texts, dates, coordinates, lists, entries), no error is found exactly if the group may be so; `FileInv` ties what is kept and noted to the errors of each event read |
| ImportFile: NothingUnconfirmedIsMarked | `MarksNothingUnconfirmed` for any ids, any file and any past of the calendar | `MarksInv`: from the check on the admin was told of all that would be marked now and nothing else, up to what others wrote since (`ToldOf`); each record the run is past counts as seen, failed, or has no event (`Through`); after the stamp what was seen says so (`Stamped`), and nothing does before the run, nor can a correction that was read make it so (`Unbegun`) |
| Racing: CategoriesAreAPartition | `CategoriesPartition` for all ages and limits | `Riders` is the type of a rider and an event; the rest is arithmetic on the edges of the categories |
| Duplicates: GroupsAreTheComponents | `GroupsAreComponents` for any number of events, any relation among them and any dismissals | `Forest`: the union-find leaves a forest whose chains are no longer than there are events (`Depth`: each step of a chain is a root lost), so the bounded `Root` finds their end; `Tells`: after each pair, two events have one root exactly if the pairs so far connect them. The recursive functions are reasoned about by a least counterexample (`WellFoundedInduction`) |
| Recurrence: SeriesKeepTheClock | `OccurrencesStand` for any zone with one change in either direction, any limits and any start | `Series`: what is collected is `Occurrence(i)` for each turn so far; `WallToUtcShows` and `WallToUtcNear` say that the second look at the offset finds an instant that shows the time if there is one, and one within the hour if not |
| Polls: TypeCorrect, OneVoteInASingleChoicePoll, VotesHaveTheirOption, ChoicesAreOnesOwn | `SingleChoice`, `VotesOnLiveOptions`, `OnlyOwnVoteCounts` for any pool | `VoteInv`: one request holds the row, the poll is there while it does, its choice fits the options, and between clearing and casting the voter has no votes |
| Polls: NoVoteAfterClosing | `ClosedTakesNoVotes` | `OpenOnceCleared`: while a vote is between its two statements it holds the row, so the poll cannot be closed under it |
| Views: PagesAreRight | `PagesKeepToRights` under `HostSpec` | `Held`: each row that was read stood in the tables at some moment of the request, at which the viewer's rights went into `could`, and until something moves they still stand there; per endpoint, what its checks conclude from their rows is a right (`ReadRows`), and the buttons agree with the checks of the operations |
| Inbox: TypeCorrect, MonthsWithinCap | `ClaimsWithinCap` | `CapInv`: one request is between count and stamp, and then the current month has room; `Claims` of no month grows otherwise (`NoNewClaims`), and the stamp adds one row |
| Inbox: MailsStayCounted, NobodyMailedTwice | `MailsCounted`, `MailedOnce` | `MailInv`: among the living, one request per invitation is past its row, nothing was mailed for it yet, and while it sends its row is stamped |
| Inbox: StampsAreForMails, CountsAreMails | `StampsAreMails`, `CountsMatchMails` | inductive; only `Claim` stamps, and `Send`, `GiveBack` and `Crash` are the ways out |
| Accounts: TypeCorrect | types; tables and requests name only what was created or issued | `Sound`: what a request holds `Fits` its step, and what was created or issued only grows (`Grows`) |
| Accounts: GuessesBounded | `AttemptsBounded` for any number of guesses at once | `Counted`: the attempts a code's row counts are the guesses made at it, a claim needs room below the limit, and a code is issued once |
| Accounts: AddressHasOneHolder | sign-ups at once and late saves never give an address two accounts | the unique key is the guard of every insert; a save keeps the address of its row |
| Accounts: NothingIsSpentTwice | `SpentStaysSpent` | `Spendings` adds that a request about to sign in has deleted its code (`Claimed`), and ids are issued once; a link is open after it was spent only while its request is about to mark it, or when that failed |
| Accounts: CacheHoldsBriefly | `CacheIsFresh` for any life of an entry | `Fresh`: an account that is allowed has been disallowed for no tick, and what a slow lookup is about to store holds no longer than since it was read |
| Accounts: OnlySavesLift | `LiftedOnlyBySave` | per action, over `Sound` |
| Session: TabsShowWhoActs | `ShownIsActing` under `HostSpec`, for any number of tabs and people | `SessionInv`: while no cause is noted for a tab, the token is that of its session, and so is what it shows, is about to publish or is told by any answer of this session (`Clean`); whatever befell it, a guarded page stands only in a tab that is ready, one that is not hydrated has asked only for its session, and once (`Orderly`). Each action is reduced to a step of one tab (`OneTab`): it comes to show somebody (`Settles`), signs out (`LogsOut`), goes to a page (`Arrives`), asks (`Sending`) or waits (`Stays`) |
| Hosting: SharedIsPublic | what a community shares is a public event nobody hosts | the check is before the insert, so `Tells` collects whatever says how an event is hosted (its row, a row about to be saved, a share of it, a share about to be written), and `Agree` says that they all say the same |
| Hosting: OneRowPerAudience | one share per event and host, one answer per person and audience | each insert is guarded by its unique key; updates keep the key |
| Hosting: OthersRoutesAreKept | `RoutesBroughtByOwners` | `RoutesInv`: not only the rows, also what a request is about to write shows routes brought before it looked, or its own; what was brought only grows, so late writes stay inside |
| Hosting: StopsTakeTheRest | `StopTakesTheRest` | `SeriesInv`: while a stop is between read and delete, what it read is what is there of the series, except what was saved since; inserts of a series are of a new one |
| Hosting: PeopleSeeTheirs | `PeopleSeeWhatTheyMay` | the views agree in every state of the right types (`ViewInv`: no subgroup role without one in the community); for the list of upcoming events `AnswersInv` says that whatever names a share agrees on its event and no answer is for an audience the event lacks, which rests on `Agree` |
| Hosting: FilesThere | `RowsHaveTheirFile` under `HostSpec`: every row of a GPX file has its file, wherever requests overlap or the server stops, and a route exceeds its limit by fewer than there are requests at once | `Apart`: ids are handed out once, so nobody removes the file of an upload under way; `There`: what an upload wrote is there when its row comes, unless the route is gone, and then no row comes; `Room`: rows and rows to come |
| Files: PicturesShown | `RowsShowPictures` under `HostSpec`, for any number of requests, pictures and variants | `Alone`: until something overlapped a removal, a removal is the only request under way; `Shown`: then an upload has the directory, until a write was cut it is the only one in the files it has open, and if it has not failed each variant it is past stands, as do those of a row, or of the row an edit read, with an address; `Mended`: an upload that nothing overlaps leaves its own picture in what it is past, whatever was there; `Steady`: until anything overlapped or failed, every upload is such a one |
| Posts: ReportsStaySettled | `ReportsAreSettled` under `PagesSpec` for any number of people, requests and rows | `FeedInv`: rows are numbered and only come, close or go (`Evolves`), and a deletion between its two statements holds every report that it found open about what goes with its page (`Closes`); what goes with a page only shrinks until then (`FeedKept`) |
| Addresses: EntriesLeadOn | `LinksLeadOn` under `PagesSpec`, for any number of communities and subgroups, any slugs and any text to replace | `MovedOn`: one changed address leaves those of a scope apart, so no other entry is taken for one about it; `AppliedKeeps` carries that over the transaction, change by change in its order (`LastOf`, communities first), by induction over the number of changes; `AddressInv` keeps plan and rename typed. The half about Posts holds per action |
| Posts, Addresses: FeedsTypeCorrect | `TypesKept`: the types of both; rows of the feed have their page, post and person; addresses are valid, not reserved and nobody else's in their scope | `RowInv` adds that whoever writes or is to be told of a report has an account; `Allowed` that neither a rename nor a plan under way brings a reserved word |
| Finder: PagesShowWhatIsAsked | `ShowsWhatIsAsked` under `HostSpec`, for any number of acts | `FinderInv`: while the stream of searches lives, no effect is due and no cause is noted, the search under way, the only load under way or else what is shown is the question of the filters now, up to the viewer (`Settled`); every act is a search, a load or a changed filter with an effect to come, and the other ways of changing the question note their cause |
| EventForm: FormsSaveWhatIsEntered | `SavedAsEntered` under `HostSpec`, for any zones and any number of entries, failures and changes by others | `FormInv`: from the first of the three requests until nobody else moved anything, the event has what was asked (`Written`) and those of its groups and links that have been sent (`PartsWritten`); what nobody entered is as it was (`NotEntered`), in a German browser its days too (`GermanDays`). `ReadAgain` and `SameDay` say that a time that is shown and read again is the same instant |
| Push: TypeCorrect | types; endpoints and ids are handed out once | `TInv`: no browsers share an endpoint (`Locals`), a call registers an endpoint some browser got (`Flows`), no registrations share an id (`Registrations`) |
| Push: FailuresAreCounted | `FailuresCounted` | `Counted`: a message about to write counts no more failures than the registration had since its last success that no other message overlapped; `Lone`: one that nothing overlaps finds the count it read, or none, so its success may reset both |
| Push: DevicesAreFew | `DevicesBounded` for any limit and any number of registrations at once | `Few(u)`, per person: the first statement adds a row and a registration under way, the second removes both unless the rows are within the limit; what it drops are the oldest ones beyond it, a fact about cardinalities (`WellFoundedInduction` gives the least id) |
| Push: NextUsersGetNothing | `NextUserGetsNothing` | `Causes`: while a device holds the registration of somebody else, both undoings of the sign-out are under way or have failed, or one of the named causes is noted (`Excused`); per action, registrations keep their owners (`RowsKeepOwners`) and a cause stays until they go (`StillExcused`) |

Only model-checked:

- Liveness (`RunsEnd`, `RequestsEnd`, `EmptiedCommunitiesGo`, `DeadEndpointsGo`), which is out of
  the prover's reach, as is ENABLED.

Every other property of the passing runs is stated by a theorem.

## What is not modelled

The components with status `not_modelled` in `PROJECT.json`: outside services (geocoding,
parking, mail transport), append-only logs, static pages and start-up. Within the modelled ones:

- Communities: the order of heirs, the notices, the choice of a slug, the deadlock of an
  approval with a deletion that PostgreSQL resolves by aborting one of them (`Abort` covers
  the outcome), a member admitted while the account's row is locked.
- Subgroups: row ids that a delete and an insert replace; files.
- Polls: in the races, who may see the poll; Views has that part.
- Hosting: favourites, mails to the participants, geocoding of an address.
- ImportSync: the deletion of events, two runs at once (ImportFile has the writes of another one), parking areas and geocoding.
- Files: the content of a picture or of a GPX file, its simplification and its profile.
- Inbox: who may invite and whether the reader is a member, a mail the provider accepted
  but reported as failed, ids of events that a stale save brings back, other entries.
- Push: preferences, the text of messages, more than one device.
- Browser: layout, texts, the parts of pages that show one answer and change nothing.

## Plan

1. Two imports at once and the deletion of events in `ImportSync`.
2. A composition of `Communities`, `Subgroups` and `Inbox` over one membership.
3. The simplification and profile of GPX tracks as algorithms beside `Recurrence`.
4. The remaining forms of the client (communities, polls, series, news), after `EventForm`.
