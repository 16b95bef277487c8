----------------------------- MODULE Addresses -----------------------------
(***************************************************************************)
(* Addresses (slugs) of communities and subgroups: the admins' tool that   *)
(* replaces a piece of text in many of them (slug-replace.component.ts,    *)
(* replaceSlugs and community-slug.ts) while another admin renames single  *)
(* communities (renameSlug).  Inbox entries link to addresses and have to  *)
(* follow.                                                                 *)
(*                                                                         *)
(* A slug is the number of its letters, all alike: replacing `find`        *)
(* letters by `replace` letters is arithmetic, as split(find).join is.     *)
(***************************************************************************)
EXTENDS Integers, FiniteSets, Sequences

CONSTANTS
    Community, Subgroup,
    MaxLength,    \* MAX_SLUG_LENGTH
    Reserved,     \* RESERVED_COMMUNITY_SLUGS
    Form,         \* what an admin may want to find and put in its place, as numbers of letters
    MaxRequests,  \* how many changes are asked for
    None

VARIABLES
    slug,         \* of every community and subgroup
    parent,       \* the community of a subgroup
    link,         \* the addresses in an inbox entry about each of them
    form,         \* find and replace on the page
    shown,        \* the changes the page lists, with the form they are for, or None
    selected,     \* those of them that are ticked
    waits,        \* the page's request: None, or what it sent
    plan,         \* the server's plan, read before its transaction
    renaming,     \* the other admin's request
    asked         \* how many changes have been asked for

dbVars == <<slug, link>>
vars == <<slug, parent, link, form, shown, selected, waits, plan, renaming, asked>>

Item == Community \cup Subgroup
Scope(i) == IF i \in Community THEN Community ELSE {j \in Subgroup : parent[j] = parent[i]}
ReservedIn(i) == IF i \in Community THEN Reserved ELSE {}

\* What an entry written now links to: a community, or a subgroup of it.
Address(i) == IF i \in Community THEN <<slug[i], 0>> ELSE <<slug[parent[i]], slug[i]>>

-----------------------------------------------------------------------------
Replaced(n, f) == (n \div f.find) * f.replace + (n % f.find)
Changed(f) == {i \in Item : slug[i] >= f.find /\ Replaced(slug[i], f) # slug[i]}

\* planSlugReplace, with the rows in the order the database gives them.
Taken(i, f, order) ==
    \E j \in Scope(i) \ {i} :
        \/ j \in Changed(f) /\ order[j] < order[i] /\ Replaced(slug[j], f) = Replaced(slug[i], f)
        \/ j \notin Changed(f) /\ slug[j] = Replaced(slug[i], f)

Problem(i, f, order) ==
    \/ Replaced(slug[i], f) \notin 1 .. MaxLength
    \/ Replaced(slug[i], f) \in ReservedIn(i)
    \/ Taken(i, f, order)

PlanSlugReplace(f, order) ==
    [i \in Changed(f) |-> [old |-> slug[i], new |-> Replaced(slug[i], f), problem |-> Problem(i, f, order)]]

Orders == {o \in [Item -> 1 .. Cardinality(Item)] : \A i, j \in Item : i # j => o[i] # o[j]}

-----------------------------------------------------------------------------
(***************************************************************************)
(* One UPDATE of a slug after the other; the unique keys refuse one that   *)
(* is in use, and with it the transaction.                                 *)
(***************************************************************************)
\* `at` is the address of the parent community as the transaction knows it.
Moved(db, i, old, new, at) ==
    IF ~db.ok \/ \E j \in Scope(i) \ {i} : db.slug[j] = new THEN [db EXCEPT !.ok = FALSE]
    ELSE [ok |-> TRUE,
          slug |-> [db.slug EXCEPT ![i] = new],
          link |-> [j \in Item |->
              IF i \in Community
              THEN IF db.link[j][1] = old THEN <<new, db.link[j][2]>> ELSE db.link[j]
              ELSE IF db.link[j] = <<at, old>> THEN <<at, new>> ELSE db.link[j]]]

\* Communities first, so that entries about subgroups are found at their new address.
Sooner(p, i, j) ==
    \/ i \in Community /\ j \in Subgroup
    \/ (i \in Community <=> j \in Community) /\ p.order[i] < p.order[j]

\* The address of a subgroup's community: the one read with the plan, or the new one.
ParentSlug(p, i) ==
    IF parent[i] \in p.ids /\ Sooner(p, parent[i], i) THEN p.changes[parent[i]].new ELSE p.read[parent[i]]

Applied(p) ==
    LET db[S \in SUBSET p.ids] ==      \* after the changes of S
            IF S = {} THEN [ok |-> TRUE, slug |-> slug, link |-> link]
            ELSE LET last == CHOOSE i \in S : \A j \in S \ {i} : Sooner(p, j, i)
                 IN Moved(db[S \ {last}], last, p.changes[last].old, p.changes[last].new,
                          IF last \in Subgroup THEN ParentSlug(p, last) ELSE 0)
    IN db[p.ids]

-----------------------------------------------------------------------------
Init ==
    /\ parent \in [Subgroup -> Community]
    /\ slug \in [Item -> 1 .. MaxLength]
    /\ \A i \in Item : slug[i] \notin ReservedIn(i) /\ \A j \in Scope(i) \ {i} : slug[j] # slug[i]
    /\ link = [i \in Item |-> Address(i)]
    /\ form \in Form
    /\ shown = None /\ selected = {} /\ waits = None /\ plan = None /\ renaming = None /\ asked = 0

(***************************************************************************)
(* The page.                                                               *)
(***************************************************************************)
\* The inputs stay open while a preview is on its way.
EditForm(f) ==
    /\ f # form
    /\ form' = f /\ shown' = None
    /\ UNCHANGED <<slug, parent, link, selected, waits, plan, renaming, asked>>

Preview ==
    /\ waits = None
    /\ waits' = [apply |-> FALSE, form |-> form, ids |-> {}]
    /\ UNCHANGED <<slug, parent, link, form, shown, selected, plan, renaming, asked>>

Toggle(i) ==
    /\ shown # None /\ i \in DOMAIN shown /\ ~shown[i].problem
    /\ selected' = IF i \in selected THEN selected \ {i} ELSE selected \cup {i}
    /\ UNCHANGED <<slug, parent, link, form, shown, waits, plan, renaming, asked>>

\* What is sent is what the form says now.
Apply ==
    /\ waits = None /\ shown # None /\ selected # {}
    /\ asked < MaxRequests /\ asked' = asked + 1
    /\ waits' = [apply |-> TRUE, form |-> form, ids |-> selected]
    /\ UNCHANGED <<slug, parent, link, form, shown, selected, plan, renaming>>

Fails(p) == waits' = None /\ plan' = None /\ UNCHANGED <<shown, slug, link>>

(***************************************************************************)
(* The server.                                                             *)
(***************************************************************************)
AnswerPreview(order) ==
    /\ waits # None /\ ~waits.apply
    /\ shown' = PlanSlugReplace(waits.form, order)
    /\ selected' = {i \in DOMAIN shown' : ~shown'[i].problem}
    /\ waits' = None
    /\ UNCHANGED <<slug, parent, link, form, plan, renaming, asked>>

\* replaceSlugs: nothing is changed unless every selected result is valid and free.
ReadPlan(order) ==
    /\ waits # None /\ waits.apply /\ plan = None
    /\ LET changes == PlanSlugReplace(waits.form, order)
           ids == waits.ids \cap DOMAIN changes
       IN IF \E i \in ids : changes[i].problem THEN Fails(changes)
          ELSE /\ plan' = [changes |-> changes, ids |-> ids, order |-> order, read |-> slug]
               /\ UNCHANGED <<shown, waits, slug, link, asked>>
    /\ UNCHANGED <<parent, form, selected, renaming, asked>>

ApplyPlan ==
    /\ plan # None
    /\ IF Applied(plan).ok
       THEN /\ slug' = Applied(plan).slug /\ link' = Applied(plan).link
            /\ shown' = None /\ waits' = None /\ plan' = None
       ELSE Fails(plan)
    /\ UNCHANGED <<parent, form, selected, renaming, asked>>

\* renameSlug.
BeginRename(c, n) ==
    /\ renaming = None /\ n \notin Reserved
    /\ \A d \in Community : slug[d] # n
    /\ asked < MaxRequests /\ asked' = asked + 1
    /\ renaming' = [community |-> c, old |-> slug[c], new |-> n]
    /\ UNCHANGED <<slug, parent, link, form, shown, selected, waits, plan>>

Rename ==
    /\ renaming # None
    /\ LET db == Moved([ok |-> TRUE, slug |-> slug, link |-> link], renaming.community, renaming.old, renaming.new, 0)
       IN IF db.ok THEN slug' = db.slug /\ link' = db.link ELSE UNCHANGED dbVars
    /\ renaming' = None
    /\ UNCHANGED <<parent, form, shown, selected, waits, plan, asked>>

Next ==
    \/ \E f \in Form : EditForm(f)
    \/ Preview \/ Apply
    \/ \E i \in Item : Toggle(i)
    \/ \E order \in Orders : AnswerPreview(order) \/ ReadPlan(order)
    \/ ApplyPlan
    \/ \E c \in Community, n \in 1 .. MaxLength : BeginRename(c, n)
    \/ Rename

Spec == Init /\ [][Next]_vars

-----------------------------------------------------------------------------
\* Addresses stay valid and free.
TypeOK ==
    /\ slug \in [Item -> 1 .. MaxLength]
    /\ \A i \in Item : slug[i] \notin ReservedIn(i) /\ \A j \in Scope(i) \ {i} : slug[j] # slug[i]

\* What every step keeps to ([][...]_vars).
Leads(i) == link[i] = Address(i)

\* Inbox links follow a new address: one that led to its page stops doing so only when a
\* request applies what it had read before another one changed an address.
LinksFollow ==
    \A i \in Item : Leads(i) /\ ~Leads(i)' =>
        \/ ApplyPlan /\ plan.read # slug
        \/ Rename /\ renaming.old # slug[renaming.community]

\* The page sends what the form says, with what was ticked: the changes it shows are those
\* of the form.  They are not when the form was edited while its preview was on the way.
AppliesWhatIsShown ==
    Apply => \A i \in selected : i \in DOMAIN shown /\ shown[i].new = Replaced(shown[i].old, form)

\* admin-communities.service.ts: "nothing is changed unless every result is valid and
\* free".  The other way round fails: of two addresses that follow each other, the one
\* updated first may still be in use, and the unique key refuses them both.
FreePlansApply == plan # None /\ plan.ids = DOMAIN plan.changes /\ plan.read = slug => Applied(plan).ok
=============================================================================
