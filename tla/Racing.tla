------------------------------- MODULE Racing -------------------------------
(***************************************************************************)
(* Which events fit a rider (events/racing.ts): age categories, classes    *)
(* and the condition classFitCondition and eventFitsSql build.  A rider    *)
(* profile loses data one by one; the event stays.                         *)
(***************************************************************************)
EXTENDS Integers, FiniteSets

CONSTANTS
    None,      \* not stated
    Ages,      \* ages a rider may reach in the year of the event
    Limits     \* explicit age limits of classes, with None

VARIABLES
    rider,     \* age, gender, licence and licence class
    event      \* its format and its classes

vars == <<rider, event>>

\* RIDER_CATEGORIES: the first age of each and the last; no age is below the first of u7
\* or above the last of masters4, which have no limit there.
Categories ==
    [u7 |-> <<-200, 6>>, u9 |-> <<7, 8>>, u11 |-> <<9, 10>>, u13 |-> <<11, 12>>, u15 |-> <<13, 14>>,
     u17 |-> <<15, 16>>, u19 |-> <<17, 18>>, u23 |-> <<19, 22>>, elite |-> <<23, 29>>,
     masters1 |-> <<30, 39>>, masters2 |-> <<40, 49>>, masters3 |-> <<50, 59>>, masters4 |-> <<60, 200>>]
Category == DOMAIN Categories

LicenseClasses == [elite_amateur |-> 19, amateur |-> 19, master |-> 30]
Touring == {"rtf", "ctf", "marathon", "brevet", "gravel_ride", "tour"}
Format == Touring \cup {"race", "jedermann", "kids"}
KidsMaxAge == 12

Or(a, b) == IF a # None THEN a ELSE b

\* classAges: given ages win, missing ones come from the category; null is no limit.
AgeMin(c) == Or(c.min, IF c.category \in Category \ {"u7"} THEN Categories[c.category][1] ELSE None)

\* Fault: the category's oldest age is forgotten when the youngest is given.
AgeMax_WithMin(c) ==
    Or(c.max, IF c.min = None /\ c.category \in Category \ {"masters4"} THEN Categories[c.category][2] ELSE None)

AgeMax(c) == Or(c.max, IF c.category \in Category \ {"masters4"} THEN Categories[c.category][2] ELSE None)

CategoryForAge(age) == CHOOSE k \in Category : age \in Categories[k][1] .. Categories[k][2]

LicenseClassesForAge(age) == {k \in DOMAIN LicenseClasses : age = None \/ age >= LicenseClasses[k]}

Licensed(r) == r.license \in {"license", "uci"}

FitsAge(r, c) ==
    r.age # None =>
        /\ AgeMin(c) = None \/ r.age >= AgeMin(c)
        /\ AgeMax(c) = None \/ r.age <= AgeMax(c)

FitsLicense(r, c) ==
    CASE r.license = "none" -> c.license \in {"open", "unlicensed"} \/ (c.license = "license" /\ c.dayLicense)
      [] r.license = "license" -> c.license \in {"open", "license"}
      [] r.license = "uci" -> c.license \in {"open", "license", "uci"}
      [] OTHER -> TRUE

FitsLicenseClass(r, c) ==
    Licensed(r) /\ r.licenseClass # None => c.licenseClasses = {} \/ r.licenseClass \in c.licenseClasses

ClassFits(r, c) ==
    /\ FitsAge(r, c) /\ FitsLicense(r, c) /\ FitsLicenseClass(r, c)
    /\ r.gender \in {"male", "female"} => c.gender \in {"open", r.gender}

\* A kids' race without classes.
KidsFit(r) == ~Licensed(r) /\ (r.age = None \/ r.age <= KidsMaxAge)

EventFits(r, e) ==
    \/ \E c \in e.classes : ClassFits(r, c)
    \/ e.classes = {} /\ (e.format \in Touring \/ (e.format = "kids" /\ KidsFit(r)))

-----------------------------------------------------------------------------
Rider ==
    [age: Ages \cup {None}, gender: {"male", "female", "diverse", None},
     license: {"none", "license", "uci", None}, licenseClass: DOMAIN LicenseClasses \cup {None}]

Class ==
    {c \in [category: {"u13", "elite", None}, min: Limits, max: Limits, gender: {"open", "female"},
            license: {"open", "unlicensed", "license", "uci"}, dayLicense: BOOLEAN,
            licenseClasses: {{}, {"master"}, {"elite_amateur", "amateur"}}] :
        c.license # "license" => ~c.dayLicense /\ c.licenseClasses = {}}

Init ==
    /\ rider \in {r \in Rider : r.licenseClass \in LicenseClassesForAge(r.age) \cup {None}}
    /\ event \in [format: {"race"}, classes: {{c} : c \in Class}] \cup [format: Format, classes: {{}}]

\* The profile form empties a field.
Forget(field) ==
    /\ rider[field] # None
    /\ rider' = [rider EXCEPT ![field] = None]
    /\ UNCHANGED event

Next == \E field \in DOMAIN rider : Forget(field)

Spec == Init /\ [][Next]_vars

-----------------------------------------------------------------------------
\* Every age is in one category, and a class that only names its category, or names it
\* with an age limit that the category has anyway, takes the ages of that category.
CategoriesPartition ==
    rider.age # None =>
        /\ Cardinality({k \in Category : rider.age \in Categories[k][1] .. Categories[k][2]}) = 1
        /\ \A c \in event.classes :
             /\ c.category # None
             /\ c.min \in {None, Categories[c.category][1]} /\ c.max \in {None, Categories[c.category][2]}
             => (FitsAge(rider, c) <=> CategoryForAge(rider.age) = c.category)
=============================================================================
