-------------------------------- MODULE Access --------------------------------
(***************************************************************************)
(* Registration, sign-in, sessions and the payout profile of one email       *)
(* address: src/app/api/auth, src/server/auth, src/domain/customer and the   *)
(* profile action.  Every request reads before it writes, so that two of     *)
(* them may overlap, and may be cut short between two writes.                *)
(***************************************************************************)
EXTENDS Integers, FiniteSets

CONSTANTS
    Requests,       \* HTTP requests
    Births,         \* dates of birth a form may carry: [y, m, d]
    Restricted,     \* countries not served; none is decided
    AsOf,           \* the date of the registrations
    MaxFailed,      \* wrong passwords until a lock
    LockTime, SessionTime,
    LastMoment      \* bound on the clock

ASSUME AccessAssumption ==
    /\ {MaxFailed, LockTime, SessionTime, LastMoment} \subseteq Nat \ {0}
    /\ Births \union {AsOf} \subseteq [y : Nat, m : 1 .. 12, d : 1 .. 31]

MINIMUM_AGE_YEARS == 18

VARIABLES
    moment,
    person,     \* the user row
    profile,    \* the profile row
    http,       \* progress of each request and what it has read
    login,      \* the session each request has opened
    rows,       \* users ever created under the address
    wrongs,     \* wrong passwords since the last right one
    overlaps,   \* kinds of request of which two have overlapped
    everFilled  \* whether the profile was ever complete

accessVars == <<moment, person, profile, http, login, rows, wrongs, overlaps,
                everFilled>>

Unborn == [y |-> 0, m |-> 0, d |-> 0]     \* no date of birth
NobodyYet == [held |-> FALSE, born |-> Unborn, fails |-> 0, lockedUntil |-> 0, disabled |-> FALSE]
NoProfile == [row |-> FALSE, filled |-> FALSE, stamped |-> FALSE]
NoSession == [st |-> "none", expires |-> 0]
Waiting == [at |-> "new", born |-> Unborn, fails |-> 0, lockedUntil |-> 0, filled |-> FALSE, stamped |-> FALSE]

AccessInit ==
    /\ moment = 1
    /\ person = NobodyYet
    /\ profile = NoProfile
    /\ http = [r \in Requests |-> Waiting]
    /\ login = [r \in Requests |-> NoSession]
    /\ rows = 0 /\ wrongs = 0 /\ overlaps = {} /\ everFilled = FALSE

-----------------------------------------------------------------------------

At(r, place) == http[r].at = place
Step(r, place) == http' = [http EXCEPT ![r].at = place]

\* A request of a kind starts while another of the kind is between its steps.
NoteOverlap(r, places, kind) ==
    overlaps' = overlaps \union (IF \E q \in Requests \ {r} : http[q].at \in places
                                 THEN {kind} ELSE {})
SigningIn == {"wrong", "right"}

Before(a, b) ==
    a.y < b.y \/ (a.y = b.y /\ (a.m < b.m \/ (a.m = b.m /\ a.d < b.d)))

\* Faulty variant: the day of the month is forgotten.
AgeInYearsByMonth(born, day) == day.y - born.y - (IF day.m < born.m THEN 1 ELSE 0)

\* ageInYears: by calendar date.
AgeInYears(born, day) ==
    day.y - born.y - (IF day.m < born.m \/ (day.m = born.m /\ day.d < born.d) THEN 1 ELSE 0)

\* checkRegistrationIdentity: the name, the country and the age.
IdentityIsFine(form) ==
    /\ form.named
    /\ form.country \notin Restricted
    /\ form.born # Unborn /\ ~ Before(AsOf, form.born)
    /\ AgeInYears(form.born, AsOf) >= MINIMUM_AGE_YEARS

Forms == [named : BOOLEAN, country : {"US", "XX"}, born : Births \union {Unborn}]

\* What is wrong with the form or the password refuses without a trace.
RegisterRead(r) ==
    /\ At(r, "new")
    /\ \E form \in Forms :
          /\ IdentityIsFine(form)
          /\ http' = [http EXCEPT ![r] = [@ EXCEPT
                !.at = IF person.held THEN "end" ELSE "create", !.born = form.born]]
    /\ UNCHANGED <<moment, person, profile, login, rows, wrongs, overlaps, everFilled>>

\* Faulty variant: the address is not unique in the table.
RegisterWriteTwice(r) ==
    /\ At(r, "create")
    /\ person' = [NobodyYet EXCEPT !.held = TRUE, !.born = http[r].born]
    /\ rows' = rows + 1
    /\ Step(r, "profile")
    /\ UNCHANGED <<moment, profile, login, wrongs, overlaps, everFilled>>

\* unique(emailNormalised): the later of two registrations throws.
RegisterWrite(r) ==
    /\ At(r, "create")
    /\ IF person.held
       THEN Step(r, "end") /\ UNCHANGED <<person, rows>>
       ELSE /\ person' = [NobodyYet EXCEPT !.held = TRUE, !.born = http[r].born]
            /\ rows' = rows + 1
            /\ Step(r, "profile")
    /\ UNCHANGED <<moment, profile, login, wrongs, overlaps, everFilled>>

\* unique(userId): the profile may have been saved from another browser.
RegisterProfile(r) ==
    /\ At(r, "profile")
    /\ IF profile.row THEN Step(r, "end") /\ UNCHANGED profile
       ELSE profile' = [profile EXCEPT !.row = TRUE] /\ Step(r, "session")
    /\ UNCHANGED <<moment, person, login, rows, wrongs, overlaps, everFilled>>

-----------------------------------------------------------------------------

\* The password may be right or wrong; the row is not read again.
SignInRead(r) ==
    /\ At(r, "new")
    /\ person.held /\ person.lockedUntil <= moment /\ ~ person.disabled
    /\ \E place \in SigningIn :
          http' = [http EXCEPT ![r] = [@ EXCEPT !.at = place, !.fails = person.fails,
                                                !.lockedUntil = person.lockedUntil]]
    /\ NoteOverlap(r, SigningIn, "sign-in")
    /\ UNCHANGED <<moment, person, profile, login, rows, wrongs, everFilled>>

SignInWrong(r) ==
    /\ At(r, "wrong")
    /\ LET n == http[r].fails + 1 IN
       person' = [person EXCEPT !.fails = n,
           !.lockedUntil = IF n >= MaxFailed THEN moment + LockTime ELSE http[r].lockedUntil]
    /\ wrongs' = wrongs + 1
    /\ Step(r, "end")
    /\ UNCHANGED <<moment, profile, login, rows, overlaps, everFilled>>

SignInRight(r) ==
    /\ At(r, "right")
    /\ person' = [person EXCEPT !.fails = 0, !.lockedUntil = 0]
    /\ wrongs' = 0
    /\ Step(r, "session")
    /\ UNCHANGED <<moment, profile, login, rows, overlaps, everFilled>>

CreateSession(r) ==
    /\ At(r, "session")
    /\ login' = [login EXCEPT ![r] = [st |-> "open", expires |-> moment + SessionTime]]
    /\ Step(r, "end")
    /\ UNCHANGED <<moment, person, profile, rows, wrongs, overlaps, everFilled>>

\* getCurrentUser.
SignedIn ==
    /\ \E r \in Requests : login[r].st = "open" /\ moment <= login[r].expires
    /\ ~ person.disabled

SignOut(r) ==
    /\ login[r].st = "open"
    /\ login' = [login EXCEPT ![r].st = "revoked"]
    /\ UNCHANGED <<moment, person, profile, http, rows, wrongs, overlaps, everFilled>>

-----------------------------------------------------------------------------

\* saveProfile, with fields that satisfy checkPayoutProfile or do not.
SaveRead(r) ==
    /\ At(r, "new") /\ SignedIn
    /\ \E full \in BOOLEAN :
          http' = [http EXCEPT ![r] = [@ EXCEPT !.at = "save", !.filled = full,
                                                !.stamped = profile.stamped]]
    /\ NoteOverlap(r, {"save"}, "save")
    /\ UNCHANGED <<moment, person, profile, login, rows, wrongs, everFilled>>

\* Faulty variant: the stamp follows the fields.
SaveWriteRestamped(r) ==
    /\ At(r, "save")
    /\ profile' = [row |-> TRUE, filled |-> http[r].filled, stamped |-> http[r].filled]
    /\ everFilled' = (everFilled \/ http[r].filled)
    /\ Step(r, "end")
    /\ UNCHANGED <<moment, person, login, rows, wrongs, overlaps>>

SaveWrite(r) ==
    /\ At(r, "save")
    /\ profile' = [row |-> TRUE, filled |-> http[r].filled,
                   stamped |-> http[r].stamped \/ http[r].filled]
    /\ everFilled' = (everFilled \/ http[r].filled)
    /\ Step(r, "end")
    /\ UNCHANGED <<moment, person, login, rows, wrongs, overlaps>>

\* A process dies, or a browser goes away, between two writes.
CutShort(r) ==
    /\ ~ At(r, "new") /\ ~ At(r, "end")
    /\ Step(r, "end")
    /\ UNCHANGED <<moment, person, profile, login, rows, wrongs, overlaps, everFilled>>

\* By hand, in the database.
Disable ==
    /\ person.held
    /\ person' = [person EXCEPT !.disabled = TRUE]
    /\ UNCHANGED <<moment, profile, http, login, rows, wrongs, overlaps, everFilled>>

MomentPasses ==
    /\ moment < LastMoment
    /\ moment' = moment + 1
    /\ UNCHANGED <<person, profile, http, login, rows, wrongs, overlaps, everFilled>>

AccessNext ==
    \/ \E r \in Requests :
          \/ RegisterRead(r) \/ RegisterWrite(r) \/ RegisterProfile(r)
          \/ SignInRead(r) \/ SignInWrong(r) \/ SignInRight(r)
          \/ CreateSession(r) \/ SignOut(r)
          \/ SaveRead(r) \/ SaveWrite(r) \/ CutShort(r)
    \/ Disable \/ MomentPasses

-----------------------------------------------------------------------------
(* Properties.                                                             *)

\* One address has one user whoever registers it at the same time, with eighteen
\* birthdays behind them, and nothing of a user exists without the row.
\* "completedAt is stamped the first time the record satisfies
\* checkPayoutProfile and is never cleared afterwards", and enough wrong
\* passwords in a row lock the account: both as long as no two requests of the
\* kind overlap, since each writes back what it has read.
AccessIsSound ==
    /\ rows = (IF person.held THEN 1 ELSE 0)
    /\ person.held => MINIMUM_AGE_YEARS <= Cardinality(
          {y \in person.born.y + 1 .. AsOf.y : ~ Before(AsOf, [person.born EXCEPT !.y = y])})
    /\ profile.row \/ (\E r \in Requests : login[r] # NoSession) => person.held
    /\ profile.stamped => everFilled
    /\ everFilled /\ "save" \notin overlaps => profile.stamped
    /\ wrongs >= MaxFailed /\ "sign-in" \notin overlaps => person.lockedUntil > 0

=============================================================================
