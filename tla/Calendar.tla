------------------------------- MODULE Calendar -------------------------------
(***************************************************************************)
(* Trading sessions in a time zone with daylight saving:                   *)
(* src/domain/risk/session.ts.  Instants are hours of universal time; a     *)
(* day is a number.  The zone is a standard offset and one summer, between  *)
(* two transitions.  A clock runs over both, and an account is locked out   *)
(* and resumes under it.                                                    *)
(***************************************************************************)
EXTENDS Integers

CONSTANTS
    StandardOffset, \* hours the zone is ahead of universal time
    SummerStart, SummerEnd,
    BoundaryHours,  \* configured hours at which a session may end
    ReopenHour,     \* GLOBEX_REOPEN_HOUR
    FirstHour, LastHour

ASSUME CalendarAssumption ==
    /\ StandardOffset \in -23 .. 23
    /\ {SummerStart, SummerEnd, FirstHour, LastHour} \subseteq Nat
    /\ BoundaryHours \subseteq 0 .. 23 /\ ReopenHour \in 0 .. 23

\* DEFAULT_SESSION_CONFIG: New York lies west of Greenwich, its summer is not
\* over in a day, and its clock does not jump over the reopen.
ASSUME ZoneAssumption ==
    /\ StandardOffset < 0
    /\ SummerStart + 24 <= SummerEnd
    /\ (SummerStart + StandardOffset) % 24 # ReopenHour

VARIABLES
    hour,       \* now
    boundary,   \* the configured boundary hour
    lockout     \* a lockout: when it was set, in which session, until when

calendarVars == <<hour, boundary, lockout>>

NotLocked == [at |-> 0, session |-> 0, until |-> 0]

CalendarInit ==
    /\ hour = FirstHour
    /\ boundary \in BoundaryHours
    /\ lockout = NotLocked

-----------------------------------------------------------------------------

\* zoneOffsetMs and zonedParts.
OffsetAt(t) ==
    StandardOffset + (IF SummerStart <= t /\ t < SummerEnd THEN 1 ELSE 0)
LocalDay(t) == (t + OffsetAt(t)) \div 24
LocalHour(t) == (t + OffsetAt(t)) % 24

\* Faulty variant: the offset of the naive instant, uncorrected.
InstantFromZonedOnce(d, h) == 24 * d + h - OffsetAt(24 * d + h)

\* instantFromZoned: a guess, corrected by the offset in force there; a time
\* that does not exist is read with the offset before the jump.
InstantFromZoned(d, h) ==
    LET wall == 24 * d + h
        guess == wall - OffsetAt(wall)
        corrected == wall - OffsetAt(guess) IN
    IF LocalHour(corrected) = h THEN corrected ELSE guess

\* sessionDateFor: labelled with the day on which the session closes.
SessionDateFor(t) ==
    LocalDay(t) + (IF LocalHour(t) >= boundary THEN 1 ELSE 0)
SessionStart(d) == InstantFromZoned(d - 1, boundary)
SessionEnd(d) == InstantFromZoned(d, boundary)

NextMarketOpen(t) ==
    InstantFromZoned(LocalDay(t) + (IF LocalHour(t) < ReopenHour THEN 0 ELSE 1),
                     ReopenHour)
LockoutHasLifted == hour >= lockout.until

-----------------------------------------------------------------------------

HourPasses ==
    /\ hour < LastHour
    /\ hour' = hour + 1
    /\ UNCHANGED <<boundary, lockout>>

LockOut ==
    /\ LockoutHasLifted
    /\ lockout.at # hour
    /\ lockout' = [at |-> hour, session |-> SessionDateFor(hour),
                   until |-> NextMarketOpen(hour)]
    /\ UNCHANGED <<hour, boundary>>

CalendarNext == HourPasses \/ LockOut

-----------------------------------------------------------------------------
(* Properties.                                                             *)

\* The hours after a boundary in which the market is still closed.
InMaintenance(t) == (LocalHour(t) - boundary) % 24 < (ReopenHour - boundary) % 24

\* Every instant lies in the session whose label it is given, sessions follow
\* each other without gap or overlap over both transitions, and none is longer
\* or shorter than a day by more than the hour the clock moved: nobody gets "a
\* second daily loss allowance" or has "one cut short".  A lockout ends at the
\* reopen, within a day, and never before the session it was earned in, unless
\* it was earned in the closed hours between boundary and reopen.
SessionsAreSound ==
    LET d == SessionDateFor(hour) IN
    /\ SessionStart(d) <= hour /\ hour < SessionEnd(d)
    /\ SessionEnd(d) = SessionStart(d + 1)
    /\ SessionEnd(d) - SessionStart(d) \in 23 .. 25
    /\ lockout # NotLocked =>
          /\ lockout.until - lockout.at \in 1 .. 25
          /\ LocalHour(lockout.until) = ReopenHour
          /\ SessionDateFor(lockout.until) > lockout.session
                \/ InMaintenance(lockout.at)

=============================================================================
