------------------------------ MODULE DateTime ------------------------------
(***************************************************************************)
(* The time of one file on its way through grive: the modifiedDate that the *)
(* server sends is read into a DateTime, compared with the seconds that are *)
(* in the record, given to the file that was downloaded, and its seconds    *)
(* are written to the record.                                               *)
(*                                                                          *)
(* A date is its second and the digits after the dot; the calendar is left  *)
(* to strptime and timegm, which are external.                              *)
(***************************************************************************)
EXTENDS Integers, Sequences

CONSTANTS
    Seconds,    \* of the dates
    Fractions,  \* what may stand between the dot and the Z: sequences of digits
    Garbled     \* what does not begin with nineteen characters of a date

VARIABLES
    at,      \* where the run is: "out", "listed", "dated" or "failed"
    date,    \* the modifiedDate of the file
    time,    \* m_mtime of its Resource
    before,  \* what that was in the run before
    newer,   \* the verdict of FromRemoteFile: the server has a later version
    srv,     \* srv_time in the record
    utime    \* the modification time of the local file, as utimes gets it

vars == <<at, date, time, before, newer, srv, utime>>

Dates == [sec: Seconds, frac: Fractions] \cup {Garbled}

\* DateTime(): the beginning of all times stands for none.
NoTime == [sec |-> 0, nsec |-> 0]

Second == 1000 * 1000 * 1000    \* in nanoseconds

\* The constructors assure it; the other functions assert it.
Sane(t) == t.nsec < Second

-----------------------------------------------------------------------------
(* DateTime.                                                                *)

\* atoi; digits that an int cannot hold are left out.
Number(digits) ==
    LET n[k \in 0..Len(digits)] == IF k = 0 THEN 0 ELSE 10 * n[k - 1] + digits[k]
    IN  n[Len(digits)]

\* The digits are taken for milliseconds if they and the Z are three characters
\* or more.
FromIso(text) ==
    IF text = Garbled THEN NoTime
    ELSE [sec  |-> text.sec,
          nsec |-> IF Len(text.frac) + 1 >= 3 THEN Number(text.frac) * 1000 * 1000 ELSE 0]

\* operator<<: three digits, with zeros in front.
Shown(t) ==
    LET ms == t.nsec \div 1000000 IN
    [sec |-> t.sec, frac |-> <<ms \div 100, (ms \div 10) % 10, ms % 10>>]

Tv(t) == [sec |-> t.sec, usec |-> t.nsec \div 1000]

Equal(t, u)   == t.sec = u.sec /\ t.nsec = u.nsec

\* Mutant: the nanoseconds are compared whatever the seconds are.
GreaterByParts(t, u) == t.sec > u.sec \/ t.nsec > u.nsec

Greater(t, u) == IF t.sec = u.sec THEN t.nsec > u.nsec ELSE t.sec > u.sec
Less(t, u)    == ~(Greater(t, u) \/ Equal(t, u))

-----------------------------------------------------------------------------
\* The moment that a date means: a decimal fraction of the second.
Moment(text) ==
    text.sec * Second + Number(text.frac \o [i \in 1..(9 - Len(text.frac)) |-> 0])

Init ==
    /\ at = "out" /\ date \in Dates
    /\ time = NoTime /\ before = NoTime /\ newer = FALSE /\ srv = 0 /\ utime = NoTime

\* The server makes another version, which is not earlier.
Modify ==
    /\ at = "out"
    /\ \E d \in Dates :
        /\ Garbled \notin {d, date} => Moment(d) >= Moment(date)
        /\ date' = d
    /\ UNCHANGED <<at, time, before, newer, srv, utime>>

\* Entry2::Update, Resource::FromRemoteFile.
List ==
    /\ at = "out"
    /\ at' = "listed"
    /\ before' = time /\ time' = FromIso(date)
    /\ newer' = (time'.sec > srv)
    /\ UNCHANGED <<date, srv, utime>>

\* os::SetFileTime; utimes refuses a second and more of microseconds.
SetFileTime == IF Sane(time) THEN at' = "dated" /\ utime' = Tv(time)
                             ELSE at' = "failed" /\ UNCHANGED utime

\* Syncer::Download, once the file is there: a time that is none is not set.
Download ==
    /\ at = "listed" /\ newer
    /\ IF Equal(time, NoTime) THEN at' = "dated" /\ UNCHANGED utime ELSE SetFileTime
    /\ UNCHANGED <<date, time, before, newer, srv>>

\* The end of SyncSelf, also if the file was in sync.
Store ==
    /\ at = "dated" \/ (at = "listed" /\ ~newer)
    /\ at' = "out" /\ srv' = time.sec
    /\ UNCHANGED <<date, time, before, newer, utime>>

\* The exception or the failed assertion leaves the record alone.
Leave ==
    /\ at = "failed"
    /\ at' = "out"
    /\ UNCHANGED <<date, time, before, newer, srv, utime>>

Next == Modify \/ List \/ Download \/ Store \/ Leave

Spec == Init /\ [][Next]_vars

-----------------------------------------------------------------------------
(* Properties.                                                              *)

Milliseconds(text) == text # Garbled /\ Len(text.frac) = 3

\* A date with three digits, as the Drive sends it, is read as the moment that it
\* means, and shown as it was; only one with more digits leads to a time that the
\* other functions refuse (DateTime.cc:49-56, DateTimeTest::TestParseIso).
ReadAsMeant ==
    at \in {"listed", "dated"} =>
        /\ Milliseconds(date) =>
            time.sec * Second + time.nsec = Moment(date) /\ Shown(time) = date
        /\ ~Sane(time) => Len(date.frac) > 3

\* A version is taken for newer exactly if the server made it in a later second
\* than the one of the record, and the local file gets its time to the microsecond
\* (Resource.cc:183, Syncer.cc:47).
SecondsCount ==
    /\ at \in {"listed", "dated"} /\ date # Garbled => (newer <=> date.sec > srv)
    /\ at = "dated" /\ Milliseconds(date) /\ Moment(date) > 0 =>
        utime.sec * 1000000 + utime.usec = Moment(date) \div 1000

\* Of two times the comparisons name the one that is later in nanoseconds
\* (DateTimeTest::TestCompare).
InOrder ==
    Sane(time) /\ Sane(before) =>
        LET Instant(t) == t.sec * Second + t.nsec IN
        /\ Greater(time, before) <=> Instant(time) > Instant(before)
        /\ Less(time, before) <=> Instant(time) < Instant(before)

\* A date is read as the moment that it means, compared as such, and given to the file
\* as such (DateTime.cc:42-163).
DatesMeant == ReadAsMeant /\ SecondsCount /\ InOrder
=============================================================================
