------------------------------- MODULE Timespec -------------------------------
(***************************************************************************)
(* timespec.c: times of seconds and nanoseconds, tv_sec and tv_nsec.  A    *)
(* second has NSEC_PER_SEC nanoseconds, and so on; LONG_MAX bounds a time  *)
(* in timespec_mod, the only function with loops that carry state: it is   *)
(* the state machine, the others are operators.                            *)
(***************************************************************************)
EXTENDS Integers

CONSTANTS
    NSEC_PER_SEC, NSEC_PER_USEC, NSEC_PER_MSEC,
    LONG_MAX,      \* of a tv_sec
    Grids,         \* a double of the size at hand is a multiple of 1 / grid of a second, for a grid of these
    Pairs          \* the two times that may be given, normal or not

VARIABLES ts1, ts2, i, neg1, neg2, at,
          given    \* the two times of the call

vars == <<ts1, ts2, i, neg1, neg2, at, given>>

Time(s, n) == [tv_sec |-> s, tv_nsec |-> n]

\* Division in C, towards zero, and its remainder.
Div(a, b) == IF a >= 0 THEN a \div b ELSE -((-a) \div b)
Rem(a, b) == a - b * Div(a, b)

-----------------------------------------------------------------------------
(***************************************************************************)
(* Normal form, sums and comparisons.                                      *)
(***************************************************************************)
\* Whole seconds are taken out of tv_nsec one by one, towards zero; one more makes a negative rest positive.
Flattened(ts) ==
    Time(ts.tv_sec + Div(ts.tv_nsec, NSEC_PER_SEC), Rem(ts.tv_nsec, NSEC_PER_SEC))

timespec_normalise(ts) ==
    LET flat == Flattened(ts)
    IN  IF flat.tv_nsec < 0 THEN Time(flat.tv_sec - 1, NSEC_PER_SEC + flat.tv_nsec) ELSE flat

timespec_add(a, b) ==
    LET x == timespec_normalise(a)
        y == timespec_normalise(b)
    IN  timespec_normalise(Time(x.tv_sec + y.tv_sec, x.tv_nsec + y.tv_nsec))

timespec_sub(a, b) ==
    LET x == timespec_normalise(a)
        y == timespec_normalise(b)
    IN  timespec_normalise(Time(x.tv_sec - y.tv_sec, x.tv_nsec - y.tv_nsec))

timespec_eq(a, b) == timespec_normalise(a) = timespec_normalise(b)

\* One shape for the four orders: the seconds decide, the nanoseconds of equal seconds.
Ordered(a, b, secs(_, _), nsecs(_, _)) ==
    LET x == timespec_normalise(a)
        y == timespec_normalise(b)
    IN  secs(x.tv_sec, y.tv_sec) \/ (x.tv_sec = y.tv_sec /\ nsecs(x.tv_nsec, y.tv_nsec))

timespec_gt(a, b) == Ordered(a, b, >, >)
timespec_ge(a, b) == Ordered(a, b, >, >=)
timespec_lt(a, b) == Ordered(a, b, <, <)
timespec_le(a, b) == Ordered(a, b, <, <=)

(***************************************************************************)
(* Conversions.  A timeval is a record, milliseconds a number.  A double   *)
(* is the number of 1 / grid of a second it stands for: a sum or product   *)
(* that is none is rounded to one of the two next to it, and a cast cuts   *)
(* off what is left.  Which of the two is left open.                       *)
(***************************************************************************)
Neighbours(a, b) == {a \div b, -((-a) \div b)}

timespec_to_double(ts, grid) ==
    {ts.tv_sec * grid + m : m \in Neighbours(ts.tv_nsec * grid, NSEC_PER_SEC)}

\* The seconds are cut off and the fraction is exact; its product may reach the next nanosecond or lose its own.
timespec_from_double(d, grid) ==
    {timespec_normalise(Time(Div(d, grid), n)) : n \in Neighbours(Rem(d, grid) * NSEC_PER_SEC, grid)}

timespec_from_timeval(tv) == timespec_normalise(Time(tv.tv_sec, tv.tv_usec * NSEC_PER_USEC))
timespec_to_timeval(ts) ==
    LET t == timespec_normalise(ts) IN [tv_sec |-> t.tv_sec, tv_usec |-> Div(t.tv_nsec, NSEC_PER_USEC)]

MSEC_PER_SEC == NSEC_PER_SEC \div NSEC_PER_MSEC
timespec_from_ms(ms) ==
    timespec_normalise(Time(Div(ms, MSEC_PER_SEC), Rem(ms, MSEC_PER_SEC) * NSEC_PER_MSEC))
timespec_to_ms(ts) == ts.tv_sec * MSEC_PER_SEC + Div(ts.tv_nsec, NSEC_PER_MSEC)

-----------------------------------------------------------------------------
(***************************************************************************)
(* timespec_mod.  A tv_nsec is not bounded here: with a negative divisor   *)
(* the doubled one leaves a long when the quotient reaches about 2^33.     *)
(***************************************************************************)
Init == /\ given \in Pairs
        /\ ts1 = given[1] /\ ts2 = given[2]
        /\ i = 0 /\ neg1 = FALSE /\ neg2 = FALSE
        /\ at = "called"

Negative(ts) == ts.tv_sec < 0 \/ ts.tv_nsec < 0
Negated(ts) == Time(-ts.tv_sec, -ts.tv_nsec)
IsZero(ts) == ts.tv_sec = 0 /\ ts.tv_nsec = 0
Abs(ts) == IF Negative(ts) THEN Negated(ts) ELSE ts

\* By zero: ts1 is returned.
ByZero == /\ at = "called" /\ IsZero(timespec_normalise(ts2))
          /\ ts1' = timespec_normalise(ts1) /\ ts2' = timespec_normalise(ts2)
          /\ at' = "done"
          /\ UNCHANGED <<i, neg1, neg2, given>>

\* The signs are recorded and dropped.
DropSigns == /\ at = "called" /\ ~IsZero(timespec_normalise(ts2))
             /\ neg1' = Negative(timespec_normalise(ts1)) /\ neg2' = Negative(timespec_normalise(ts2))
             /\ ts1' = Abs(timespec_normalise(ts1)) /\ ts2' = Abs(timespec_normalise(ts2))
             /\ at' = "shift"
             /\ UNCHANGED <<i, given>>

\* ts2 is doubled while ts1 reaches it.
Doubled(ts) ==
    LET n == 2 * ts.tv_nsec
    IN  IF n > NSEC_PER_SEC THEN Time(2 * ts.tv_sec + 1, n - NSEC_PER_SEC) ELSE Time(2 * ts.tv_sec, n)
Smaller == ts2.tv_sec < LONG_MAX \div 2 /\ timespec_ge(ts1, ts2)

Shift == /\ at = "shift" /\ Smaller
         /\ i' = i + 1
         /\ ts2' = Doubled(ts2)
         /\ UNCHANGED <<ts1, neg1, neg2, at, given>>

Shifted == /\ at = "shift" /\ ~Smaller
           /\ at' = "subtract"
           /\ UNCHANGED <<ts1, ts2, i, neg1, neg2, given>>

\* As Halved, without the odd second.
HalvedWithoutCarry(ts) == Time(ts.tv_sec \div 2, ts.tv_nsec \div 2)
\* Division by subtraction: once for every doubling, which is then undone.
Halved(ts) ==
    Time(ts.tv_sec \div 2,
         (IF ts.tv_sec % 2 = 1 THEN ts.tv_nsec + NSEC_PER_SEC ELSE ts.tv_nsec) \div 2)

Subtract == /\ at = "subtract"
            /\ ts1' = IF timespec_ge(ts1, ts2) THEN timespec_sub(ts1, ts2) ELSE ts1
            /\ IF i = 0 THEN at' = "sign" /\ UNCHANGED <<ts2, i>>
                        ELSE i' = i - 1 /\ ts2' = Halved(ts2) /\ UNCHANGED at
            /\ UNCHANGED <<neg1, neg2, given>>

\* One more when the signs differ, and the sign of ts1 again.
RestoreSign ==
    /\ at = "sign"
    /\ LET r == IF neg1 # neg2 /\ ~IsZero(ts1) THEN timespec_sub(ts1, ts2) ELSE ts1
       IN  ts1' = IF neg1 THEN Negated(r) ELSE r
    /\ at' = "done"
    /\ UNCHANGED <<ts2, i, neg1, neg2, given>>

Next == ByZero \/ DropSigns \/ Shift \/ Shifted \/ Subtract \/ RestoreSign

Spec == Init /\ [][Next]_vars

-----------------------------------------------------------------------------
ValueOf(ts) == ts.tv_sec * NSEC_PER_SEC + ts.tv_nsec
Normal(ts) == ts.tv_nsec \in 0..(NSEC_PER_SEC - 1)

Closer(p, q, e) == p - q < e /\ q - p < e

\* To a double and back: the double is less than one of its own units away from the time, the time that it
\* gives is normal and less than a nanosecond away from the double, and the same when the double can hold it.
\* Where doubles are finer than nanoseconds at most one nanosecond is gained or lost: 4.35 s, 350000000 ns
\* past the second, come back with 349999999 ns.  (From 2^23 s on they are not, and a clock's time is off by more.)
DoublesAreClose(a) ==
    LET x == ValueOf(a)
    IN  \A grid \in Grids : \A d \in timespec_to_double(a, grid) :
            /\ Closer(d * NSEC_PER_SEC, x * grid, NSEC_PER_SEC)
            /\ \A t \in timespec_from_double(d, grid) :
                /\ Normal(t) /\ Closer(ValueOf(t) * grid, d * NSEC_PER_SEC, grid)
                /\ (x * grid) % NSEC_PER_SEC = 0 => t = timespec_normalise(a)
                /\ NSEC_PER_SEC <= grid => Closer(ValueOf(t), x, 2)

\* The times are numbers: sums, differences and comparisons of any two, normal or not, are those of the
\* numbers they stand for, and their results are normal; the conversions to other integers lose nothing
\* that the other form can hold and round down, those to doubles are close.
OperatorsAreRight ==
    LET a == given[1]
        b == given[2]
        x == ValueOf(a)
        y == ValueOf(b)
        n == timespec_normalise(a)
        tv == timespec_to_timeval(a)
    IN  /\ Normal(n) /\ ValueOf(n) = x
        /\ Normal(timespec_add(a, b)) /\ ValueOf(timespec_add(a, b)) = x + y
        /\ Normal(timespec_sub(a, b)) /\ ValueOf(timespec_sub(a, b)) = x - y
        /\ timespec_eq(a, b) <=> x = y
        /\ timespec_gt(a, b) <=> x > y
        /\ timespec_ge(a, b) <=> x >= y
        /\ timespec_lt(a, b) <=> x < y
        /\ timespec_le(a, b) <=> x <= y
        /\ DoublesAreClose(a)
        /\ tv.tv_sec * NSEC_PER_SEC + tv.tv_usec * NSEC_PER_USEC = NSEC_PER_USEC * (x \div NSEC_PER_USEC)
        /\ timespec_from_timeval(tv).tv_sec = tv.tv_sec
        /\ timespec_to_timeval(timespec_from_timeval(tv)) = tv
        /\ timespec_to_ms(n) = x \div NSEC_PER_MSEC
        /\ timespec_to_ms(timespec_from_ms(x)) = x
        /\ ValueOf(timespec_from_ms(x)) = x * NSEC_PER_MSEC /\ Normal(timespec_from_ms(x))

\* timespec_mod returns the remainder of the numbers that has the sign of ts2, and ts1 when ts2 is zero.  It is
\* in normal form, as timespec.c:54-55 says of every time that is returned, unless ts1 was negative: RestoreSign
\* turns the signs of both fields, and only the negated time is normal.  On the way the doubled ts2 stays the given one times 2^i and
\* what has been taken from ts1 a multiple of it.  (Not so for a ts1 of 2 * (LONG_MAX \div 2) seconds or more
\* and a ts2 of about half of it, which is not doubled far enough.)
RemainderOf(x, y) == IF y = 0 THEN x ELSE IF y > 0 THEN x % y ELSE -((-x) % (-y))
ModIsRight ==
    LET x == ValueOf(given[1])
        y == ValueOf(given[2])
        size == IF y < 0 THEN -y ELSE y
    IN  /\ at = "done" => /\ ValueOf(ts1) = RemainderOf(x, y)
                          /\ Normal(ts1) \/ (neg1 /\ Normal(Negated(ts1)))
        /\ at \in {"shift", "subtract", "sign"} => ValueOf(ts2) = size * 2 ^ i
        /\ at = "subtract" => ValueOf(ts1) < 2 * ValueOf(ts2)

\* Both, for the two times of the call.
TimesAreNumbers == (at = "called" => OperatorsAreRight) /\ ModIsRight
=============================================================================
