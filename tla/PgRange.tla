------------------------------ MODULE PgRange ------------------------------
(* psycopg2's Range (_range.py): a Python object that stands for a range of  *)
(* the server.  A bound is None or a value; the flags are a pair of "(" or   *)
(* "[" and ")" or "]", and None for an empty range.                          *)
EXTENDS Integers

CONSTANTS
    Values,     \* the values a bound can have, integers
    None        \* Python's None

Flags == {"(", "["} \X {")", "]"}

ASSUME RangeAssumption == Values \subseteq Int /\ None \notin Int \cup Flags

EmptyRange == [lower |-> None, upper |-> None, bounds |-> None]

(* What __init__ makes.                                                      *)
Ranges ==
    [lower : Values \cup {None}, upper : Values \cup {None}, bounds : Flags]
        \cup {EmptyRange}

IsEmpty(r) == r.bounds = None

LowerInc(r) == r.bounds # None /\ r.lower # None /\ r.bounds[1] = "["

(* What a bug would do: the flag of the other bound.                         *)
UpperIncByLower(r) == r.bounds # None /\ r.upper # None /\ r.bounds[1] = "["

UpperInc(r) == r.bounds # None /\ r.upper # None /\ r.bounds[2] = "]"

-----------------------------------------------------------------------------
(* What a bug would do: the second flag decides for both bounds.             *)
HoldsByUpper(r, x) ==
    /\ r.bounds # None
    /\ r.lower # None => IF r.bounds[2] = "]" THEN x >= r.lower ELSE x > r.lower
    /\ r.upper # None => IF r.bounds[2] = "]" THEN x <= r.upper ELSE x < r.upper

(* __contains__                                                              *)
Holds(r, x) ==
    /\ r.bounds # None
    /\ r.lower # None => IF r.bounds[1] = "[" THEN x >= r.lower ELSE x > r.lower
    /\ r.upper # None => IF r.bounds[2] = "]" THEN x <= r.upper ELSE x < r.upper

-----------------------------------------------------------------------------
(* The order of the flags is that of their characters, in ASCII.             *)
FlagLess(f, g) ==
    \/ f[1] = "(" /\ g[1] = "["
    \/ f[1] = g[1] /\ f[2] = ")" /\ g[2] = "]"

(* What a bug would do: None is below every value, and every value below it. *)
BelowNone(v, w) == v = None \/ w = None \/ v < w

(* Of two different bounds, None is the lower.                               *)
Below(v, w) == v = None \/ (w # None /\ v < w)

FlagsBelow(f, g) == f = None \/ (g # None /\ FlagLess(f, g))

(* __lt__: the first attribute that differs decides.                         *)
Less(r, s) ==
    \/ r.lower # s.lower /\ Below(r.lower, s.lower)
    \/ /\ r.lower = s.lower
       /\ r.upper # s.upper /\ Below(r.upper, s.upper)
    \/ /\ r.lower = s.lower /\ r.upper = s.upper
       /\ r.bounds # s.bounds /\ FlagsBelow(r.bounds, s.bounds)

Equal(r, s) ==
    r.lower = s.lower /\ r.upper = s.upper /\ r.bounds = s.bounds

AtMost(r, s) == Equal(r, s) \/ Less(r, s)           \* __le__
Greater(r, s) == Less(s, r)                         \* __gt__
AtLeast(r, s) == Equal(r, s) \/ Greater(r, s)       \* __ge__
=============================================================================
