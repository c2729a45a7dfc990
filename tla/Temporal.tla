------------------------------ MODULE Temporal ------------------------------
(***************************************************************************)
(* Times and timestamps through a column: Adbc.Column.encode_time and      *)
(* encode_timestamp store a Time or a NaiveDateTime as an integer in the   *)
(* unit of the column, int_to_time and int_to_naive_datetime read it back. *)
(*                                                                         *)
(* A value is its number of microseconds since midnight or since the       *)
(* epoch.  The units are powers of K, 1000 in the code: a second is K^2    *)
(* microseconds.                                                           *)
(***************************************************************************)
EXTENDS Integers

CONSTANTS
    K,        \* 1000: milliseconds in a second, microseconds in a millisecond
    Day,      \* 86_400: seconds in a day
    Half32,   \* 2^31
    Half64,   \* 2^63
    Units,    \* the units of the columns
    Span      \* bound: how far from the epoch timestamps are, in seconds

ASSUME KAssumption == K \in Nat /\ K > 1
ASSUME UnitsAssumption == Units \subseteq {"seconds", "milliseconds", "microseconds", "nanoseconds"}
ASSUME WidthAssumption == {Day, Half32, Half64, Span} \subseteq Nat \ {0}

\* The integers of the buffers have room for a day, in milliseconds and in
\* nanoseconds, and for the timestamps that are considered.
ASSUME FitsAssumption ==
    Day * K < Half32 /\ Day * (K * K * K) < Half64 /\ Span * (K * K * K) < Half64

VARIABLES
    type,     \* "time" or "timestamp"
    unit,     \* the unit of the column
    value,    \* the element of the list
    stored,   \* the integer in the buffer
    phase     \* "list", "column" or "read"

temporalVars == <<type, unit, value, stored, phase>>

Microseconds == K * K

Values == [time |-> 0..(Day * Microseconds - 1),
           timestamp |-> (-Span * Microseconds)..(Span * Microseconds)]

TemporalInit ==
    /\ type \in {"time", "timestamp"}
    /\ unit \in Units
    /\ value \in Values[type]
    /\ stored = 0
    /\ phase = "list"

\* @time_unit_multiplier
Multiplier ==
    [seconds |-> 1, milliseconds |-> K, microseconds |-> K * K, nanoseconds |-> K * K * K][unit]

\* div/2 of Elixir rounds towards zero.
Quotient(a, b) == IF a >= 0 THEN a \div b ELSE -((-a) \div b)
Remainder(a, b) == a - b * Quotient(a, b)

\* signed-integer-native-size: the low bits, as a signed integer.
Signed(n, half) == ((n + half) % (2 * half)) - half

Half == IF type = "time" /\ unit \in {"seconds", "milliseconds"} THEN Half32 ELSE Half64

\* Time.to_seconds_after_midnight, NaiveDateTime.to_gregorian_seconds: whole
\* seconds and 0 or more microseconds, before the epoch, too.
Seconds(v) == v \div Microseconds
Rest(v) == v % Microseconds

Stored_RestInNanoseconds(v) ==
    Seconds(v) * Multiplier + Rest(v) * Quotient(Multiplier, K)

\* encode_time and encode_timestamp
Stored(v) == Seconds(v) * Multiplier + Rest(v) * Quotient(Multiplier, Microseconds)

EncodeTemporal ==
    /\ phase = "list"
    /\ stored' = Signed(Stored(value), Half)
    /\ phase' = "column"
    /\ UNCHANGED <<type, unit, value>>

Read_FloorsSeconds(int) ==
    LET total == Quotient(int * Microseconds, Multiplier) IN
    Seconds(total) * Microseconds + Remainder(total, Microseconds)

\* int_to_time and int_to_naive_datetime: seconds and microseconds, each with
\* the sign of the integer, added to midnight or to the epoch.
Read(int) ==
    LET total == Quotient(int * Microseconds, Multiplier) IN
    Quotient(total, Microseconds) * Microseconds + Remainder(total, Microseconds)

DecodeTemporal ==
    /\ phase = "column"
    /\ value' = Read(stored)
    /\ phase' = "read"
    /\ UNCHANGED <<type, unit, stored>>

\* A list that was read may be written again: it is an element as before.
RewriteTemporal ==
    /\ phase = "read"
    /\ phase' = "list"
    /\ stored' = 0
    /\ UNCHANGED <<type, unit, value>>

TemporalNext == EncodeTemporal \/ DecodeTemporal \/ RewriteTemporal

TemporalSpec == TemporalInit /\ [][TemporalNext]_temporalVars

-----------------------------------------------------------------------------
\* The microseconds in a unit; a unit below the microsecond loses none.
Resolution == IF Multiplier >= Microseconds THEN 1 ELSE Microseconds \div Multiplier

\* The types of the state: what is stored fits the buffer's integers.
TemporalTypeOK ==
    /\ type \in {"time", "timestamp"}
    /\ unit \in Units
    /\ value \in Values[type]
    /\ stored \in (-Half)..(Half - 1)
    /\ phase \in {"list", "column", "read"}

\* A column keeps a time and a timestamp to the precision of its unit: what
\* is read is what was written, rounded down to the unit, also before the
\* epoch, where the seconds are rounded down and the read integers towards 0.
\* It is claimed of seconds, microseconds and nanoseconds: in milliseconds the
\* rest of the second is lost, see Temporal_milliseconds.cfg.
KeepsValue ==
    [][phase = "column" /\ phase' = "read" => value' = value - (value % Resolution)]_temporalVars

\* Writing what was read stores the same integer: nothing drifts from one
\* transfer to the next.
StoresTheSame == phase = "read" => Signed(Stored(value), Half) = stored
=============================================================================
