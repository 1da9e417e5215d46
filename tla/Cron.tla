-------------------------------- MODULE Cron --------------------------------
(***************************************************************************)
(* The cron expressions of core/triggers/cron.py: five fields, each a set  *)
(* of pieces.  A piece is `*', a number or a range, with a step: the       *)
(* digits are parsed to start, end and step, and `*' is the whole field.   *)
(***************************************************************************)
EXTENDS Integers

Field == {"minute", "hour", "dom", "month", "dow"}

\* CRON_BOUNDS.
Bounds == [minute |-> <<0, 59>>, hour |-> <<0, 23>>, dom |-> <<1, 31>>,
           month |-> <<1, 12>>, dow |-> <<0, 6>>]

Piece(start, end, step) == [start |-> start, end |-> end, step |-> step]
Star(field) == Piece(Bounds[field][1], Bounds[field][2], 1)
Only(n) == Piece(n, n, 1)
Every(field, k) == [Star(field) EXCEPT !.step = k]

\* What _parse_piece accepts: a step of `N/K' is accepted too, and changes nothing.
ValidPiece(field, p) ==
  /\ p.step > 0
  /\ Bounds[field][1] <= p.start /\ p.start <= p.end /\ p.end <= Bounds[field][2]

Valid(cron) == \A field \in Field : \A p \in cron[field] : ValidPiece(field, p)

\* range(start, end + 1, step).
ExpandPiece(p) == {n \in p.start .. p.end : (n - p.start) % p.step = 0}

Expand(pieces) == UNION {ExpandPiece(p) : p \in pieces}

\* CronSchedule.matches: every field, day of month and day of week too; weekday() has
\* Monday = 0 and cron Sunday = 0.
CronMatches(cron, dt) ==
  /\ dt.minute \in Expand(cron.minute)
  /\ dt.hour \in Expand(cron.hour)
  /\ dt.day \in Expand(cron.dom)
  /\ dt.month \in Expand(cron.month)
  /\ (dt.weekday + 1) % 7 \in Expand(cron.dow)
=============================================================================
