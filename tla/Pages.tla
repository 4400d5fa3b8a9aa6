------------------------------- MODULE Pages -------------------------------
(***************************************************************************)
(* Pages of an ordered listing                                             *)
(* (src/services/api/internal/tracker/store/page.go).  A cursor is the     *)
(* offset of the next row; 0 stands for the empty cursor, which starts a   *)
(* listing and, as Next, ends it.  The rows are listed afresh for every    *)
(* page, so the offset is applied to whatever the listing has become.      *)
(***************************************************************************)
EXTENDS Integers, Sequences

CONSTANT Limit   \* the page size a caller asks for, or the store's default

ASSUME LimitAssumption == Limit \in Nat \ {0}

Lesser(a, b) == IF a < b THEN a ELSE b

\* offsetOf, with the cap at the end of the listing.
Start(rows, cursor) == Lesser(cursor, Len(rows))

\* A fault for the checks: one row too far.
FaultyNextCursor(rows, end) == IF end < Len(rows) THEN end + 1 ELSE 0

NextCursor(rows, end) == IF end < Len(rows) THEN end ELSE 0

Paginate(rows, cursor) ==
  LET start == Start(rows, cursor)
      end   == Lesser(start + Limit, Len(rows))
  IN  [rows |-> SubSeq(rows, start + 1, end), next |-> NextCursor(rows, end)]
=============================================================================
