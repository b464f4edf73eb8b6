-------------------------------- MODULE Lists ---------------------------------
(***************************************************************************)
(* Lists as the pages and the server handle them: a filter, as filter or a *)
(* loop with push does it, and a page of rows kept newest first, as ORDER  *)
(* BY ... DESC LIMIT size OFFSET (page - 1) * size cuts it                 *)
(* (db/queries/queries.sql).  A page is the set of its rows; their order   *)
(* is that of the ids.                                                     *)
(***************************************************************************)
EXTENDS Integers, Sequences, FiniteSets

\* What a loop that pushes the elements at the places in keep has after n of them.
PickedSoFar(s, keep) ==
  LET picked[n \in 0 .. Len(s)] ==
        IF n = 0 THEN <<>>
        ELSE IF n \in keep THEN Append(picked[n - 1], s[n]) ELSE picked[n - 1]
  IN picked

Picked(s, keep) == PickedSoFar(s, keep)[Len(s)]

\* How many rows come before a row.
Place(ids, id) == Cardinality({other \in ids : other > id})

PageOf(ids, page, size) ==
  {id \in ids : (page - 1) * size <= Place(ids, id) /\ Place(ids, id) < page * size}

PagesOf(total, size) == (total + size - 1) \div size

=============================================================================
