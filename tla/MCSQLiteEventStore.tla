------------------------- MODULE MCSQLiteEventStore -------------------------
(***************************************************************************)
(* SQLiteEventStore for TLC: two processes on one file.  One emits and     *)
(* reads in pages of one row, the other emits and deletes, so that each    *)
(* store has a call waiting for its initialization lock.                   *)
(***************************************************************************)
EXTENDS SQLiteEventStore, TLC

CONSTANTS near, far, e1, e2, reader1, delete1

MCStores == {near, far}
MCEmits == {e1, e2}
MCStoreOf == e1 :> near @@ reader1 :> near @@ e2 :> far @@ delete1 :> far

\* The deletion removes the event of tick 1, which may be stored first or last.
MCTimestamp == e1 :> 1 @@ e2 :> 2
MCBefore == delete1 :> 2

MCWanted == reader1 :> MCEmits

\* For the liveness run, which needs no deletion.
MCLiveStoreOf == e1 :> near @@ reader1 :> near @@ e2 :> far
MCLiveBefore == <<>>
=============================================================================
