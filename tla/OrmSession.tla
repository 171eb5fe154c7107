------------------------------ MODULE OrmSession ------------------------------
(***************************************************************************)
(* What one SQLAlchemy session does to one database row.  Sessions come    *)
(* from async_sessionmaker(expire_on_commit=False): db.get() copies the    *)
(* row once, and the copy stays as it is after every commit until          *)
(* db.refresh() reads the row again.  A commit emits an UPDATE that names  *)
(* only the columns whose value in the session differs from the copy, and  *)
(* the UPDATE has no condition on the columns it does not name.  Two       *)
(* sessions on one row therefore never see each other's commits, and the   *)
(* later commit wins column by column.                                     *)
(*                                                                         *)
(* A row is a record; cur is the row in the database, old the session's    *)
(* copy, new the same object after the code has assigned to it.            *)
(***************************************************************************)

(* The columns an UPDATE would name. *)
Dirty(old, new) == {a \in DOMAIN new : new[a] # old[a]}

(* Wrong on purpose: an UPDATE that names every column. *)
FlushFault(cur, old, new) == new

(* The row after the session has committed new over its copy old. *)
Flush(cur, old, new) ==
    [a \in DOMAIN cur |-> IF a \in Dirty(old, new) THEN new[a] ELSE cur[a]]

===============================================================================
