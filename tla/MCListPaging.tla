---------------------------- MODULE MCListPaging ----------------------------
(* Small instances of ListPaging for TLC. *)
EXTENDS ListPaging

List(sort, dir, view, limit) == [sort |-> sort, dir |-> dir, view |-> view, limit |-> limit]

Lists == {List("due", "asc", "all", 1), List("due", "desc", "all", 1),
          List("due", "asc", "all", 2), List("created", "desc", "overdue", 1)}
OpenOrDone == {NotStarted, Completed}
=============================================================================
