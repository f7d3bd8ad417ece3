---------------------------- MODULE MCThreadPool ----------------------------
(***************************************************************************)
(* Instances of ThreadPool: who submits and waits for whom.                *)
(***************************************************************************)
EXTENDS ThreadPool

\* A task and the one it submits and waits for, and a task of its own.
OneParent == [t \in {"a", "b", "c"} |-> IF t = "a" THEN {"b"} ELSE {}]

\* As many tasks that wait as there are threads.
AllParents == [t \in {"a", "b", "c", "d"} |->
                 CASE t = "a" -> {"c"} [] t = "b" -> {"d"} [] OTHER -> {}]
=============================================================================
