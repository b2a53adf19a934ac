---------------------------- MODULE MCTodoList -----------------------------
(* Lists of one item, and updates of its status or its content. *)
EXTENDS TodoList

MCPlans == {<<TodoItem(1, "pending", content)>> : content \in {"x", "z"}}
MCUpdates ==
    {TodoOp(1, status, KeepField) : status \in {"in_progress", "completed"}}
      \cup {TodoOp(1, KeepField, "y")}
=============================================================================
