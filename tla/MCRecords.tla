------------------------------ MODULE MCRecords ------------------------------
(***************************************************************************)
(* The records that outlive the process that wrote them, and the processes *)
(* that outlive the one that started them, checked together: a behaviour   *)
(* is one of MCLongHorizon, of SessionManager, of TodoList, of Jobs or of  *)
(* LanguageServers, and the others keep their initial states.              *)
(***************************************************************************)
EXTENDS MCLongHorizon, MCSessionManager, MCTodoList, Jobs, LanguageServers

longHorizonVars == <<execution, continuationVars, ledger>>
NoSession == disk = <<>> /\ mgr = NoManager /\ ~up
NoTodos == TodoInit /\ branch = NothingSaved

RecordsInit == LongHorizonInit /\ SessionInit /\ TodoInit /\ JobsInit /\ LspInit

RecordsNext ==
    \/ /\ NoSession /\ NoTodos /\ JobsInit /\ LspInit
       /\ LongHorizonNext /\ UNCHANGED <<vars, todoVars, jobVars, lspVars>>
    \/ /\ LongHorizonInit /\ NoTodos /\ JobsInit /\ LspInit
       /\ SessionNext /\ UNCHANGED <<longHorizonVars, todoVars, jobVars, lspVars>>
    \/ /\ LongHorizonInit /\ NoSession /\ JobsInit /\ LspInit
       /\ TodoNext /\ UNCHANGED <<longHorizonVars, vars, jobVars, lspVars>>
    \/ /\ LongHorizonInit /\ NoSession /\ NoTodos /\ LspInit
       /\ JobsNext /\ UNCHANGED <<longHorizonVars, vars, todoVars, lspVars>>
    \/ /\ LongHorizonInit /\ NoSession /\ NoTodos /\ JobsInit
       /\ LspNext /\ UNCHANGED <<longHorizonVars, vars, todoVars, jobVars>>

RecordsSpec ==
    RecordsInit /\ [][RecordsNext]_<<longHorizonVars, vars, todoVars, jobVars, lspVars>>
=============================================================================
