---------------------------- MODULE MCScheduler ----------------------------
(* Instances of Scheduler: two tools, one host, one language server and one *)
(* guarded resource, so that every limit and every conflict is met.         *)
EXTENDS Scheduler

CONSTANTS grep, fetch, docs, lsp, lease

ReadOnly == [mutates |-> FALSE, unknownScope |-> FALSE, parallelSafe |-> "yes"]
Undeclared == [ReadOnly EXCEPT !.parallelSafe = "absent"]
Mutating == [ReadOnly EXCEPT !.mutates = TRUE]
Unknown == [ReadOnly EXCEPT !.unknownScope = TRUE]

Plain == [effects |-> ReadOnly, concurrencySafe |-> "absent", tool |-> grep,
          host |-> None, server |-> None, resource |-> None]

\* Reads that may overlap: two of a kind compete for a tool, the two that use
\* the host for it, and the two that use the server for that.
Fetch == [Plain EXCEPT !.tool = fetch, !.host = docs]
Browse == [Plain EXCEPT !.host = docs]
Symbols == [Plain EXCEPT !.concurrencySafe = "yes", !.server = lsp]
Outline == [Symbols EXCEPT !.tool = fetch]
\* Reads that conflict with their like.
Sync == [Plain EXCEPT !.server = lsp]
Leased == [Plain EXCEPT !.resource = lease]
\* Barriers: a mutating call whatever it declares, and one with no effects.
Write == [Plain EXCEPT !.effects = Mutating, !.concurrencySafe = "yes"]
Opaque == [Plain EXCEPT !.effects = None]
Vague == [Plain EXCEPT !.effects = Unknown]
Silent == [Plain EXCEPT !.effects = Undeclared]

AllKinds == {Plain, Fetch, Browse, Symbols, Outline, Sync, Leased, Write, Opaque, Vague, Silent}

FirstConsumable == {1}
=============================================================================
