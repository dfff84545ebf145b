-------------------------- MODULE OwnershipAnswers --------------------------
(***************************************************************************)
(* The source ownership analysis of a whole program, compared with the     *)
(* same functions solved in another order and with single paths through    *)
(* them.                                                                   *)
(***************************************************************************)
EXTENDS OwnershipSummaries

-----------------------------------------------------------------------------
(* The same in another order: block after block from the first one, all     *)
(* functions at the same time, until nothing grows.                        *)

RECURSIVE Solution(_, _, _, _), Agreement(_, _, _)
Sweep(f, contracts, states) ==
  CHOOSE swept \in
    FoldLeft(LAMBDA sets, b :
               {IF b \notin DOMAIN s THEN s
                ELSE FoldLeft(LAMBDA t, target : Joined(t, target, Flow(f, contracts, s[b], b)),
                              s, f.blocks[b].next) : s \in sets},
             {states}, [b \in DOMAIN f.blocks |-> b]) : TRUE
Solution(f, contracts, old, states) ==
  IF old = states THEN states
  ELSE Solution(f, contracts, states, Sweep(f, contracts, states))
ReportOf(f, contracts) == Report(f, contracts, Solution(f, contracts, <<>>, <<Start>>))
Agreement(fs, old, contracts) ==
  IF old = contracts THEN contracts
  ELSE Agreement(fs, contracts,
         [n \in DOMAIN contracts |->
            Grown(contracts[n], Learned(FunctionOf(fs, n), contracts,
                                        ReportOf(FunctionOf(fs, n), contracts)))])
\* Contracts and errors do not depend on the order in which blocks and
\* functions are visited (the comments of analyze, ownership_ir.rs:394, and of
\* the summaries, ownership.rs:302): no caller is left with a contract that grew
\* after it was analysed.
OrderIrrelevant ==
  stage = "done" =>
    \E agreed \in {Agreement(plan, <<>>, FirstContracts(plan))} :
      /\ known = agreed
      /\ errors = UNION {{<<plan[k].name, e>> : e \in ReportOf(plan[k], agreed).errors} :
                           k \in DOMAIN plan}

\* What goes wrong on some path through a function, without any state ever
\* being joined, is reported: the same binding is at fault.
PathsReported ==
  stage = "done" =>
    \A k \in DOMAIN plan :
      \A e \in Walk(plan[k], known).errors :
        \E r \in errors : r[1] = plan[k].name /\ r[2][2] = e[2]
=============================================================================
