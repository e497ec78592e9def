---------------------------- MODULE MCAutomation ----------------------------
(***************************************************************************)
(* Small instances of Automation.  Components that do not interact are     *)
(* exercised by budgets of their own.                                      *)
(***************************************************************************)
EXTENDS Automation

CONSTANTS s1, c1, c2, f1, f2, p1, x1, x2, r1, r2, i1, i2, k1, k2, b1, b2, j1, v1, u1, u2

\* Contents that none, one or both of two validators accept.
MCContents == {[accepts |-> {"users", "title"}, title |-> FALSE],
               [accepts |-> {"title", "password"}, title |-> FALSE],
               [accepts |-> {"config", "users"}, title |-> TRUE],
               [accepts |-> {}, title |-> TRUE]}

MCPlans == {<<[kind |-> "workflow", file |-> x1], [kind |-> "workflow", file |-> x2]>>,
            <<[kind |-> "workflow", file |-> x1], [kind |-> "users", file |-> x2]>>,
            <<[kind |-> "users", file |-> x1], [kind |-> "title", file |-> x2]>>,
            <<[kind |-> "config", file |-> x1], [kind |-> "users", file |-> x2]>>,
            <<[kind |-> "users", file |-> x1], [kind |-> "title", file |-> x1]>>,
            <<[kind |-> "workflow", file |-> x1], [kind |-> "password", file |-> x2]>>}

Budget(given) == [e \in Events |-> IF e \in DOMAIN given THEN given[e] ELSE 0]

MCBudgets ==
  {Budget([schedule |-> 4, restart |-> 1]),
   Budget([schedule |-> 2, fire |-> 1, restart |-> 1]),
   Budget([schedule |-> 1, fire |-> 2, clear |-> 1]),
   Budget([schedule |-> 1, fire |-> 2, pipeline |-> 1]),
   Budget([pipeline |-> 1, file |-> 2]),
   Budget([pipeline |-> 1, restart |-> 1]),
   Budget([run |-> 3]),
   Budget([run |-> 2, restart |-> 1]),
   Budget([record |-> 3, readback |-> 2, refresh |-> 1, restart |-> 1]),
   Budget([record |-> 1, readback |-> 1, refresh |-> 3, review |-> 1, time |-> 1]),
   Budget([refresh |-> 3, review |-> 2, jobs |-> 1, recovery |-> 2, maintenance |-> 1])}
=============================================================================
