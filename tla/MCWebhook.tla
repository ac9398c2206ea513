----------------------------- MODULE MCWebhook -----------------------------
(***************************************************************************)
(* Model-checking instances of Webhook.  In SharedPR a Slack mention and   *)
(* two deliveries of one issue's status change are about one pull request, *)
(* a second issue's change may be about it or about another, and a third   *)
(* issue comes when two fixes were claimed; in ThreeIssues each issue has  *)
(* a pull request of its own.                                              *)
(***************************************************************************)
EXTENDS Webhook

\* One issue moves to one auto-fix status here: its id serves as the dedupe id
\* and as the job's key.
linear(issue, found) ==
  [id |-> issue, linear |-> TRUE, fix |-> TRUE, job |-> issue, prs |-> found]

SharedPR ==
  [s |-> [id |-> "ev", linear |-> FALSE, fix |-> FALSE, job |-> "p#1",
         prs |-> {"p#1"}],
   f1 |-> linear("i1", {"p#1"}),
   f2 |-> linear("i1", {"p#1"}),
   g |-> linear("i2", {"p#1", "p#2"}),
   h |-> linear("i3", {"p#2"})]

ThreeIssues ==
  [a |-> linear("i1", {"p#1"}), b |-> linear("i2", {"p#2"}),
   c |-> linear("i3", {"p#3"})]

\* f1 and f2 are interchangeable: only the order f1 before f2 is explored.
FirstThenSecond == pc["f1"] = "unsent" => pc["f2"] = "unsent"

\* The third issue is there to meet a used cap: it comes once the first day has
\* had two claims, and without the Slack mention, which claims nothing.
CapUsedFirst ==
  pc["h"] # "unsent" => startedOn[0] >= 2 /\ pc["s"] = "unsent"

SharedPRDeliveries == DOMAIN SharedPR
ThreeIssueDeliveries == DOMAIN ThreeIssues
=============================================================================
