---------------------------- MODULE NativeReview ----------------------------
(***************************************************************************)
(* The terms the native Foundation review builders of server.py are        *)
(* written in.                                                              *)
(*                                                                          *)
(* A builder reads the intent, the evidence and the approval (the facts w   *)
(* that hold), asks other builders for their reviews, one after the other,  *)
(* and returns its own: a status and a list of checks.  Its definition is   *)
(* an operator of its bound arguments q, the facts w and the reviews up it  *)
(* has obtained so far, and says either which review it asks for next or    *)
(* what it returns.  Of the checks of a review only those that do not pass  *)
(* are kept: the set "blocked" of their identifiers.  A check that passes   *)
(* in every review that is not invalid is left out, and so are the texts,   *)
(* hashes and counts.  "offers" are the parts of a review that may be       *)
(* missing and that another builder tests for.                              *)
(***************************************************************************)
EXTENDS Naturals, Sequences

\* What a parameter is when a caller leaves it out.
Defaults ==
  [phase |-> "full_deployment", approval_id |-> "", evidence_id |-> "", provider_id |-> "",
   deployment_type |-> "", include_scheduler |-> TRUE, include_hardware_reservation |-> TRUE,
   discovery_facts |-> FALSE, refs |-> FALSE]

Phase == {"phase"}
AE == {"approval_id", "evidence_id"}
PAE == AE \cup Phase
Scope == {"provider_id", "deployment_type"}
SAE == Scope \cup AE
PSAE == Scope \cup PAE
Scheduled == PAE \cup {"include_scheduler"}
Reserved == PSAE \cup {"include_hardware_reservation"}

\* Faulty variant of Unscheduled: the scheduler is not left out.
UnscheduledForgotten(q) == q
Unscheduled(q) == [q EXCEPT !.include_scheduler = FALSE]
Rescheduled(q) == [q EXCEPT !.include_scheduler = TRUE]
Unreserved(q) == [q EXCEPT !.include_hardware_reservation = FALSE]

\* A scope left open is the only provider and the only topology of the intent.
Inferred(q) ==
  [q EXCEPT !.provider_id = IF @ = "" THEN "dell" ELSE @,
            !.deployment_type = IF @ = "" THEN "hci" ELSE @]

(***************************************************************************)
(* A call: the builder, whether its arguments are given by position, by     *)
(* keyword or in both ways, and those that are given.  This is also what    *)
(* the packet cache takes as its key, so that one review asked for in two   *)
(* ways is built twice.                                                     *)
(***************************************************************************)
CallOf(name, style, q, given) ==
  [name |-> name, style |-> style, given |-> [p \in given |-> q[p]]]
ArgumentsOf(call) ==
  [p \in DOMAIN Defaults |-> IF p \in DOMAIN call.given THEN call.given[p] ELSE Defaults[p]]

Bare(name) == CallOf(name, "none", Defaults, {})
Pos(name, q, given) == CallOf(name, "position", q, given)
Kw(name, q, given) == CallOf(name, "keyword", q, given)
Mixed(name, q, given) == CallOf(name, "mixed", q, given)
Nothing == Bare("nothing")    \* a review that is not asked for
CallIf(condition, call) == IF condition THEN call ELSE Nothing

\* The approval is looked up only when one of the identifiers is given.
Binding(q) == CallIf(q.approval_id # "" \/ q.evidence_id # "",
                     Pos("approval_binding_review", q, AE))

(***************************************************************************)
(* Reviews, and tests of them.                                              *)
(***************************************************************************)
Result(status, blocked, offers) == [status |-> status, blocked |-> blocked, offers |-> offers]
Blocked(checks) == Result("blocked", checks, {})
Invalid == Result("invalid", {"valid"}, {})
Absent == Result("absent", {"present"}, {})

\* _native_foundation_checks_pass_except: every check but the ignored ones passes.
PassExcept(review, ignored) == review.blocked \subseteq ignored
Unless(condition, check) == IF condition THEN {} ELSE {check}
Carried(review, parts) == review.offers \cap parts
OfferIf(condition, part) == IF condition THEN {part} ELSE {}
Unoffered(review, part, check) == Unless(part \in review.offers, check)

\* An invalid review has no identifier to link to.
Linked(review, check) == Unless(review.status # "invalid", check)
AllLinked(up) == Unless(\A i \in DOMAIN up : up[i].status # "invalid", "source-reviews-linked")

\* The references an operator declares in a request: all of them or none.
Undeclared(q, checks) == IF q.refs THEN {} ELSE checks
BothIds(q) == q.approval_id # "" /\ q.evidence_id # ""

(***************************************************************************)
(* The course of a builder.  Once the first n reviews are there an invalid  *)
(* one among those at the positions of ends it; otherwise it asks on.       *)
(***************************************************************************)
Ask(call) == [asks |-> TRUE, call |-> call]
Return(review) == [asks |-> FALSE, review |-> review]

\* Faulty variant of Guarded: an invalid review does not end the course.
GuardedNever(up, n, of, calls, review) ==
  IF Len(up) < Len(calls) THEN Ask(calls[Len(up) + 1]) ELSE Return(review)

Guarded(up, n, of, calls, review) ==
  IF Len(up) >= n /\ \E i \in of : up[i].status = "invalid" THEN Return(Invalid)
  ELSE IF Len(up) < Len(calls) THEN Ask(calls[Len(up) + 1])
  ELSE Return(review)

Review(up, calls, review) == Guarded(up, 1, {1}, calls, review)
Unguarded(up, calls, review) == Guarded(up, 0, {}, calls, review)

(***************************************************************************)
(* Facts about the intent, the evidence it declares, the approval and the  *)
(* evidence packet.  A fact named like a check decides that check.          *)
(***************************************************************************)
ImageFacts == {"image-sources-declared", "image-sha256-present", "image-version-present"}
NetworkFacts ==
  {"network-profiles-present", "dns-ntp-present", "ip-addresses-valid", "subnets-valid",
   "ip-addresses-unique", "subnet-membership-reviewed"}
SecretFacts == {"credential-references-present", "inline-secrets-absent"}
DiscoveryFacts ==
  {"discovery-facts-present", "intended-nodes-discovered", "no-unexpected-discovered-nodes",
   "discovery-facts-complete"}
PayloadFacts == {"imaging-payload-fields-complete", "cluster-formation-fields-complete"}
PolicyFacts ==
  {"max-parallel-sites-valid", "site-parallelism-within-policy", "max-parallel-clusters-valid",
   "site-cluster-concurrency-within-policy", "deployment-windows-present",
   "approval-binding-required", "validation-evidence-required", "failure-policy-valid"}
\* Accepted evidence records of the intent: those every phase asks for, and all.
ReadinessFacts ==
  {"hardware-provider-uat", "image-source-verified", "network-path-verified",
   "stop-retry-recovery-reviewed"}
UatFacts == ReadinessFacts \cup {"cluster-create-validated", "approval-binding-accepted"}
ApprovalFacts ==
  {"approval-selected", "approval-status-approved", "approval-workflow-native-foundation",
   "approval-config-hash-match"}
EvidenceFacts ==
  {"evidence-selected", "evidence-source-native-foundation", "evidence-packet-plan-match",
   "evidence-controlled-uat-completion-gate-reviewed",
   "evidence-auth-persistence-completion-gate-reviewed"}
\* What the gate summary in the evidence packet itself holds.
SummaryFacts ==
  {"review-packet-output-export-gates-reviewed",
   "review-packet-controlled-uat-completion-gate-reviewed",
   "review-packet-auth-persistence-completion-gate-reviewed"}
=============================================================================
