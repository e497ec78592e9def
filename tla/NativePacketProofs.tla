-------------------------- MODULE NativePacketProofs --------------------------
(*****************************************************************************)
(* No review of the native Foundation engine waits for itself, and what a    *)
(* review hands on, or lets pass, is justified.                              *)
(*                                                                           *)
(* A builder asks for the reviews it needs, and these for theirs. Most       *)
(* builders stand at a fixed depth; the two that take include_scheduler and  *)
(* the eight that take include_hardware_reservation are deeper by as much as *)
(* the reviews they otherwise leave out, and a builder that would come back  *)
(* to itself always leaves them out. With that rank, every call a builder    *)
(* makes is of a lesser rank than the builder (Descends), so the ranks fall  *)
(* along the stack (StackAlways), no call stands on it twice, and it is not  *)
(* higher than there are ranks (Shallow).                                    *)
(*                                                                           *)
(* A review is justified when what it offers has a source, and what it lets  *)
(* pass was seen in facts that last as long as the request. Every review a   *)
(* builder at work has, and every review in the cache, is justified          *)
(* (JustifiedInv): a builder that passes on what it was given passes on what *)
(* its own arguments allow (AskedFaithful, RecordsKept), and the two that    *)
(* offer something of their own look at the intent first. The approval and   *)
(* the evidence do not last, they change at any step; a permit has them from *)
(* the binding, which it asks for last and which the cache never keeps, so   *)
(* that both were good at a moment when the permit was under way (Fresh).    *)
(*****************************************************************************)
EXTENDS NativePacket, TLAPS, SequenceTheorems, FiniteSetTheorems

\* The builders that may leave out the scheduler.
Scheduling == {"restart_resume_review", "backup_restore_review"}

\* How much deeper a review goes when it does not leave out the scheduler, or
\* the hardware reservation.
SchedulerDepth(q) == IF q.include_scheduler THEN 7 ELSE 0
ReservationDepth(q) == IF q.include_hardware_reservation THEN 28 ELSE 0

Rank(call) ==
  Depth[call.name]
  + (IF call.name \in Scheduling THEN SchedulerDepth(ArgumentsOf(call)) ELSE 0)
  + (IF call.name \in Reserving THEN ReservationDepth(ArgumentsOf(call)) ELSE 0)

(***************************************************************************)
(* What a builder is given, and hands on.                                  *)
(***************************************************************************)

\* Arguments a builder can be given.
Legal(q) ==
  /\ q = [p \in DOMAIN Defaults |-> q[p]]
  /\ q.include_scheduler \in BOOLEAN /\ q.include_hardware_reservation \in BOOLEAN

\* The defaults of the builders are arguments a builder can be given.
LEMMA DefaultsLegal == Legal(Defaults)
BY DEF Legal, Defaults

\* So is what a call leaves a builder with.
LEMMA ArgumentsLegal ==
  ASSUME NEW call, WellFormed(call)
  PROVE  Legal(ArgumentsOf(call))
BY DEF Legal, WellFormed, ArgumentsOf, Defaults

\* What a builder changes of its arguments before it hands them on.
LEMMA ArgumentsChanged ==
  ASSUME NEW q, Legal(q)
  PROVE  /\ Legal(Inferred(q)) /\ Legal(Unscheduled(q))
         /\ Legal(Rescheduled(q)) /\ Legal(Unreserved(q))
         /\ \A phase : Legal([q EXCEPT !.phase = phase])
         /\ Legal([q EXCEPT !.refs = FALSE])
         /\ Inferred(q).evidence_id = q.evidence_id
         /\ Inferred(q).include_hardware_reservation = q.include_hardware_reservation
         /\ SchedulerDepth(Unscheduled(q)) = 0 /\ SchedulerDepth(Rescheduled(q)) = 7
         /\ ReservationDepth(Unreserved(q)) = 0
         /\ SchedulerDepth(q) \in {0, 7} /\ ReservationDepth(q) \in {0, 28}
         /\ Unreserved(q).evidence_id = q.evidence_id
BY DEF Legal, Defaults, Inferred, Unscheduled, Rescheduled, Unreserved, SchedulerDepth,
       ReservationDepth

\* What a call names is handed on; for the rest the default stands.
LEMMA ArgumentsGiven ==
  ASSUME NEW name, NEW style, NEW q, NEW given, NEW p \in DOMAIN Defaults
  PROVE  /\ p \in given => ArgumentsOf(CallOf(name, style, q, given))[p] = q[p]
         /\ p \notin given => ArgumentsOf(CallOf(name, style, q, given))[p] = Defaults[p]
BY DEF ArgumentsOf, CallOf

\* The two switches, handed on or left to their defaults.
LEMMA FlagsGiven ==
  ASSUME NEW name, NEW style, NEW q, NEW given,
         NEW a, a = ArgumentsOf(CallOf(name, style, q, given))
  PROVE  /\ "include_scheduler" \in given => a.include_scheduler = q.include_scheduler
         /\ "include_scheduler" \notin given => a.include_scheduler \in BOOLEAN
         /\ "include_hardware_reservation" \in given =>
              a.include_hardware_reservation = q.include_hardware_reservation
         /\ "include_hardware_reservation" \notin given =>
              a.include_hardware_reservation \in BOOLEAN
<1>1. {"include_scheduler", "include_hardware_reservation"} \subseteq DOMAIN Defaults
  BY DEF Defaults
<1>2. /\ Defaults["include_scheduler"] \in BOOLEAN
      /\ Defaults["include_hardware_reservation"] \in BOOLEAN
  BY DEF Defaults
<1>3. \A p \in DOMAIN Defaults : /\ p \in given => a[p] = q[p]
                                 /\ p \notin given => a[p] = Defaults[p]
  BY ArgumentsGiven
<1> QED BY <1>1, <1>2, <1>3

\* The two switches of a call made from legal arguments are Boolean.
LEMMA FlagsLegal ==
  ASSUME NEW name, NEW style, NEW q, NEW given, Legal(q),
         NEW a, a = ArgumentsOf(CallOf(name, style, q, given))
  PROVE  a.include_scheduler \in BOOLEAN /\ a.include_hardware_reservation \in BOOLEAN
<1>1. q.include_scheduler \in BOOLEAN /\ q.include_hardware_reservation \in BOOLEAN
  BY DEF Legal
<1>2. a.include_scheduler \in BOOLEAN
  <2>1. CASE "include_scheduler" \in given
    BY <1>1, <2>1, FlagsGiven
  <2>2. CASE "include_scheduler" \notin given
    BY <2>2, FlagsGiven
  <2> QED BY <2>1, <2>2
<1>3. a.include_hardware_reservation \in BOOLEAN
  <2>1. CASE "include_hardware_reservation" \in given
    BY <1>1, <2>1, FlagsGiven
  <2>2. CASE "include_hardware_reservation" \notin given
    BY <2>2, FlagsGiven
  <2> QED BY <2>1, <2>2
<1> QED BY <1>2, <1>3

\* A call that names a switch is as deep as its caller asks for.
LEMMA DepthsGiven ==
  ASSUME NEW name, NEW style, NEW q, NEW given, Legal(q),
         NEW a, a = ArgumentsOf(CallOf(name, style, q, given))
  PROVE  /\ SchedulerDepth(a) \in {0, 7} /\ ReservationDepth(a) \in {0, 28}
         /\ "include_scheduler" \in given => SchedulerDepth(a) = SchedulerDepth(q)
         /\ "include_hardware_reservation" \in given => ReservationDepth(a) = ReservationDepth(q)
<1>1. "include_scheduler" \in given => a.include_scheduler = q.include_scheduler
  BY FlagsGiven
<1>2. "include_hardware_reservation" \in given =>
        a.include_hardware_reservation = q.include_hardware_reservation
  BY FlagsGiven
<1> QED BY <1>1, <1>2 DEF SchedulerDepth, ReservationDepth

\* Only Reserved mentions the hardware reservation.
Unreserving(given) == "include_hardware_reservation" \notin given

\* Which of the sets of parameters name the hardware reservation.
LEMMA GivenSets ==
  /\ Unreserving({}) /\ Unreserving(Phase) /\ Unreserving(AE) /\ Unreserving(PAE)
  /\ Unreserving(Scope) /\ Unreserving(SAE) /\ Unreserving(PSAE) /\ Unreserving(Scheduled)
  /\ Unreserving({"phase"}) /\ Unreserving({"discovery_facts"}) /\ Unreserving(PAE \cup {"refs"})
  /\ "include_scheduler" \in Scheduled
  /\ "include_hardware_reservation" \in Reserved /\ "include_hardware_reservation" \in Reserved \ Scope
BY DEF Unreserving, Phase, AE, PAE, Scope, SAE, PSAE, Scheduled, Reserved

\* A call that may follow one of rank n.
Lesser(call, n) == call = Nothing \/ (WellFormed(call) /\ Rank(call) < n)
AsksLesser(outcome, n) == outcome.asks => Lesser(outcome.call, n)

\* A call made under a condition is lesser when it is so under that condition.
LEMMA CallIfLesser ==
  ASSUME NEW condition, NEW call, NEW n, condition => Lesser(call, n)
  PROVE  Lesser(CallIf(condition, call), n)
<1>1. CASE condition
  BY <1>1 DEF CallIf
<1>2. CASE ~condition
  BY <1>2 DEF CallIf, Lesser
<1> QED BY <1>1, <1>2

(***************************************************************************)
(* The rank of each call.                                                  *)
(***************************************************************************)

\* A call of a builder, of its depth and what it does not leave out.
LEMMA CallLesser ==
  ASSUME NEW name \in Builders, NEW style, NEW q, NEW given, NEW n \in Nat, NEW depth \in Nat,
         Depth[name] = depth, Legal(q),
         \/ name \notin Scheduling \cup Reserving /\ Unreserving(given) /\ depth < n
         \/ /\ name \in Scheduling /\ Unreserving(given)
            /\ \/ depth + 7 < n
               \/ "include_scheduler" \in given /\ depth + SchedulerDepth(q) < n
         \/ /\ name \in Reserving
            /\ \/ depth + 28 < n
               \/ "include_hardware_reservation" \in given /\ depth + ReservationDepth(q) < n
  PROVE  Lesser(CallOf(name, style, q, given), n)
<1> DEFINE call == CallOf(name, style, q, given)
<1>1. call.name = name /\ call.given = [p \in given |-> q[p]]
  BY DEF CallOf
<1>2. DOMAIN call.given = given
  BY <1>1
<1>3. PICK a : a = ArgumentsOf(call)
  OBVIOUS
<1>4. a.include_scheduler \in BOOLEAN /\ a.include_hardware_reservation \in BOOLEAN
  BY <1>3, FlagsLegal
<1>5. /\ SchedulerDepth(a) \in {0, 7} /\ ReservationDepth(a) \in {0, 28}
      /\ "include_scheduler" \in given => SchedulerDepth(a) = SchedulerDepth(q)
      /\ "include_hardware_reservation" \in given => ReservationDepth(a) = ReservationDepth(q)
  BY <1>3, DepthsGiven
<1>6. Scheduling \cap Reserving = {}
  BY DEF Scheduling, Reserving
<1> HIDE DEF call
<1>7. Rank(call) < n
  BY <1>1, <1>3, <1>5, <1>6 DEF Rank
<1>8. Lesser(call, n)
  BY <1>1, <1>2, <1>3, <1>4, <1>6, <1>7 DEF Lesser, WellFormed, Unreserving
<1> QED BY <1>8 DEF call

\* The calls of the builders of NativeManifests are lesser above their depth.
LEMMA ManifestsLesser ==
  ASSUME NEW style, NEW q, NEW given, NEW n \in Nat, Legal(q), Unreserving(given)
  PROVE  /\ 0 < n => Lesser(CallOf("plan", style, q, given), n)
         /\ 1 < n => Lesser(CallOf("image_source_manifest", style, q, given), n)
         /\ 1 < n => Lesser(CallOf("network_manifest", style, q, given), n)
         /\ 1 < n => Lesser(CallOf("secret_reference_manifest", style, q, given), n)
         /\ 5 < n => Lesser(CallOf("secret_resolution_plan", style, q, given), n)
         /\ 6 < n => Lesser(CallOf("secret_store_binding_review", style, q, given), n)
         /\ 7 < n => Lesser(CallOf("secret_store_provider_contract_review", style, q, given), n)
         /\ 8 < n => Lesser(CallOf("secret_lease_execution_review", style, q, given), n)
         /\ 9 < n => Lesser(CallOf("secret_audit_persistence_review", style, q, given), n)
         /\ 1 < n => Lesser(CallOf("execution_readiness", style, q, given), n)
         /\ 1 < n => Lesser(CallOf("execution_graph", style, q, given), n)
         /\ 0 < n => Lesser(CallOf("adapter_contracts", style, q, given), n)
         /\ 0 < n => Lesser(CallOf("provider_adapter_manifest", style, q, given), n)
         /\ 2 < n => Lesser(CallOf("cluster_evidence_packs", style, q, given), n)
         /\ 1 < n => Lesser(CallOf("provider_topology_matrix", style, q, given), n)
         /\ 2 < n => Lesser(CallOf("provider_operation_catalog", style, q, given), n)
         /\ 3 < n => Lesser(CallOf("provider_operation_admission_review", style, q, given), n)
         /\ 4 < n => Lesser(CallOf("provider_operation_queue_plan", style, q, given), n)
         /\ 5 < n => Lesser(CallOf("provider_operation_queue_admission_review", style, q, given), n)
         /\ 3 < n => Lesser(CallOf("uat_evidence_acceptance_review", style, q, given), n)
         /\ 3 < n => Lesser(CallOf("adapter_readiness", style, q, given), n)
         /\ 2 < n => Lesser(CallOf("provider_preflight_manifest", style, q, given), n)
         /\ 3 < n => Lesser(CallOf("discovery_contract_manifest", style, q, given), n)
         /\ 4 < n => Lesser(CallOf("discovery_reconciliation_manifest", style, q, given), n)
         /\ 5 < n => Lesser(CallOf("imaging_plan_manifest", style, q, given), n)
         /\ 6 < n => Lesser(CallOf("cluster_formation_plan_manifest", style, q, given), n)
         /\ 7 < n => Lesser(CallOf("post_create_validation_manifest", style, q, given), n)
<1>1. {"plan", "image_source_manifest", "network_manifest", "secret_reference_manifest",
       "secret_resolution_plan", "secret_store_binding_review",
       "secret_store_provider_contract_review", "secret_lease_execution_review",
       "secret_audit_persistence_review", "execution_readiness", "execution_graph",
       "adapter_contracts", "provider_adapter_manifest", "cluster_evidence_packs",
       "provider_topology_matrix", "provider_operation_catalog",
       "provider_operation_admission_review", "provider_operation_queue_plan",
       "provider_operation_queue_admission_review", "uat_evidence_acceptance_review",
       "adapter_readiness", "provider_preflight_manifest",
       "discovery_contract_manifest", "discovery_reconciliation_manifest",
       "imaging_plan_manifest", "cluster_formation_plan_manifest",
       "post_create_validation_manifest"} \subseteq Builders \ (Scheduling \cup Reserving)
  BY DEF Builders, Depth, Scheduling, Reserving
<1>2. /\ Depth["plan"] = 0 /\ Depth["image_source_manifest"] = 1
      /\ Depth["network_manifest"] = 1 /\ Depth["secret_reference_manifest"] = 1
      /\ Depth["secret_resolution_plan"] = 5
      /\ Depth["secret_store_binding_review"] = 6
      /\ Depth["secret_store_provider_contract_review"] = 7
      /\ Depth["secret_lease_execution_review"] = 8
      /\ Depth["secret_audit_persistence_review"] = 9
      /\ Depth["execution_readiness"] = 1 /\ Depth["execution_graph"] = 1
      /\ Depth["adapter_contracts"] = 0 /\ Depth["provider_adapter_manifest"] = 0
      /\ Depth["cluster_evidence_packs"] = 2 /\ Depth["provider_topology_matrix"] = 1
      /\ Depth["provider_operation_catalog"] = 2
      /\ Depth["provider_operation_admission_review"] = 3
      /\ Depth["provider_operation_queue_plan"] = 4
      /\ Depth["provider_operation_queue_admission_review"] = 5
      /\ Depth["uat_evidence_acceptance_review"] = 3
      /\ Depth["adapter_readiness"] = 3 /\ Depth["provider_preflight_manifest"] = 2
      /\ Depth["discovery_contract_manifest"] = 3
      /\ Depth["discovery_reconciliation_manifest"] = 4
      /\ Depth["imaging_plan_manifest"] = 5
      /\ Depth["cluster_formation_plan_manifest"] = 6
      /\ Depth["post_create_validation_manifest"] = 7
  BY DEF Depth
<1> QED BY <1>1, <1>2, CallLesser

\* The calls of the builders of NativeDeployment are lesser above their depth.
LEMMA DeploymentLesser ==
  ASSUME NEW style, NEW q, NEW given, NEW n \in Nat, Legal(q), Unreserving(given)
  PROVE  /\ 2 < n => Lesser(CallOf("deployment_policy", style, q, given), n)
         /\ 3 < n => Lesser(CallOf("deployment_wave_gate_review", style, q, given), n)
         /\ 22 < n => Lesser(CallOf("deployment_wave_rehearsal_plan", style, q, given), n)
         /\ 3 < n => Lesser(CallOf("evidence_pack_approval_review", style, q, given), n)
         /\ 23 < n => Lesser(CallOf("deployment_wave_authorization_review", style, q, given), n)
         /\ 24 < n => Lesser(CallOf("deployment_window_reservation_review", style, q, given), n)
         /\ 25 < n => Lesser(CallOf("deployment_scheduler_review", style, q, given), n)
         /\ 8 < n => Lesser(CallOf("deployment_type_support_review", style, q, given), n)
         /\ 3 < n => Lesser(CallOf("resume_checkpoint", style, q, given), n)
         /\ 4 < n => Lesser(CallOf("adapter_promotion_review", style, q, given), n)
         /\ 5 < n => Lesser(CallOf("uat_checklist", style, q, given), n)
         /\ 12 < n => Lesser(CallOf("adapter_uat_rehearsal_plan", style, q, given), n)
         /\ 13 < n => Lesser(CallOf("adapter_activation_review", style, q, given), n)
         /\ 14 < n => Lesser(CallOf("adapter_enablement_review", style, q, given), n)
         /\ 27 < n => Lesser(CallOf("adapter_allowlist_review", style, q, given), n)
<1>1. {"deployment_policy", "deployment_wave_gate_review",
       "deployment_wave_rehearsal_plan", "evidence_pack_approval_review",
       "deployment_wave_authorization_review", "deployment_window_reservation_review",
       "deployment_scheduler_review", "deployment_type_support_review",
       "resume_checkpoint", "adapter_promotion_review", "uat_checklist",
       "adapter_uat_rehearsal_plan", "adapter_activation_review",
       "adapter_enablement_review", "adapter_allowlist_review"} \subseteq Builders \ (Scheduling \cup Reserving)
  BY DEF Builders, Depth, Scheduling, Reserving
<1>2. /\ Depth["deployment_policy"] = 2 /\ Depth["deployment_wave_gate_review"] = 3
      /\ Depth["deployment_wave_rehearsal_plan"] = 22
      /\ Depth["evidence_pack_approval_review"] = 3
      /\ Depth["deployment_wave_authorization_review"] = 23
      /\ Depth["deployment_window_reservation_review"] = 24
      /\ Depth["deployment_scheduler_review"] = 25
      /\ Depth["deployment_type_support_review"] = 8
      /\ Depth["resume_checkpoint"] = 3 /\ Depth["adapter_promotion_review"] = 4
      /\ Depth["uat_checklist"] = 5 /\ Depth["adapter_uat_rehearsal_plan"] = 12
      /\ Depth["adapter_activation_review"] = 13
      /\ Depth["adapter_enablement_review"] = 14
      /\ Depth["adapter_allowlist_review"] = 27
  BY DEF Depth
<1> QED BY <1>1, <1>2, CallLesser

\* The calls of the builders of NativeExecution are lesser above their depth.
LEMMA ExecutionLesser ==
  ASSUME NEW style, NEW q, NEW given, NEW n \in Nat, Legal(q), Unreserving(given)
  PROVE  /\ 1 < n => Lesser(CallOf("approval_binding_review", style, q, given), n)
         /\ 4 < n => Lesser(CallOf("execution_admission_review", style, q, given), n)
         /\ 6 < n => Lesser(CallOf("execution_adapter_contract", style, q, given), n)
         /\ 7 < n => Lesser(CallOf("execution_request_review", style, q, given), n)
         /\ 8 < n =>
              Lesser(CallOf("execution_request_persistence_admission_review", style, q, given), n)
         /\ 12 < n => Lesser(CallOf("dry_run_execution_ledger", style, q, given), n)
         /\ 15 < n => Lesser(CallOf("execution_permit_review", style, q, given), n)
         /\ 16 < n => Lesser(CallOf("execution_lock_plan", style, q, given), n)
         /\ 17 < n => Lesser(CallOf("execution_audit_plan", style, q, given), n)
         /\ 18 < n => Lesser(CallOf("execution_retention_plan", style, q, given), n)
         /\ 21 < n => Lesser(CallOf("execution_runner_readiness", style, q, given), n)
         /\ 10 < n => Lesser(CallOf("recovery_plan", style, q, given), n)
         /\ 11 < n => Lesser(CallOf("job_state_plan", style, q, given), n)
         /\ 40 < n => Lesser(CallOf("mutating_enablement_review", style, q, given), n)
         /\ 41 < n => Lesser(CallOf("execution_submission_review", style, q, given), n)
         /\ 42 < n =>
              Lesser(CallOf("execution_submission_persistence_admission_review", style, q, given), n)
         /\ 43 < n => Lesser(CallOf("queue_persistence_review", style, q, given), n)
         /\ 44 < n => Lesser(CallOf("queue_persistence_admission_review", style, q, given), n)
         /\ 40 < n =>
              Lesser(CallOf("execution_authorization_persistence_admission_review", style, q, given), n)
         /\ 45 < n => Lesser(CallOf("job_persistence_admission_review", style, q, given), n)
<1>1. {"approval_binding_review", "execution_admission_review",
       "execution_adapter_contract", "execution_request_review",
       "execution_request_persistence_admission_review", "dry_run_execution_ledger",
       "execution_permit_review", "execution_lock_plan", "execution_audit_plan",
       "execution_retention_plan", "execution_runner_readiness", "recovery_plan",
       "job_state_plan", "mutating_enablement_review", "execution_submission_review",
       "execution_submission_persistence_admission_review", "queue_persistence_review",
       "queue_persistence_admission_review",
       "execution_authorization_persistence_admission_review",
       "job_persistence_admission_review"} \subseteq Builders \ (Scheduling \cup Reserving)
  BY DEF Builders, Depth, Scheduling, Reserving
<1>2. /\ Depth["approval_binding_review"] = 1
      /\ Depth["execution_admission_review"] = 4
      /\ Depth["execution_adapter_contract"] = 6
      /\ Depth["execution_request_review"] = 7
      /\ Depth["execution_request_persistence_admission_review"] = 8
      /\ Depth["dry_run_execution_ledger"] = 12
      /\ Depth["execution_permit_review"] = 15 /\ Depth["execution_lock_plan"] = 16
      /\ Depth["execution_audit_plan"] = 17 /\ Depth["execution_retention_plan"] = 18
      /\ Depth["execution_runner_readiness"] = 21 /\ Depth["recovery_plan"] = 10
      /\ Depth["job_state_plan"] = 11 /\ Depth["mutating_enablement_review"] = 40
      /\ Depth["execution_submission_review"] = 41
      /\ Depth["execution_submission_persistence_admission_review"] = 42
      /\ Depth["queue_persistence_review"] = 43
      /\ Depth["queue_persistence_admission_review"] = 44
      /\ Depth["execution_authorization_persistence_admission_review"] = 40
      /\ Depth["job_persistence_admission_review"] = 45
  BY DEF Depth
<1> QED BY <1>1, <1>2, CallLesser

\* The calls of the builders of NativeUat are lesser above their depth.
LEMMA UatLesser ==
  ASSUME NEW style, NEW q, NEW given, NEW n \in Nat, Legal(q), Unreserving(given)
  PROVE  /\ 23 < n => Lesser(CallOf("controlled_uat_scope_review", style, q, given), n)
         /\ 24 < n => Lesser(CallOf("controlled_uat_runbook_review", style, q, given), n)
         /\ 25 < n => Lesser(CallOf("controlled_uat_security_review", style, q, given), n)
         /\ 26 < n => Lesser(CallOf("controlled_uat_operations_review", style, q, given), n)
         /\ 28 < n => Lesser(CallOf("controlled_uat_signoff_review", style, q, given), n)
         /\ 47 < n => Lesser(CallOf("controlled_uat_lane_selection_review", style, q, given), n)
         /\ 48 < n =>
              Lesser(CallOf("controlled_uat_lane_persistence_admission_review", style, q, given), n)
         /\ 49 < n =>
              Lesser(CallOf("controlled_uat_hardware_reservation_review", style, q, given), n)
         /\ 50 < n =>
              Lesser(CallOf("controlled_uat_reservation_persistence_admission_review", style, q, given), n)
         /\ 68 < n => Lesser(CallOf("controlled_uat_completion_review", style, q, given), n)
<1>1. {"controlled_uat_scope_review", "controlled_uat_runbook_review",
       "controlled_uat_security_review", "controlled_uat_operations_review",
       "controlled_uat_signoff_review", "controlled_uat_lane_selection_review",
       "controlled_uat_lane_persistence_admission_review",
       "controlled_uat_hardware_reservation_review",
       "controlled_uat_reservation_persistence_admission_review",
       "controlled_uat_completion_review"} \subseteq Builders \ (Scheduling \cup Reserving)
  BY DEF Builders, Depth, Scheduling, Reserving
<1>2. /\ Depth["controlled_uat_scope_review"] = 23
      /\ Depth["controlled_uat_runbook_review"] = 24
      /\ Depth["controlled_uat_security_review"] = 25
      /\ Depth["controlled_uat_operations_review"] = 26
      /\ Depth["controlled_uat_signoff_review"] = 28
      /\ Depth["controlled_uat_lane_selection_review"] = 47
      /\ Depth["controlled_uat_lane_persistence_admission_review"] = 48
      /\ Depth["controlled_uat_hardware_reservation_review"] = 49
      /\ Depth["controlled_uat_reservation_persistence_admission_review"] = 50
      /\ Depth["controlled_uat_completion_review"] = 68
  BY DEF Depth
<1> QED BY <1>1, <1>2, CallLesser

\* The calls of the builders of NativeAdapters are lesser above their depth.
LEMMA AdaptersLesser ==
  ASSUME NEW style, NEW q, NEW given, NEW n \in Nat, Legal(q), Unreserving(given)
  PROVE  /\ 29 < n => Lesser(CallOf("adapter_load_plan_review", style, q, given), n)
         /\ 30 < n => Lesser(CallOf("adapter_package_provenance_review", style, q, given), n)
         /\ 31 < n => Lesser(CallOf("adapter_sbom_review", style, q, given), n)
         /\ 32 < n => Lesser(CallOf("adapter_runtime_isolation_review", style, q, given), n)
         /\ 33 < n => Lesser(CallOf("adapter_runtime_admission_review", style, q, given), n)
         /\ 34 < n => Lesser(CallOf("adapter_execution_preflight_review", style, q, given), n)
         /\ 35 < n => Lesser(CallOf("adapter_target_connectivity_review", style, q, given), n)
         /\ 36 < n => Lesser(CallOf("adapter_credential_handoff_review", style, q, given), n)
         /\ 37 < n => Lesser(CallOf("adapter_command_invocation_review", style, q, given), n)
         /\ 38 < n => Lesser(CallOf("adapter_output_evidence_review", style, q, given), n)
         /\ 39 < n => Lesser(CallOf("retained_evidence_export_review", style, q, given), n)
         /\ 46 < n => Lesser(CallOf("mutating_adapter_binding_review", style, q, given), n)
<1>1. {"adapter_load_plan_review", "adapter_package_provenance_review",
       "adapter_sbom_review", "adapter_runtime_isolation_review",
       "adapter_runtime_admission_review", "adapter_execution_preflight_review",
       "adapter_target_connectivity_review", "adapter_credential_handoff_review",
       "adapter_command_invocation_review", "adapter_output_evidence_review",
       "retained_evidence_export_review", "mutating_adapter_binding_review"} \subseteq Builders \ (Scheduling \cup Reserving)
  BY DEF Builders, Depth, Scheduling, Reserving
<1>2. /\ Depth["adapter_load_plan_review"] = 29
      /\ Depth["adapter_package_provenance_review"] = 30
      /\ Depth["adapter_sbom_review"] = 31
      /\ Depth["adapter_runtime_isolation_review"] = 32
      /\ Depth["adapter_runtime_admission_review"] = 33
      /\ Depth["adapter_execution_preflight_review"] = 34
      /\ Depth["adapter_target_connectivity_review"] = 35
      /\ Depth["adapter_credential_handoff_review"] = 36
      /\ Depth["adapter_command_invocation_review"] = 37
      /\ Depth["adapter_output_evidence_review"] = 38
      /\ Depth["retained_evidence_export_review"] = 39
      /\ Depth["mutating_adapter_binding_review"] = 46
  BY DEF Depth
<1> QED BY <1>1, <1>2, CallLesser

\* The builders that can leave out the scheduler or the hardware reservation.
LEMMA LeavingLesser ==
  ASSUME NEW style, NEW q, NEW given, NEW n \in Nat, Legal(q)
  PROVE  /\ Unreserving(given) =>
              /\ 26 < n => Lesser(CallOf("restart_resume_review", style, q, given), n)
              /\ 27 < n => Lesser(CallOf("backup_restore_review", style, q, given), n)
         /\ 19 + SchedulerDepth(q) < n => Lesser(CallOf("restart_resume_review", style, q, Scheduled), n)
         /\ 20 + SchedulerDepth(q) < n => Lesser(CallOf("backup_restore_review", style, q, Scheduled), n)
         /\ 50 < n => Lesser(CallOf("controlled_uat_entry_review", style, q, given), n)
         /\ 57 < n => Lesser(CallOf("controlled_uat_entry_issuance_review", style, q, given), n)
         /\ 58 < n =>
              Lesser(CallOf("controlled_uat_entry_persistence_admission_review", style, q, given), n)
         /\ 59 < n => Lesser(CallOf("controlled_uat_start_readiness_review", style, q, given), n)
         /\ 60 < n =>
              Lesser(CallOf("controlled_uat_start_persistence_admission_review", style, q, given), n)
         /\ 62 < n => Lesser(CallOf("controlled_uat_runner_admission_review", style, q, given), n)
         /\ 63 < n =>
              Lesser(CallOf("controlled_uat_runner_persistence_admission_review", style, q, given), n)
         /\ 67 < n =>
              Lesser(CallOf("controlled_uat_execution_authorization_review", style, q, given), n)
         /\ 22 + ReservationDepth(q) < n /\ "include_hardware_reservation" \in given =>
              Lesser(CallOf("controlled_uat_entry_review", style, q, given), n)
         /\ 29 + ReservationDepth(q) < n /\ "include_hardware_reservation" \in given =>
              Lesser(CallOf("controlled_uat_entry_issuance_review", style, q, given), n)
         /\ 30 + ReservationDepth(q) < n /\ "include_hardware_reservation" \in given =>
              Lesser(CallOf("controlled_uat_entry_persistence_admission_review", style, q, given), n)
         /\ 31 + ReservationDepth(q) < n /\ "include_hardware_reservation" \in given =>
              Lesser(CallOf("controlled_uat_start_readiness_review", style, q, given), n)
         /\ 32 + ReservationDepth(q) < n /\ "include_hardware_reservation" \in given =>
              Lesser(CallOf("controlled_uat_start_persistence_admission_review", style, q, given), n)
         /\ 34 + ReservationDepth(q) < n /\ "include_hardware_reservation" \in given =>
              Lesser(CallOf("controlled_uat_runner_admission_review", style, q, given), n)
         /\ 35 + ReservationDepth(q) < n /\ "include_hardware_reservation" \in given =>
              Lesser(CallOf("controlled_uat_runner_persistence_admission_review", style, q, given), n)
         /\ 39 + ReservationDepth(q) < n /\ "include_hardware_reservation" \in given =>
              Lesser(CallOf("controlled_uat_execution_authorization_review", style, q, given), n)
<1>1. Scheduling \subseteq Builders /\ Reserving \subseteq Builders
  BY DEF Builders, Depth, Scheduling, Reserving
<1>2. /\ Depth["restart_resume_review"] = 19 /\ Depth["backup_restore_review"] = 20
      /\ Depth["controlled_uat_entry_review"] = 22
      /\ Depth["controlled_uat_entry_issuance_review"] = 29
      /\ Depth["controlled_uat_entry_persistence_admission_review"] = 30
      /\ Depth["controlled_uat_start_readiness_review"] = 31
      /\ Depth["controlled_uat_start_persistence_admission_review"] = 32
      /\ Depth["controlled_uat_runner_admission_review"] = 34
      /\ Depth["controlled_uat_runner_persistence_admission_review"] = 35
      /\ Depth["controlled_uat_execution_authorization_review"] = 39
  BY DEF Depth
<1>3. {"controlled_uat_entry_review", "controlled_uat_entry_issuance_review",
       "controlled_uat_entry_persistence_admission_review",
       "controlled_uat_start_readiness_review",
       "controlled_uat_start_persistence_admission_review",
       "controlled_uat_runner_admission_review",
       "controlled_uat_runner_persistence_admission_review",
       "controlled_uat_execution_authorization_review"} = Reserving
  BY DEF Reserving
<1>4. {"restart_resume_review", "backup_restore_review"} = Scheduling
  BY DEF Scheduling
<1> QED BY <1>1, <1>2, <1>3, <1>4, GivenSets, CallLesser

(***************************************************************************)
(* What a builder asks for, from what it may ask for.                      *)
(***************************************************************************)

\* A guarded builder asks for the review that comes next in its list.
LEMMA GuardedAsks ==
  ASSUME NEW up, NEW m, NEW of, NEW calls, NEW review, Len(up) \in Nat, Len(calls) \in Nat,
         Guarded(up, m, of, calls, review).asks
  PROVE  \E k \in 1..Len(calls) : k = Len(up) + 1 /\ Guarded(up, m, of, calls, review).call = calls[k]
<1>1. Guarded(up, m, of, calls, review) = Ask(calls[Len(up) + 1]) /\ Len(up) < Len(calls)
  BY DEF Guarded, Return, Ask
<1> QED BY <1>1 DEF Ask

\* The approval binding, asked for when an approval is named.
LEMMA BindingLesser ==
  ASSUME NEW q, NEW n \in Nat, n > 1, Legal(q)
  PROVE  Lesser(Binding(q), n)
<1>1. Lesser(Pos("approval_binding_review", q, AE), n)
  BY ExecutionLesser, GivenSets DEF Pos
<1> QED BY <1>1, CallIfLesser DEF Binding

\* A builder that asks for nothing asks for lesser reviews only.
LEMMA ReturnsOnly ==
  ASSUME NEW review, NEW n
  PROVE  AsksLesser(Return(review), n)
BY DEF AsksLesser, Return

\* The reviews a builder has, of which only the number matters.
Counted(up) == Len(up) \in Nat

\* A guarded builder whose 1 review is lesser asks for lesser reviews only.
LEMMA Asks1 ==
  ASSUME NEW a, NEW up, Counted(up),
         NEW m, NEW of, NEW review, NEW n,
         Lesser(a, n)
  PROVE  AsksLesser(Guarded(up, m, of, <<a>>, review), n)
<1>1. \A x \in 1..1 : <<a>>[x] \in {a}
  OBVIOUS
<1> QED BY <1>1, GuardedAsks DEF AsksLesser, Counted

\* A guarded builder whose 2 reviews are lesser asks for lesser reviews only.
LEMMA Asks2 ==
  ASSUME NEW a, NEW b, NEW up, Counted(up),
         NEW m, NEW of, NEW review, NEW n,
         Lesser(a, n), Lesser(b, n)
  PROVE  AsksLesser(Guarded(up, m, of, <<a, b>>, review), n)
<1>1. \A x \in 1..2 : <<a, b>>[x] \in {a, b}
  OBVIOUS
<1> QED BY <1>1, GuardedAsks DEF AsksLesser, Counted

\* A guarded builder whose 3 reviews are lesser asks for lesser reviews only.
LEMMA Asks3 ==
  ASSUME NEW a, NEW b, NEW c, NEW up, Counted(up),
         NEW m, NEW of, NEW review, NEW n,
         Lesser(a, n), Lesser(b, n), Lesser(c, n)
  PROVE  AsksLesser(Guarded(up, m, of, <<a, b, c>>, review), n)
<1>1. \A x \in 1..3 : <<a, b, c>>[x] \in {a, b, c}
  OBVIOUS
<1> QED BY <1>1, GuardedAsks DEF AsksLesser, Counted

\* A guarded builder whose 4 reviews are lesser asks for lesser reviews only.
LEMMA Asks4 ==
  ASSUME NEW a, NEW b, NEW c, NEW d, NEW up, Counted(up),
         NEW m, NEW of, NEW review, NEW n,
         Lesser(a, n), Lesser(b, n), Lesser(c, n), Lesser(d, n)
  PROVE  AsksLesser(Guarded(up, m, of, <<a, b, c, d>>, review), n)
<1>1. \A x \in 1..4 : <<a, b, c, d>>[x] \in {a, b, c, d}
  OBVIOUS
<1> QED BY <1>1, GuardedAsks DEF AsksLesser, Counted

\* A guarded builder whose 5 reviews are lesser asks for lesser reviews only.
LEMMA Asks5 ==
  ASSUME NEW a, NEW b, NEW c, NEW d, NEW e, NEW up, Counted(up),
         NEW m, NEW of, NEW review, NEW n,
         Lesser(a, n), Lesser(b, n), Lesser(c, n), Lesser(d, n), Lesser(e, n)
  PROVE  AsksLesser(Guarded(up, m, of, <<a, b, c, d, e>>, review), n)
<1>1. \A x \in 1..5 : <<a, b, c, d, e>>[x] \in {a, b, c, d, e}
  OBVIOUS
<1> QED BY <1>1, GuardedAsks DEF AsksLesser, Counted

\* A guarded builder whose 6 reviews are lesser asks for lesser reviews only.
LEMMA Asks6 ==
  ASSUME NEW a, NEW b, NEW c, NEW d, NEW e, NEW f, NEW up, Counted(up),
         NEW m, NEW of, NEW review, NEW n,
         Lesser(a, n), Lesser(b, n), Lesser(c, n), Lesser(d, n), Lesser(e, n),
         Lesser(f, n)
  PROVE  AsksLesser(Guarded(up, m, of, <<a, b, c, d, e, f>>, review), n)
<1>1. \A x \in 1..6 : <<a, b, c, d, e, f>>[x] \in {a, b, c, d, e, f}
  OBVIOUS
<1> QED BY <1>1, GuardedAsks DEF AsksLesser, Counted

\* A guarded builder whose 7 reviews are lesser asks for lesser reviews only.
LEMMA Asks7 ==
  ASSUME NEW a, NEW b, NEW c, NEW d, NEW e, NEW f, NEW g, NEW up, Counted(up),
         NEW m, NEW of, NEW review, NEW n,
         Lesser(a, n), Lesser(b, n), Lesser(c, n), Lesser(d, n), Lesser(e, n),
         Lesser(f, n), Lesser(g, n)
  PROVE  AsksLesser(Guarded(up, m, of, <<a, b, c, d, e, f, g>>, review), n)
<1>1. \A x \in 1..7 : <<a, b, c, d, e, f, g>>[x] \in {a, b, c, d, e, f, g}
  OBVIOUS
<1> QED BY <1>1, GuardedAsks DEF AsksLesser, Counted

\* A guarded builder whose 8 reviews are lesser asks for lesser reviews only.
LEMMA Asks8 ==
  ASSUME NEW a, NEW b, NEW c, NEW d, NEW e, NEW f, NEW g, NEW h, NEW up, Counted(up),
         NEW m, NEW of, NEW review, NEW n,
         Lesser(a, n), Lesser(b, n), Lesser(c, n), Lesser(d, n), Lesser(e, n),
         Lesser(f, n), Lesser(g, n), Lesser(h, n)
  PROVE  AsksLesser(Guarded(up, m, of, <<a, b, c, d, e, f, g, h>>, review), n)
<1>1. \A x \in 1..8 : <<a, b, c, d, e, f, g, h>>[x] \in {a, b, c, d, e, f, g, h}
  OBVIOUS
<1> QED BY <1>1, GuardedAsks DEF AsksLesser, Counted

\* A guarded builder whose 9 reviews are lesser asks for lesser reviews only.
LEMMA Asks9 ==
  ASSUME NEW a, NEW b, NEW c, NEW d, NEW e, NEW f, NEW g, NEW h, NEW i, NEW up, Counted(up),
         NEW m, NEW of, NEW review, NEW n,
         Lesser(a, n), Lesser(b, n), Lesser(c, n), Lesser(d, n), Lesser(e, n),
         Lesser(f, n), Lesser(g, n), Lesser(h, n), Lesser(i, n)
  PROVE  AsksLesser(Guarded(up, m, of, <<a, b, c, d, e, f, g, h, i>>, review), n)
<1>1. \A x \in 1..9 : <<a, b, c, d, e, f, g, h, i>>[x] \in {a, b, c, d, e, f, g, h, i}
  OBVIOUS
<1> QED BY <1>1, GuardedAsks DEF AsksLesser, Counted

\* A guarded builder whose 10 reviews are lesser asks for lesser reviews only.
LEMMA Asks10 ==
  ASSUME NEW a, NEW b, NEW c, NEW d, NEW e, NEW f, NEW g, NEW h, NEW i, NEW j, NEW up, Counted(up),
         NEW m, NEW of, NEW review, NEW n,
         Lesser(a, n), Lesser(b, n), Lesser(c, n), Lesser(d, n), Lesser(e, n),
         Lesser(f, n), Lesser(g, n), Lesser(h, n), Lesser(i, n), Lesser(j, n)
  PROVE  AsksLesser(Guarded(up, m, of, <<a, b, c, d, e, f, g, h, i, j>>, review), n)
<1>1. \A x \in 1..10 : <<a, b, c, d, e, f, g, h, i, j>>[x] \in {a, b, c, d, e, f, g, h, i, j}
  OBVIOUS
<1> QED BY <1>1, GuardedAsks DEF AsksLesser, Counted

\* A guarded builder whose 11 reviews are lesser asks for lesser reviews only.
LEMMA Asks11 ==
  ASSUME NEW a, NEW b, NEW c, NEW d, NEW e, NEW f, NEW g, NEW h, NEW i, NEW j, NEW k, NEW up, Counted(up),
         NEW m, NEW of, NEW review, NEW n,
         Lesser(a, n), Lesser(b, n), Lesser(c, n), Lesser(d, n), Lesser(e, n),
         Lesser(f, n), Lesser(g, n), Lesser(h, n), Lesser(i, n), Lesser(j, n),
         Lesser(k, n)
  PROVE  AsksLesser(Guarded(up, m, of, <<a, b, c, d, e, f, g, h, i, j, k>>, review), n)
<1>1. \A x \in 1..11 : <<a, b, c, d, e, f, g, h, i, j, k>>[x] \in {a, b, c, d, e, f, g, h, i, j, k}
  OBVIOUS
<1> QED BY <1>1, GuardedAsks DEF AsksLesser, Counted

\* A guarded builder whose 12 reviews are lesser asks for lesser reviews only.
LEMMA Asks12 ==
  ASSUME NEW a, NEW b, NEW c, NEW d, NEW e, NEW f, NEW g, NEW h, NEW i, NEW j, NEW k,
         NEW l, NEW up, Counted(up),
         NEW m, NEW of, NEW review, NEW n,
         Lesser(a, n), Lesser(b, n), Lesser(c, n), Lesser(d, n), Lesser(e, n),
         Lesser(f, n), Lesser(g, n), Lesser(h, n), Lesser(i, n), Lesser(j, n),
         Lesser(k, n), Lesser(l, n)
  PROVE  AsksLesser(Guarded(up, m, of, <<a, b, c, d, e, f, g, h, i, j, k, l>>, review), n)
<1>1. \A x \in 1..12 : <<a, b, c, d, e, f, g, h, i, j, k, l>>[x] \in {a, b, c, d, e, f, g, h, i, j, k, l}
  OBVIOUS
<1> QED BY <1>1, GuardedAsks DEF AsksLesser, Counted

(***************************************************************************)
(* Each builder asks for reviews of a lesser rank only.                    *)
(***************************************************************************)

\* How much deeper the switches make a review.
LEMMA DepthsOf ==
  ASSUME NEW q, Legal(q)
  PROVE  SchedulerDepth(q) \in {0, 7} /\ ReservationDepth(q) \in {0, 28}
BY DEF Legal, SchedulerDepth, ReservationDepth

\* Each builder of NativeManifests asks for reviews of a lesser rank only.
LEMMA ManifestsDescend ==
  ASSUME NEW q, NEW w, NEW up, Legal(q), Counted(up)
  PROVE  /\ AsksLesser(Plan(q, w, up), 0)
         /\ AsksLesser(ImageSourceManifest(q, w, up), 1)
         /\ AsksLesser(NetworkManifest(q, w, up), 1)
         /\ AsksLesser(SecretReferenceManifest(q, w, up), 1)
         /\ AsksLesser(SecretResolutionPlan(q, w, up), 5)
         /\ AsksLesser(SecretStoreBindingReview(q, w, up), 6)
         /\ AsksLesser(SecretStoreProviderContractReview(q, w, up), 7)
         /\ AsksLesser(SecretLeaseExecutionReview(q, w, up), 8)
         /\ AsksLesser(SecretAuditPersistenceReview(q, w, up), 9)
         /\ AsksLesser(ExecutionReadiness(q, w, up), 1)
         /\ AsksLesser(ExecutionGraph(q, w, up), 1)
         /\ AsksLesser(AdapterContracts(q, w, up), 0)
         /\ AsksLesser(ProviderAdapterManifest(q, w, up), 0)
         /\ AsksLesser(ClusterEvidencePacks(q, w, up), 2)
         /\ AsksLesser(ProviderTopologyMatrix(q, w, up), 1)
         /\ AsksLesser(ProviderOperationCatalog(q, w, up), 2)
         /\ AsksLesser(ProviderOperationAdmissionReview(q, w, up), 3)
         /\ AsksLesser(ProviderOperationQueuePlan(q, w, up), 4)
         /\ AsksLesser(ProviderOperationQueueAdmissionReview(q, w, up), 5)
         /\ AsksLesser(UatEvidenceAcceptanceReview(q, w, up), 3)
         /\ AsksLesser(AdapterReadiness(q, w, up), 3)
         /\ AsksLesser(ProviderPreflightManifest(q, w, up), 2)
         /\ AsksLesser(DiscoveryContractManifest(q, w, up), 3)
         /\ AsksLesser(DiscoveryReconciliationManifest(q, w, up), 4)
         /\ AsksLesser(ImagingPlanManifest(q, w, up), 5)
         /\ AsksLesser(ClusterFormationPlanManifest(q, w, up), 6)
         /\ AsksLesser(PostCreateValidationManifest(q, w, up), 7)
<1>1. AsksLesser(Plan(q, w, up), 0)
  BY ReturnsOnly DEF Plan
<1>2. AsksLesser(ImageSourceManifest(q, w, up), 1)
  BY Asks1, ManifestsLesser, GivenSets, ArgumentsChanged, DepthsOf, DefaultsLegal
     DEF ImageSourceManifest, Bare, Review
<1>3. AsksLesser(NetworkManifest(q, w, up), 1)
  BY Asks1, ManifestsLesser, GivenSets, ArgumentsChanged, DepthsOf, DefaultsLegal
     DEF NetworkManifest, Bare, Review
<1>4. AsksLesser(SecretReferenceManifest(q, w, up), 1)
  BY Asks1, ManifestsLesser, GivenSets, ArgumentsChanged, DepthsOf, DefaultsLegal
     DEF SecretReferenceManifest, Bare, Review
<1>5. AsksLesser(SecretResolutionPlan(q, w, up), 5)
  BY Asks2, ExecutionLesser, ManifestsLesser, GivenSets, ArgumentsChanged, DepthsOf,
     DefaultsLegal
     DEF SecretResolutionPlan, Bare, Pos, Review
<1>6. AsksLesser(SecretStoreBindingReview(q, w, up), 6)
  BY Asks1, ManifestsLesser, GivenSets, ArgumentsChanged, DepthsOf, DefaultsLegal
     DEF SecretStoreBindingReview, Pos, Review
<1>7. AsksLesser(SecretStoreProviderContractReview(q, w, up), 7)
  BY Asks1, ManifestsLesser, GivenSets, ArgumentsChanged, DepthsOf, DefaultsLegal
     DEF SecretStoreProviderContractReview, Pos, Review
<1>8. AsksLesser(SecretLeaseExecutionReview(q, w, up), 8)
  BY Asks2, ManifestsLesser, GivenSets, ArgumentsChanged, DepthsOf, DefaultsLegal
     DEF SecretLeaseExecutionReview, Pos, Review
<1>9. AsksLesser(SecretAuditPersistenceReview(q, w, up), 9)
  <2>1. Legal([q EXCEPT !.refs = FALSE])
    BY ArgumentsChanged
  <2>2. /\ Lesser(Pos("secret_lease_execution_review", [q EXCEPT !.refs = FALSE], PAE \cup {"refs"}), 9)
    BY <2>1, ManifestsLesser, GivenSets, DefaultsLegal
       DEF Pos
  <2> QED
    BY <2>2, Asks1, Zenon
       DEF SecretAuditPersistenceReview, Review
<1>10. AsksLesser(ExecutionReadiness(q, w, up), 1)
  BY Asks1, ManifestsLesser, GivenSets, ArgumentsChanged, DepthsOf, DefaultsLegal
     DEF ExecutionReadiness, Bare, Unguarded
<1>11. AsksLesser(ExecutionGraph(q, w, up), 1)
  BY Asks1, ManifestsLesser, GivenSets, ArgumentsChanged, DepthsOf, DefaultsLegal
     DEF ExecutionGraph, Bare, Review
<1>12. AsksLesser(AdapterContracts(q, w, up), 0)
  BY ReturnsOnly DEF AdapterContracts
<1>13. AsksLesser(ProviderAdapterManifest(q, w, up), 0)
  BY ReturnsOnly DEF ProviderAdapterManifest
<1>14. AsksLesser(ClusterEvidencePacks(q, w, up), 2)
  <2>1. Legal([q EXCEPT !.phase = "imaging_only"])
    BY ArgumentsChanged
  <2>2. /\ Lesser(Bare("plan"), 2)
       /\ Lesser(Bare("execution_graph"), 2)
       /\ Lesser(Pos("execution_readiness", [q EXCEPT !.phase = "imaging_only"], {"phase"}), 2)
       /\ Lesser(Bare("adapter_contracts"), 2)
    BY <2>1, ManifestsLesser, GivenSets, DefaultsLegal
       DEF Bare, Pos
  <2> QED
    BY <2>2, Asks4, Zenon
       DEF ClusterEvidencePacks, Review
<1>15. AsksLesser(ProviderTopologyMatrix(q, w, up), 1)
  BY Asks1, ManifestsLesser, GivenSets, ArgumentsChanged, DepthsOf, DefaultsLegal
     DEF ProviderTopologyMatrix, Bare, Review
<1>16. AsksLesser(ProviderOperationCatalog(q, w, up), 2)
  BY Asks2, ManifestsLesser, GivenSets, ArgumentsChanged, DepthsOf, DefaultsLegal
     DEF ProviderOperationCatalog, Bare, Review
<1>17. AsksLesser(ProviderOperationAdmissionReview(q, w, up), 3)
  BY Asks2, ManifestsLesser, GivenSets, ArgumentsChanged, DepthsOf, DefaultsLegal
     DEF ProviderOperationAdmissionReview, Bare, Review
<1>18. AsksLesser(ProviderOperationQueuePlan(q, w, up), 4)
  BY Asks3, ManifestsLesser, GivenSets, ArgumentsChanged, DepthsOf, DefaultsLegal
     DEF ProviderOperationQueuePlan, Bare, Kw
<1>19. AsksLesser(ProviderOperationQueueAdmissionReview(q, w, up), 5)
  BY Asks2, ManifestsLesser, GivenSets, ArgumentsChanged, DepthsOf, DefaultsLegal
     DEF ProviderOperationQueueAdmissionReview, Bare, Kw
<1>20. AsksLesser(UatEvidenceAcceptanceReview(q, w, up), 3)
  BY Asks2, ManifestsLesser, GivenSets, ArgumentsChanged, DepthsOf, DefaultsLegal
     DEF UatEvidenceAcceptanceReview, Bare
<1>21. AsksLesser(AdapterReadiness(q, w, up), 3)
  BY Asks2, ManifestsLesser, GivenSets, ArgumentsChanged, DepthsOf, DefaultsLegal
     DEF AdapterReadiness, Bare
<1>22. AsksLesser(ProviderPreflightManifest(q, w, up), 2)
  BY Asks5, ManifestsLesser, GivenSets, ArgumentsChanged, DepthsOf, DefaultsLegal
     DEF ProviderPreflightManifest, Bare, Review
<1>23. AsksLesser(DiscoveryContractManifest(q, w, up), 3)
  BY Asks3, ManifestsLesser, GivenSets, ArgumentsChanged, DepthsOf, DefaultsLegal
     DEF DiscoveryContractManifest, Bare, Review
<1>24. AsksLesser(DiscoveryReconciliationManifest(q, w, up), 4)
  BY Asks2, ManifestsLesser, GivenSets, ArgumentsChanged, DepthsOf, DefaultsLegal
     DEF DiscoveryReconciliationManifest, Bare, Review
<1>25. AsksLesser(ImagingPlanManifest(q, w, up), 5)
  BY Asks5, ManifestsLesser, GivenSets, ArgumentsChanged, DepthsOf, DefaultsLegal
     DEF ImagingPlanManifest, Bare, Pos, Review
<1>26. AsksLesser(ClusterFormationPlanManifest(q, w, up), 6)
  <2>1. Legal([q EXCEPT !.phase = "hci_cluster_create"])
    BY ArgumentsChanged
  <2>2. /\ Lesser(Bare("plan"), 6)
       /\ Lesser(Bare("execution_graph"), 6)
       /\ Lesser(Pos("imaging_plan_manifest", q, {"discovery_facts"}), 6)
       /\ Lesser(Pos("execution_readiness", [q EXCEPT !.phase = "hci_cluster_create"], {"phase"}), 6)
    BY <2>1, ManifestsLesser, GivenSets, DefaultsLegal
       DEF Bare, Pos
  <2> QED
    BY <2>2, Asks4, Zenon
       DEF ClusterFormationPlanManifest, Review
<1>27. AsksLesser(PostCreateValidationManifest(q, w, up), 7)
  BY Asks1, ManifestsLesser, GivenSets, ArgumentsChanged, DepthsOf, DefaultsLegal
     DEF PostCreateValidationManifest, Pos, Review
<1> QED
  BY <1>1, <1>2, <1>3, <1>4, <1>5, <1>6, <1>7, <1>8, <1>9, <1>10, <1>11, <1>12, <1>13,
     <1>14, <1>15, <1>16, <1>17, <1>18, <1>19, <1>20, <1>21, <1>22, <1>23, <1>24, <1>25,
     <1>26, <1>27

\* Each builder of NativeDeployment asks for reviews of a lesser rank only.
LEMMA DeploymentDescend ==
  ASSUME NEW q, NEW w, NEW up, Legal(q), Counted(up)
  PROVE  /\ AsksLesser(DeploymentPolicy(q, w, up), 2)
         /\ AsksLesser(DeploymentWaveGateReview(q, w, up), 3)
         /\ AsksLesser(DeploymentWaveRehearsalPlan(q, w, up), 22)
         /\ AsksLesser(EvidencePackApprovalReview(q, w, up), 3)
         /\ AsksLesser(DeploymentWaveAuthorizationReview(q, w, up), 23)
         /\ AsksLesser(DeploymentWindowReservationReview(q, w, up), 24)
         /\ AsksLesser(DeploymentSchedulerReview(q, w, up), 25)
         /\ AsksLesser(DeploymentTypeSupportReview(q, w, up), 8)
         /\ AsksLesser(ResumeCheckpoint(q, w, up), 3)
         /\ AsksLesser(AdapterPromotionReview(q, w, up), 4)
         /\ AsksLesser(UatChecklist(q, w, up), 5)
         /\ AsksLesser(AdapterUatRehearsalPlan(q, w, up), 12)
         /\ AsksLesser(AdapterActivationReview(q, w, up), 13)
         /\ AsksLesser(AdapterEnablementReview(q, w, up), 14)
         /\ AsksLesser(AdapterAllowlistReview(q, w, up), 27)
<1>1. AsksLesser(DeploymentPolicy(q, w, up), 2)
  BY Asks1, ManifestsLesser, GivenSets, ArgumentsChanged, DepthsOf, DefaultsLegal
     DEF DeploymentPolicy, Bare, Review
<1>2. AsksLesser(DeploymentWaveGateReview(q, w, up), 3)
  BY Asks3, DeploymentLesser, ManifestsLesser, BindingLesser, GivenSets,
     ArgumentsChanged, DepthsOf, DefaultsLegal
     DEF DeploymentWaveGateReview, Bare, Review
<1>3. AsksLesser(DeploymentWaveRehearsalPlan(q, w, up), 22)
  BY Asks5, DeploymentLesser, ExecutionLesser, ManifestsLesser, GivenSets,
     ArgumentsChanged, DepthsOf, DefaultsLegal
     DEF DeploymentWaveRehearsalPlan, Bare, Kw, Review
<1>4. AsksLesser(EvidencePackApprovalReview(q, w, up), 3)
  BY Asks2, ManifestsLesser, BindingLesser, GivenSets, ArgumentsChanged, DepthsOf,
     DefaultsLegal
     DEF EvidencePackApprovalReview, Bare, Review
<1>5. AsksLesser(DeploymentWaveAuthorizationReview(q, w, up), 23)
  BY Asks5, DeploymentLesser, ExecutionLesser, GivenSets, ArgumentsChanged, DepthsOf,
     DefaultsLegal
     DEF DeploymentWaveAuthorizationReview, Kw, Review
<1>6. AsksLesser(DeploymentWindowReservationReview(q, w, up), 24)
  BY Asks3, DeploymentLesser, ExecutionLesser, GivenSets, ArgumentsChanged, DepthsOf,
     DefaultsLegal
     DEF DeploymentWindowReservationReview, Bare, Kw, Review
<1>7. AsksLesser(DeploymentSchedulerReview(q, w, up), 25)
  BY Asks7, DeploymentLesser, ExecutionLesser, GivenSets, ArgumentsChanged, DepthsOf,
     DefaultsLegal
     DEF DeploymentSchedulerReview, Kw, Mixed, Review
<1>8. AsksLesser(DeploymentTypeSupportReview(q, w, up), 8)
  <2>1. Legal(Inferred(q))
    BY ArgumentsChanged
  <2>2. /\ Lesser(Bare("execution_graph"), 8)
       /\ Lesser(Bare("plan"), 8)
       /\ Lesser(Bare("adapter_contracts"), 8)
       /\ Lesser(Bare("cluster_formation_plan_manifest"), 8)
       /\ Lesser(Bare("post_create_validation_manifest"), 8)
       /\ Lesser(Bare("adapter_readiness"), 8)
       /\ Lesser(Pos("adapter_promotion_review", Inferred(q), Scope), 8)
       /\ Lesser(Pos("uat_checklist", Inferred(q), Scope), 8)
    BY <2>1, DeploymentLesser, ManifestsLesser, GivenSets, DefaultsLegal
       DEF Bare, Pos
  <2> QED
    BY <2>2, Asks8, Zenon
       DEF DeploymentTypeSupportReview, Review
<1>9. AsksLesser(ResumeCheckpoint(q, w, up), 3)
  BY Asks2, ManifestsLesser, GivenSets, ArgumentsChanged, DepthsOf, DefaultsLegal
     DEF ResumeCheckpoint, Bare
<1>10. AsksLesser(AdapterPromotionReview(q, w, up), 4)
  <2>1. /\ Lesser(Bare("adapter_contracts"), 4)
       /\ Lesser(Bare("cluster_evidence_packs"), 4)
       /\ Lesser(Bare("resume_checkpoint"), 4)
    BY DeploymentLesser, ManifestsLesser, GivenSets, DefaultsLegal
       DEF Bare
  <2> QED
    BY <2>1, Asks3, Zenon
       DEF AdapterPromotionReview
<1>11. AsksLesser(UatChecklist(q, w, up), 5)
  <2>1. Legal(Inferred(q))
    BY ArgumentsChanged
  <2>2. /\ Lesser(Pos("adapter_promotion_review", Inferred(q), Scope), 5)
    BY <2>1, DeploymentLesser, GivenSets, DefaultsLegal
       DEF Pos
  <2> QED
    BY <2>2, Asks1, Zenon
       DEF UatChecklist, Review
<1>12. AsksLesser(AdapterUatRehearsalPlan(q, w, up), 12)
  <2>1. Legal(Inferred(q))
    BY ArgumentsChanged
  <2>2. /\ Lesser(Pos("uat_checklist", Inferred(q), Scope), 12)
       /\ Lesser(Pos("adapter_promotion_review", Inferred(q), Scope), 12)
       /\ Lesser(Bare("provider_preflight_manifest"), 12)
       /\ Lesser(Bare("job_state_plan"), 12)
    BY <2>1, DeploymentLesser, ExecutionLesser, ManifestsLesser, GivenSets,
       DefaultsLegal
       DEF Bare, Pos
  <2> QED
    BY <2>2, Asks4, Zenon
       DEF AdapterUatRehearsalPlan, Review
<1>13. AsksLesser(AdapterActivationReview(q, w, up), 13)
  <2>1. Legal(Inferred(q))
    BY ArgumentsChanged
  <2>2. /\ Lesser(Pos("adapter_uat_rehearsal_plan", Inferred(q), Scope), 13)
       /\ Lesser(Pos("adapter_promotion_review", Inferred(q), Scope), 13)
       /\ Lesser(Binding(q), 13)
    BY <2>1, DeploymentLesser, BindingLesser, GivenSets, DefaultsLegal
       DEF Pos
  <2> QED
    BY <2>2, Asks3, Zenon
       DEF AdapterActivationReview, Review
<1>14. AsksLesser(AdapterEnablementReview(q, w, up), 14)
  <2>1. Legal(Inferred(q))
    BY ArgumentsChanged
  <2>2. /\ Lesser(Bare("plan"), 14)
       /\ Lesser(Pos("adapter_activation_review", Inferred(q), SAE), 14)
    BY <2>1, DeploymentLesser, ManifestsLesser, GivenSets, DefaultsLegal
       DEF Bare, Pos
  <2> QED
    BY <2>2, Asks2, Zenon
       DEF AdapterEnablementReview, Review
<1>15. AsksLesser(AdapterAllowlistReview(q, w, up), 27)
  BY Asks4, DeploymentLesser, ManifestsLesser, UatLesser, GivenSets, ArgumentsChanged,
     DepthsOf, DefaultsLegal
     DEF AdapterAllowlistReview, Bare, Pos, Review
<1> QED
  BY <1>1, <1>2, <1>3, <1>4, <1>5, <1>6, <1>7, <1>8, <1>9, <1>10, <1>11, <1>12, <1>13,
     <1>14, <1>15

\* Each builder of NativeExecution asks for reviews of a lesser rank only.
LEMMA ExecutionDescend ==
  ASSUME NEW q, NEW w, NEW up, Legal(q), Counted(up)
  PROVE  /\ AsksLesser(ApprovalBindingReview(q, w, up), 1)
         /\ AsksLesser(ExecutionAdmissionReview(q, w, up), 4)
         /\ AsksLesser(ExecutionAdapterContract(q, w, up), 6)
         /\ AsksLesser(ExecutionRequestReview(q, w, up), 7)
         /\ AsksLesser(ExecutionRequestPersistenceAdmissionReview(q, w, up), 8)
         /\ AsksLesser(DryRunExecutionLedger(q, w, up), 12)
         /\ AsksLesser(ExecutionPermitReview(q, w, up), 15)
         /\ AsksLesser(ExecutionLockPlan(q, w, up), 16)
         /\ AsksLesser(ExecutionAuditPlan(q, w, up), 17)
         /\ AsksLesser(ExecutionRetentionPlan(q, w, up), 18)
         /\ AsksLesser(ExecutionRunnerReadiness(q, w, up), 21)
         /\ AsksLesser(RecoveryPlan(q, w, up), 10)
         /\ AsksLesser(JobStatePlan(q, w, up), 11)
         /\ AsksLesser(RestartResumeReview(q, w, up), 19 + SchedulerDepth(q))
         /\ AsksLesser(BackupRestoreReview(q, w, up), 20 + SchedulerDepth(q))
         /\ AsksLesser(MutatingEnablementReview(q, w, up), 40)
         /\ AsksLesser(ExecutionSubmissionReview(q, w, up), 41)
         /\ AsksLesser(ExecutionSubmissionPersistenceAdmissionReview(q, w, up), 42)
         /\ AsksLesser(QueuePersistenceReview(q, w, up), 43)
         /\ AsksLesser(QueuePersistenceAdmissionReview(q, w, up), 44)
         /\ AsksLesser(ExecutionAuthorizationPersistenceAdmissionReview(q, w, up), 40)
         /\ AsksLesser(JobPersistenceAdmissionReview(q, w, up), 45)
<1>1. AsksLesser(ApprovalBindingReview(q, w, up), 1)
  <2>1. /\ Lesser(Bare("plan"), 1)
    BY ManifestsLesser, GivenSets, DefaultsLegal
       DEF Bare
  <2> QED
    BY <2>1, Asks1, Zenon
       DEF ApprovalBindingReview, Review
<1>2. AsksLesser(ExecutionAdmissionReview(q, w, up), 4)
  <2>1. /\ Lesser(Bare("plan"), 4)
       /\ Lesser(Pos("execution_readiness", q, Phase), 4)
       /\ Lesser(Bare("adapter_readiness"), 4)
       /\ Lesser(Bare("deployment_policy"), 4)
       /\ Lesser(Binding(q), 4)
       /\ Lesser(Bare("execution_graph"), 4)
    BY DeploymentLesser, ManifestsLesser, BindingLesser, GivenSets, DefaultsLegal
       DEF Bare, Pos
  <2>2. PICK review :
          ExecutionAdmissionReview(q, w, up) =
            Review(up, <<Bare("plan"), Pos("execution_readiness", q, Phase),
                         Bare("adapter_readiness"), Bare("deployment_policy"), Binding(q),
                         Bare("execution_graph")>>, review)
    BY Zenon DEF ExecutionAdmissionReview
  <2>3. ExecutionAdmissionReview(q, w, up) =
          Guarded(up, 1, {1}, <<Bare("plan"), Pos("execution_readiness", q, Phase),
                         Bare("adapter_readiness"), Bare("deployment_policy"), Binding(q),
                         Bare("execution_graph")>>, review)
    BY <2>2 DEF Review
  <2> QED
    BY <2>1, <2>3, Asks6, Zenon
<1>3. AsksLesser(ExecutionAdapterContract(q, w, up), 6)
  BY Asks5, DeploymentLesser, ExecutionLesser, ManifestsLesser, GivenSets,
     ArgumentsChanged, DepthsOf, DefaultsLegal
     DEF ExecutionAdapterContract, Bare, Pos, Review
<1>4. AsksLesser(ExecutionRequestReview(q, w, up), 7)
  BY Asks1, ExecutionLesser, GivenSets, ArgumentsChanged, DepthsOf, DefaultsLegal
     DEF ExecutionRequestReview, Pos, Review
<1>5. AsksLesser(ExecutionRequestPersistenceAdmissionReview(q, w, up), 8)
  BY Asks1, ExecutionLesser, GivenSets, ArgumentsChanged, DepthsOf, DefaultsLegal
     DEF ExecutionRequestPersistenceAdmissionReview, Mixed, Review
<1>6. AsksLesser(DryRunExecutionLedger(q, w, up), 12)
  BY Asks4, ExecutionLesser, ManifestsLesser, GivenSets, ArgumentsChanged, DepthsOf,
     DefaultsLegal
     DEF DryRunExecutionLedger, Bare, Pos, Mixed, Review
<1>7. AsksLesser(ExecutionPermitReview(q, w, up), 15)
  BY Asks8, DeploymentLesser, ExecutionLesser, ManifestsLesser, BindingLesser,
     GivenSets, ArgumentsChanged, DepthsOf, DefaultsLegal
     DEF ExecutionPermitReview, Bare, Pos, Kw, Mixed, Review
<1>8. AsksLesser(ExecutionLockPlan(q, w, up), 16)
  BY Asks3, DeploymentLesser, ExecutionLesser, GivenSets, ArgumentsChanged, DepthsOf,
     DefaultsLegal
     DEF ExecutionLockPlan, Bare, Kw, Mixed, Review
<1>9. AsksLesser(ExecutionAuditPlan(q, w, up), 17)
  BY Asks5, ExecutionLesser, GivenSets, ArgumentsChanged, DepthsOf, DefaultsLegal
     DEF ExecutionAuditPlan, Pos, Kw, Mixed, Review
<1>10. AsksLesser(ExecutionRetentionPlan(q, w, up), 18)
  BY Asks3, ExecutionLesser, GivenSets, ArgumentsChanged, DepthsOf, DefaultsLegal
     DEF ExecutionRetentionPlan, Pos, Kw, Review
<1>11. AsksLesser(ExecutionRunnerReadiness(q, w, up), 21)
  <2>1. Legal(Unscheduled(q)) /\ SchedulerDepth(Unscheduled(q)) = 0
    BY ArgumentsChanged
  <2>2. /\ Lesser(Bare("plan"), 21)
       /\ Lesser(Mixed("execution_permit_review", q, PAE), 21)
       /\ Lesser(Kw("execution_lock_plan", q, PAE), 21)
       /\ Lesser(Kw("execution_audit_plan", q, PAE), 21)
       /\ Lesser(Kw("execution_retention_plan", q, PAE), 21)
       /\ Lesser(Kw("backup_restore_review", Unscheduled(q), Scheduled), 21)
       /\ Lesser(Bare("secret_resolution_plan"), 21)
       /\ Lesser(Mixed("secret_store_binding_review", q, PAE), 21)
       /\ Lesser(Mixed("secret_audit_persistence_review", q, PAE), 21)
       /\ Lesser(Kw("adapter_enablement_review", q, AE), 21)
       /\ Lesser(Kw("adapter_activation_review", q, AE), 21)
    BY <2>1, DeploymentLesser, ExecutionLesser, ManifestsLesser, LeavingLesser,
       GivenSets, DefaultsLegal
       DEF Bare, Kw, Mixed
  <2> QED
    BY <2>2, Asks11, Zenon
       DEF ExecutionRunnerReadiness, Review
<1>12. AsksLesser(RecoveryPlan(q, w, up), 10)
  BY Asks5, DeploymentLesser, ExecutionLesser, ManifestsLesser, GivenSets,
     ArgumentsChanged, DepthsOf, DefaultsLegal
     DEF RecoveryPlan, Bare, Kw, Mixed, Review
<1>13. AsksLesser(JobStatePlan(q, w, up), 11)
  BY Asks4, DeploymentLesser, ExecutionLesser, GivenSets, ArgumentsChanged, DepthsOf,
     DefaultsLegal
     DEF JobStatePlan, Bare, Kw, Mixed, Review
<1>14. AsksLesser(RestartResumeReview(q, w, up), 19 + SchedulerDepth(q))
  <2>1. SchedulerDepth(q) \in {0, 7} /\ (q.include_scheduler => SchedulerDepth(q) = 7)
    BY DepthsOf DEF SchedulerDepth
  <2>2. q.include_scheduler =>
         Lesser(Kw("deployment_scheduler_review", q, PAE), 19 + SchedulerDepth(q))
    BY <2>1, DeploymentLesser, GivenSets DEF Kw
  <2>3. Lesser(CallIf(q.include_scheduler,
                    Kw("deployment_scheduler_review", q, PAE)), 19 + SchedulerDepth(q))
    BY <2>2, CallIfLesser
  <2>4. /\ Lesser(Bare("resume_checkpoint"), 19 + SchedulerDepth(q))
       /\ Lesser(Kw("job_state_plan", q, PAE), 19 + SchedulerDepth(q))
       /\ Lesser(Kw("execution_retention_plan", q, PAE), 19 + SchedulerDepth(q))
       /\ Lesser(Kw("execution_audit_plan", q, PAE), 19 + SchedulerDepth(q))
       /\ Lesser(Kw("execution_lock_plan", q, PAE), 19 + SchedulerDepth(q))
    BY <2>1, DeploymentLesser, ExecutionLesser, GivenSets, DefaultsLegal
       DEF Bare, Kw
  <2> QED
    BY <2>3, <2>4, Asks6, Zenon
       DEF RestartResumeReview
<1>15. AsksLesser(BackupRestoreReview(q, w, up), 20 + SchedulerDepth(q))
  BY Asks5, DeploymentLesser, ExecutionLesser, LeavingLesser, GivenSets,
     ArgumentsChanged, DepthsOf, DefaultsLegal
     DEF BackupRestoreReview, Bare, Kw
<1>16. AsksLesser(MutatingEnablementReview(q, w, up), 40)
  <2>1. /\ Legal(Unscheduled(q)) /\ SchedulerDepth(Unscheduled(q)) = 0
       /\ Legal(Unreserved(q)) /\ ReservationDepth(Unreserved(q)) = 0
    BY ArgumentsChanged
  <2>2. /\ Lesser(Kw("execution_runner_readiness", q, PAE), 40)
       /\ Lesser(Kw("backup_restore_review", Unscheduled(q), Scheduled), 40)
       /\ Lesser(Kw("uat_evidence_acceptance_review", q, SAE), 40)
       /\ Lesser(Kw("controlled_uat_signoff_review", q, PSAE), 40)
       /\ Lesser(Kw("adapter_runtime_admission_review", q, PSAE), 40)
       /\ Lesser(Kw("adapter_execution_preflight_review", q, PSAE), 40)
       /\ Lesser(Kw("adapter_target_connectivity_review", q, PSAE), 40)
       /\ Lesser(Kw("adapter_credential_handoff_review", q, PSAE), 40)
       /\ Lesser(Kw("adapter_command_invocation_review", q, PSAE), 40)
       /\ Lesser(Kw("adapter_output_evidence_review", q, PSAE), 40)
       /\ Lesser(Kw("retained_evidence_export_review", q, PSAE), 40)
       /\ Lesser(Kw("controlled_uat_execution_authorization_review", Unreserved(q), Reserved), 40)
    BY <2>1, AdaptersLesser, ExecutionLesser, ManifestsLesser, UatLesser, LeavingLesser,
       GivenSets, DefaultsLegal
       DEF Kw
  <2> QED
    BY <2>2, Asks12, Zenon
       DEF MutatingEnablementReview, Review
<1>17. AsksLesser(ExecutionSubmissionReview(q, w, up), 41)
  <2>1. Legal(Unreserved(q)) /\ ReservationDepth(Unreserved(q)) = 0
    BY ArgumentsChanged
  <2>2. /\ Lesser(Kw("mutating_enablement_review", q, PSAE), 41)
       /\ Lesser(Kw("execution_request_persistence_admission_review", q, PAE), 41)
       /\ Lesser(Kw("deployment_scheduler_review", q, PAE), 41)
       /\ Lesser(Kw("execution_runner_readiness", q, PAE), 41)
       /\ Lesser(Kw("controlled_uat_entry_review", Unreserved(q), Reserved \ Scope), 41)
    BY <2>1, DeploymentLesser, ExecutionLesser, LeavingLesser, GivenSets, DefaultsLegal
       DEF Kw
  <2> QED
    BY <2>2, Asks5, Zenon
       DEF ExecutionSubmissionReview, Review
<1>18. AsksLesser(ExecutionSubmissionPersistenceAdmissionReview(q, w, up), 42)
  BY Asks1, ExecutionLesser, GivenSets, ArgumentsChanged, DepthsOf, DefaultsLegal
     DEF ExecutionSubmissionPersistenceAdmissionReview, Kw, Review
<1>19. AsksLesser(QueuePersistenceReview(q, w, up), 43)
  <2>1. Legal(Rescheduled(q)) /\ SchedulerDepth(Rescheduled(q)) = 7
    BY ArgumentsChanged
  <2>2. /\ Lesser(Kw("execution_submission_persistence_admission_review", q, PSAE), 43)
       /\ Lesser(Kw("job_state_plan", q, PAE), 43)
       /\ Lesser(Kw("execution_audit_plan", q, PAE), 43)
       /\ Lesser(Kw("execution_retention_plan", q, PAE), 43)
       /\ Lesser(Kw("restart_resume_review", Rescheduled(q), Scheduled), 43)
    BY <2>1, ExecutionLesser, LeavingLesser, GivenSets, DefaultsLegal
       DEF Kw
  <2> QED
    BY <2>2, Asks5, Zenon
       DEF QueuePersistenceReview, Review
<1>20. AsksLesser(QueuePersistenceAdmissionReview(q, w, up), 44)
  BY Asks1, ExecutionLesser, GivenSets, ArgumentsChanged, DepthsOf, DefaultsLegal
     DEF QueuePersistenceAdmissionReview, Kw, Review
<1>21. AsksLesser(ExecutionAuthorizationPersistenceAdmissionReview(q, w, up), 40)
  <2>1. Legal(Unreserved(q)) /\ ReservationDepth(Unreserved(q)) = 0
    BY ArgumentsChanged
  <2>2. /\ Lesser(Kw("controlled_uat_execution_authorization_review", Unreserved(q), Reserved), 40)
       /\ Lesser(Kw("execution_request_persistence_admission_review", q, PAE), 40)
    BY <2>1, ExecutionLesser, LeavingLesser, GivenSets, DefaultsLegal
       DEF Kw
  <2> QED
    BY <2>2, Asks2, Zenon
       DEF ExecutionAuthorizationPersistenceAdmissionReview, Review
<1>22. AsksLesser(JobPersistenceAdmissionReview(q, w, up), 45)
  <2>1. Legal(Rescheduled(q)) /\ SchedulerDepth(Rescheduled(q)) = 7
    BY ArgumentsChanged
  <2>2. /\ Lesser(Kw("queue_persistence_admission_review", q, PSAE), 45)
       /\ Lesser(Kw("execution_authorization_persistence_admission_review", q, PSAE), 45)
       /\ Lesser(Kw("job_state_plan", q, PAE), 45)
       /\ Lesser(Kw("restart_resume_review", Rescheduled(q), Scheduled), 45)
       /\ Lesser(Kw("backup_restore_review", q, PAE), 45)
    BY <2>1, ExecutionLesser, LeavingLesser, GivenSets, DefaultsLegal
       DEF Kw
  <2> QED
    BY <2>2, Asks5, Zenon
       DEF JobPersistenceAdmissionReview, Review
<1> QED
  BY <1>1, <1>2, <1>3, <1>4, <1>5, <1>6, <1>7, <1>8, <1>9, <1>10, <1>11, <1>12, <1>13,
     <1>14, <1>15, <1>16, <1>17, <1>18, <1>19, <1>20, <1>21, <1>22

\* Each builder of NativeUat asks for reviews of a lesser rank only.
LEMMA UatDescend ==
  ASSUME NEW q, NEW w, NEW up, Legal(q), Counted(up)
  PROVE  /\ AsksLesser(ControlledUatEntryReview(q, w, up), 22 + ReservationDepth(q))
         /\ AsksLesser(ControlledUatScopeReview(q, w, up), 23)
         /\ AsksLesser(ControlledUatRunbookReview(q, w, up), 24)
         /\ AsksLesser(ControlledUatSecurityReview(q, w, up), 25)
         /\ AsksLesser(ControlledUatOperationsReview(q, w, up), 26)
         /\ AsksLesser(ControlledUatSignoffReview(q, w, up), 28)
         /\ AsksLesser(ControlledUatLaneSelectionReview(q, w, up), 47)
         /\ AsksLesser(ControlledUatLanePersistenceAdmissionReview(q, w, up), 48)
         /\ AsksLesser(ControlledUatHardwareReservationReview(q, w, up), 49)
         /\ AsksLesser(ControlledUatReservationPersistenceAdmissionReview(q, w, up), 50)
         /\ AsksLesser(ControlledUatEntryIssuanceReview(q, w, up), 29 + ReservationDepth(q))
         /\ AsksLesser(ControlledUatEntryPersistenceAdmissionReview(q, w, up), 30 + ReservationDepth(q))
         /\ AsksLesser(ControlledUatStartReadinessReview(q, w, up), 31 + ReservationDepth(q))
         /\ AsksLesser(ControlledUatStartPersistenceAdmissionReview(q, w, up), 32 + ReservationDepth(q))
         /\ AsksLesser(ControlledUatRunnerAdmissionReview(q, w, up), 34 + ReservationDepth(q))
         /\ AsksLesser(ControlledUatRunnerPersistenceAdmissionReview(q, w, up), 35 + ReservationDepth(q))
         /\ AsksLesser(ControlledUatExecutionAuthorizationReview(q, w, up), 39 + ReservationDepth(q))
         /\ AsksLesser(ControlledUatCompletionReview(q, w, up), 68)
<1>1. AsksLesser(ControlledUatEntryReview(q, w, up), 22 + ReservationDepth(q))
  <2>1. ReservationDepth(q) \in {0, 28} /\ (q.include_hardware_reservation => ReservationDepth(q) = 28)
    BY DepthsOf DEF ReservationDepth
  <2>2. q.include_hardware_reservation =>
         Lesser(Kw("controlled_uat_hardware_reservation_review", q, PSAE), 22 + ReservationDepth(q))
    BY <2>1, DeploymentLesser, UatLesser, GivenSets DEF Kw
  <2>3. Lesser(CallIf(q.include_hardware_reservation,
                    Kw("controlled_uat_hardware_reservation_review", q, PSAE)), 22 + ReservationDepth(q))
    BY <2>2, CallIfLesser
  <2>4. /\ Lesser(Bare("plan"), 22 + ReservationDepth(q))
       /\ Lesser(Kw("execution_runner_readiness", q, PAE), 22 + ReservationDepth(q))
       /\ Lesser(Pos("adapter_activation_review", q, SAE), 22 + ReservationDepth(q))
       /\ Lesser(Pos("adapter_enablement_review", q, SAE), 22 + ReservationDepth(q))
       /\ Lesser(Pos("adapter_uat_rehearsal_plan", q, Scope), 22 + ReservationDepth(q))
       /\ Lesser(Pos("secret_store_binding_review", q, PAE), 22 + ReservationDepth(q))
       /\ Lesser(Pos("secret_audit_persistence_review", q, PAE), 22 + ReservationDepth(q))
       /\ Lesser(Kw("execution_retention_plan", q, PAE), 22 + ReservationDepth(q))
       /\ Lesser(Kw("execution_audit_plan", q, PAE), 22 + ReservationDepth(q))
    BY <2>1, DeploymentLesser, ExecutionLesser, ManifestsLesser, UatLesser, GivenSets,
       DefaultsLegal
       DEF Bare, Pos, Kw
  <2> QED
    BY <2>3, <2>4, Asks10, Zenon
       DEF ControlledUatEntryReview, Review
<1>2. AsksLesser(ControlledUatScopeReview(q, w, up), 23)
  <2>1. Legal(Unreserved(q)) /\ ReservationDepth(Unreserved(q)) = 0
    BY ArgumentsChanged
  <2>2. /\ Lesser(Bare("plan"), 23)
       /\ Lesser(Bare("cluster_evidence_packs"), 23)
       /\ Lesser(Bare("deployment_policy"), 23)
       /\ Lesser(Mixed("controlled_uat_entry_review", Unreserved(q), Reserved), 23)
    BY <2>1, DeploymentLesser, ManifestsLesser, LeavingLesser, GivenSets, DefaultsLegal
       DEF Bare, Mixed
  <2> QED
    BY <2>2, Asks4, Zenon
       DEF ControlledUatScopeReview, Review
<1>3. AsksLesser(ControlledUatRunbookReview(q, w, up), 24)
  BY Asks2, ManifestsLesser, UatLesser, GivenSets, ArgumentsChanged, DepthsOf,
     DefaultsLegal
     DEF ControlledUatRunbookReview, Bare, Mixed, Review
<1>4. AsksLesser(ControlledUatSecurityReview(q, w, up), 25)
  BY Asks7, DeploymentLesser, ExecutionLesser, ManifestsLesser, UatLesser, GivenSets,
     ArgumentsChanged, DepthsOf, DefaultsLegal
     DEF ControlledUatSecurityReview, Bare, Pos, Kw, Mixed, Review
<1>5. AsksLesser(ControlledUatOperationsReview(q, w, up), 26)
  BY Asks7, ExecutionLesser, ManifestsLesser, UatLesser, GivenSets, ArgumentsChanged,
     DepthsOf, DefaultsLegal
     DEF ControlledUatOperationsReview, Bare, Pos, Kw, Review
<1>6. AsksLesser(ControlledUatSignoffReview(q, w, up), 28)
  BY Asks9, DeploymentLesser, ManifestsLesser, UatLesser, GivenSets, ArgumentsChanged,
     DepthsOf, DefaultsLegal
     DEF ControlledUatSignoffReview, Bare, Pos, Kw, Review
<1>7. AsksLesser(ControlledUatLaneSelectionReview(q, w, up), 47)
  <2>1. Legal(Inferred(q))
    BY ArgumentsChanged
  <2>2. /\ Lesser(Kw("mutating_adapter_binding_review", Inferred(q), PSAE), 47)
       /\ Lesser(Kw("deployment_type_support_review", Inferred(q), SAE), 47)
       /\ Lesser(Kw("controlled_uat_scope_review", Inferred(q), PSAE), 47)
       /\ Lesser(Kw("controlled_uat_signoff_review", Inferred(q), PSAE), 47)
       /\ Lesser(Kw("uat_evidence_acceptance_review", Inferred(q), SAE), 47)
    BY <2>1, AdaptersLesser, DeploymentLesser, ManifestsLesser, UatLesser, GivenSets,
       DefaultsLegal
       DEF Kw
  <2> QED
    BY <2>2, Asks5, Zenon
       DEF ControlledUatLaneSelectionReview, Review
<1>8. AsksLesser(ControlledUatLanePersistenceAdmissionReview(q, w, up), 48)
  <2>1. Legal(Inferred(q))
    BY ArgumentsChanged
  <2>2. /\ Lesser(Kw("controlled_uat_lane_selection_review", q, PSAE), 48)
       /\ Lesser(Kw("job_persistence_admission_review", Inferred(q), PSAE), 48)
       /\ Lesser(Kw("mutating_adapter_binding_review", Inferred(q), PSAE), 48)
       /\ Lesser(Kw("controlled_uat_scope_review", Inferred(q), PSAE), 48)
    BY <2>1, AdaptersLesser, ExecutionLesser, UatLesser, GivenSets, DefaultsLegal
       DEF Kw
  <2> QED
    BY <2>2, Asks4, Zenon
       DEF ControlledUatLanePersistenceAdmissionReview, Review
<1>9. AsksLesser(ControlledUatHardwareReservationReview(q, w, up), 49)
  <2>1. Legal(Inferred(q))
    BY ArgumentsChanged
  <2>2. /\ Lesser(Kw("controlled_uat_lane_selection_review", q, PSAE), 49)
       /\ Lesser(Kw("controlled_uat_lane_persistence_admission_review", q, PSAE), 49)
       /\ Lesser(Kw("deployment_window_reservation_review", q, PAE), 49)
       /\ Lesser(Kw("deployment_scheduler_review", q, PAE), 49)
       /\ Lesser(Kw("execution_lock_plan", q, PAE), 49)
       /\ Lesser(Kw("controlled_uat_operations_review", Inferred(q), PSAE), 49)
    BY <2>1, DeploymentLesser, ExecutionLesser, UatLesser, GivenSets, DefaultsLegal
       DEF Kw
  <2> QED
    BY <2>2, Asks6, Zenon
       DEF ControlledUatHardwareReservationReview, Review
<1>10. AsksLesser(ControlledUatReservationPersistenceAdmissionReview(q, w, up), 50)
  <2>1. Legal(Inferred(q))
    BY ArgumentsChanged
  <2>2. /\ Lesser(Kw("controlled_uat_hardware_reservation_review", q, PSAE), 50)
       /\ Lesser(Kw("controlled_uat_signoff_review", Inferred(q), PSAE), 50)
       /\ Lesser(Kw("controlled_uat_operations_review", Inferred(q), PSAE), 50)
       /\ Lesser(Kw("uat_evidence_acceptance_review", Inferred(q), SAE), 50)
    BY <2>1, ManifestsLesser, UatLesser, GivenSets, DefaultsLegal
       DEF Kw
  <2> QED
    BY <2>2, Asks4, Zenon
       DEF ControlledUatReservationPersistenceAdmissionReview, Review
<1>11. AsksLesser(ControlledUatEntryIssuanceReview(q, w, up), 29 + ReservationDepth(q))
  <2>1. /\ Legal(Inferred(q))
       /\ Inferred(q).include_hardware_reservation = q.include_hardware_reservation
    BY ArgumentsChanged
  <2>2. ReservationDepth(q) \in {0, 28} /\ (q.include_hardware_reservation => ReservationDepth(q) = 28)
    BY DepthsOf DEF ReservationDepth
  <2>3. q.include_hardware_reservation =>
         Lesser(Kw("controlled_uat_hardware_reservation_review", Inferred(q), PSAE), 29 + ReservationDepth(q))
    BY <2>1, <2>2, UatLesser, LeavingLesser, GivenSets DEF Kw
  <2>4. Lesser(CallIf(q.include_hardware_reservation,
                    Kw("controlled_uat_hardware_reservation_review", Inferred(q), PSAE)), 29 + ReservationDepth(q))
    BY <2>3, CallIfLesser
  <2>5. q.include_hardware_reservation =>
         Lesser(Kw("controlled_uat_reservation_persistence_admission_review", Inferred(q), PSAE), 29 + ReservationDepth(q))
    BY <2>1, <2>2, UatLesser, LeavingLesser, GivenSets DEF Kw
  <2>6. Lesser(CallIf(q.include_hardware_reservation,
                    Kw("controlled_uat_reservation_persistence_admission_review", Inferred(q), PSAE)), 29 + ReservationDepth(q))
    BY <2>5, CallIfLesser
  <2>7. /\ Lesser(Mixed("controlled_uat_entry_review", q, Reserved), 29 + ReservationDepth(q))
       /\ Lesser(Kw("controlled_uat_signoff_review", Inferred(q), PSAE), 29 + ReservationDepth(q))
       /\ Lesser(Kw("uat_evidence_acceptance_review", Inferred(q), SAE), 29 + ReservationDepth(q))
    BY <2>1, <2>2, ManifestsLesser, UatLesser, LeavingLesser, GivenSets, DefaultsLegal
       DEF Kw, Mixed
  <2> QED
    BY <2>4, <2>6, <2>7, Asks5, Zenon
       DEF ControlledUatEntryIssuanceReview, Review
<1>12. AsksLesser(ControlledUatEntryPersistenceAdmissionReview(q, w, up), 30 + ReservationDepth(q))
  <2>1. Legal(Inferred(q))
    BY ArgumentsChanged
  <2>2. ReservationDepth(q) \in Nat
    BY DepthsOf
  <2>3. /\ Lesser(Kw("controlled_uat_entry_issuance_review", q, Reserved), 30 + ReservationDepth(q))
       /\ Lesser(Kw("controlled_uat_signoff_review", Inferred(q), PSAE), 30 + ReservationDepth(q))
       /\ Lesser(Kw("controlled_uat_runbook_review", Inferred(q), PSAE), 30 + ReservationDepth(q))
       /\ Lesser(Kw("uat_evidence_acceptance_review", Inferred(q), SAE), 30 + ReservationDepth(q))
    BY <2>1, <2>2, ManifestsLesser, UatLesser, LeavingLesser, GivenSets, DefaultsLegal
       DEF Kw
  <2> QED
    BY <2>3, Asks4, Zenon
       DEF ControlledUatEntryPersistenceAdmissionReview, Review
<1>13. AsksLesser(ControlledUatStartReadinessReview(q, w, up), 31 + ReservationDepth(q))
  BY Asks2, LeavingLesser, GivenSets, ArgumentsChanged, DepthsOf, DefaultsLegal
     DEF ControlledUatStartReadinessReview, Kw, Review
<1>14. AsksLesser(ControlledUatStartPersistenceAdmissionReview(q, w, up), 32 + ReservationDepth(q))
  BY Asks1, LeavingLesser, GivenSets, ArgumentsChanged, DepthsOf, DefaultsLegal
     DEF ControlledUatStartPersistenceAdmissionReview, Kw, Review
<1>15. AsksLesser(ControlledUatRunnerAdmissionReview(q, w, up), 34 + ReservationDepth(q))
  BY Asks4, AdaptersLesser, ExecutionLesser, LeavingLesser, GivenSets, ArgumentsChanged,
     DepthsOf, DefaultsLegal
     DEF ControlledUatRunnerAdmissionReview, Kw
<1>16. AsksLesser(ControlledUatRunnerPersistenceAdmissionReview(q, w, up), 35 + ReservationDepth(q))
  BY Asks1, LeavingLesser, GivenSets, ArgumentsChanged, DepthsOf, DefaultsLegal
     DEF ControlledUatRunnerPersistenceAdmissionReview, Kw, Review
<1>17. AsksLesser(ControlledUatExecutionAuthorizationReview(q, w, up), 39 + ReservationDepth(q))
  BY Asks6, AdaptersLesser, LeavingLesser, GivenSets, ArgumentsChanged, DepthsOf,
     DefaultsLegal
     DEF ControlledUatExecutionAuthorizationReview, Kw, Unguarded
<1>18. AsksLesser(ControlledUatCompletionReview(q, w, up), 68)
  BY Asks5, AdaptersLesser, ManifestsLesser, UatLesser, LeavingLesser, GivenSets,
     ArgumentsChanged, DepthsOf, DefaultsLegal
     DEF ControlledUatCompletionReview, Kw, Unguarded
<1> QED
  BY <1>1, <1>2, <1>3, <1>4, <1>5, <1>6, <1>7, <1>8, <1>9, <1>10, <1>11, <1>12, <1>13,
     <1>14, <1>15, <1>16, <1>17, <1>18

\* Each builder of NativeAdapters asks for reviews of a lesser rank only.
LEMMA AdaptersDescend ==
  ASSUME NEW q, NEW w, NEW up, Legal(q), Counted(up)
  PROVE  /\ AsksLesser(AdapterLoadPlanReview(q, w, up), 29)
         /\ AsksLesser(AdapterPackageProvenanceReview(q, w, up), 30)
         /\ AsksLesser(AdapterSbomReview(q, w, up), 31)
         /\ AsksLesser(AdapterRuntimeIsolationReview(q, w, up), 32)
         /\ AsksLesser(AdapterRuntimeAdmissionReview(q, w, up), 33)
         /\ AsksLesser(AdapterExecutionPreflightReview(q, w, up), 34)
         /\ AsksLesser(AdapterTargetConnectivityReview(q, w, up), 35)
         /\ AsksLesser(AdapterCredentialHandoffReview(q, w, up), 36)
         /\ AsksLesser(AdapterCommandInvocationReview(q, w, up), 37)
         /\ AsksLesser(AdapterOutputEvidenceReview(q, w, up), 38)
         /\ AsksLesser(RetainedEvidenceExportReview(q, w, up), 39)
         /\ AsksLesser(MutatingAdapterBindingReview(q, w, up), 46)
<1>1. AsksLesser(AdapterLoadPlanReview(q, w, up), 29)
  BY Asks6, DeploymentLesser, ExecutionLesser, ManifestsLesser, UatLesser, GivenSets,
     ArgumentsChanged, DepthsOf, DefaultsLegal
     DEF AdapterLoadPlanReview, Bare, Pos, Kw, Stage, StageFrom
<1>2. AsksLesser(AdapterPackageProvenanceReview(q, w, up), 30)
  BY Asks1, AdaptersLesser, GivenSets, ArgumentsChanged, DepthsOf, DefaultsLegal
     DEF AdapterPackageProvenanceReview, Kw, Stage, StageFrom
<1>3. AsksLesser(AdapterSbomReview(q, w, up), 31)
  BY Asks1, AdaptersLesser, GivenSets, ArgumentsChanged, DepthsOf, DefaultsLegal
     DEF AdapterSbomReview, Kw, Stage, StageFrom
<1>4. AsksLesser(AdapterRuntimeIsolationReview(q, w, up), 32)
  BY Asks1, AdaptersLesser, GivenSets, ArgumentsChanged, DepthsOf, DefaultsLegal
     DEF AdapterRuntimeIsolationReview, Kw, Stage, StageFrom
<1>5. AsksLesser(AdapterRuntimeAdmissionReview(q, w, up), 33)
  BY Asks1, AdaptersLesser, GivenSets, ArgumentsChanged, DepthsOf, DefaultsLegal
     DEF AdapterRuntimeAdmissionReview, Kw, Stage, StageFrom
<1>6. AsksLesser(AdapterExecutionPreflightReview(q, w, up), 34)
  BY Asks1, AdaptersLesser, GivenSets, ArgumentsChanged, DepthsOf, DefaultsLegal
     DEF AdapterExecutionPreflightReview, Kw, Stage, StageFrom
<1>7. AsksLesser(AdapterTargetConnectivityReview(q, w, up), 35)
  BY Asks1, AdaptersLesser, GivenSets, ArgumentsChanged, DepthsOf, DefaultsLegal
     DEF AdapterTargetConnectivityReview, Kw, Stage, StageFrom
<1>8. AsksLesser(AdapterCredentialHandoffReview(q, w, up), 36)
  BY Asks2, AdaptersLesser, ManifestsLesser, GivenSets, ArgumentsChanged, DepthsOf,
     DefaultsLegal
     DEF AdapterCredentialHandoffReview, Kw, StageFrom
<1>9. AsksLesser(AdapterCommandInvocationReview(q, w, up), 37)
  BY Asks1, AdaptersLesser, GivenSets, ArgumentsChanged, DepthsOf, DefaultsLegal
     DEF AdapterCommandInvocationReview, Kw, Stage, StageFrom
<1>10. AsksLesser(AdapterOutputEvidenceReview(q, w, up), 38)
  BY Asks1, AdaptersLesser, GivenSets, ArgumentsChanged, DepthsOf, DefaultsLegal
     DEF AdapterOutputEvidenceReview, Mixed, Stage, StageFrom
<1>11. AsksLesser(RetainedEvidenceExportReview(q, w, up), 39)
  BY Asks2, AdaptersLesser, ExecutionLesser, GivenSets, ArgumentsChanged, DepthsOf,
     DefaultsLegal
     DEF RetainedEvidenceExportReview, Pos, Mixed, StageFrom
<1>12. AsksLesser(MutatingAdapterBindingReview(q, w, up), 46)
  <2>1. Legal(Inferred(q))
    BY ArgumentsChanged
  <2>2. /\ Lesser(Kw("provider_operation_queue_admission_review", q, PAE), 46)
       /\ Lesser(Kw("queue_persistence_admission_review", Inferred(q), PSAE), 46)
       /\ Lesser(Kw("job_persistence_admission_review", Inferred(q), PSAE), 46)
       /\ Lesser(Kw("adapter_activation_review", Inferred(q), SAE), 46)
       /\ Lesser(Kw("adapter_allowlist_review", Inferred(q), Scope), 46)
       /\ Lesser(Kw("adapter_runtime_admission_review", Inferred(q), PSAE), 46)
       /\ Lesser(Kw("adapter_execution_preflight_review", Inferred(q), PSAE), 46)
       /\ Lesser(Kw("adapter_target_connectivity_review", Inferred(q), PSAE), 46)
       /\ Lesser(Kw("adapter_credential_handoff_review", Inferred(q), PSAE), 46)
    BY <2>1, AdaptersLesser, DeploymentLesser, ExecutionLesser, ManifestsLesser,
       GivenSets, DefaultsLegal
       DEF Kw
  <2> QED
    BY <2>2, Asks9, Zenon
       DEF MutatingAdapterBindingReview
<1> QED
  BY <1>1, <1>2, <1>3, <1>4, <1>5, <1>6, <1>7, <1>8, <1>9, <1>10, <1>11, <1>12

(***************************************************************************)
(* The packet.                                                             *)
(***************************************************************************)

\* All calls of a row may follow a review of rank n.
Lessers(row, n) == \E S : row \in Seq(S) /\ \A call \in S : Lesser(call, n)

\* Two lists of lesser calls make one.
LEMMA Rows ==
  ASSUME NEW s, NEW t, NEW n, Lessers(s, n), Lessers(t, n)
  PROVE  Lessers(s \o t, n)
<1>1. PICK S : s \in Seq(S) /\ \A call \in S : Lesser(call, n)
  BY DEF Lessers
<1>2. PICK T : t \in Seq(T) /\ \A call \in T : Lesser(call, n)
  BY DEF Lessers
<1>3. s \o t \in Seq(S \cup T)
  BY <1>1, <1>2
<1> QED BY <1>1, <1>2, <1>3 DEF Lessers

\* A builder that goes through a list of lesser calls asks for lesser reviews only.
LEMMA RowAsks ==
  ASSUME NEW row, NEW up, Counted(up), NEW m, NEW of, NEW review, NEW n, Lessers(row, n)
  PROVE  AsksLesser(Guarded(up, m, of, row, review), n)
<1>1. PICK S : row \in Seq(S) /\ \A call \in S : Lesser(call, n)
  BY DEF Lessers
<1>2. Len(row) \in Nat /\ \A k \in 1..Len(row) : row[k] \in S
  BY <1>1
<1> QED BY <1>1, <1>2, GuardedAsks DEF AsksLesser, Counted

\* A list of 13 lesser calls.
LEMMA Row13 ==
  ASSUME NEW n, NEW a1, NEW a2, NEW a3, NEW a4, NEW a5, NEW a6, NEW a7, NEW a8, NEW a9,
         NEW a10, NEW a11, NEW a12, NEW a13,
         Lesser(a1, n), Lesser(a2, n), Lesser(a3, n), Lesser(a4, n), Lesser(a5, n),
         Lesser(a6, n), Lesser(a7, n), Lesser(a8, n), Lesser(a9, n), Lesser(a10, n),
         Lesser(a11, n), Lesser(a12, n), Lesser(a13, n)
  PROVE  Lessers(<<a1, a2, a3, a4, a5, a6, a7, a8, a9, a10, a11, a12, a13>>, n)
<1> DEFINE S == {a1, a2, a3, a4, a5, a6, a7, a8, a9, a10, a11, a12, a13}
<1>1. <<a1, a2, a3, a4, a5, a6, a7, a8, a9, a10, a11, a12, a13>> \in Seq(S)
  OBVIOUS
<1>2. \A call \in S : Lesser(call, n)
  OBVIOUS
<1> HIDE DEF S
<1> QED BY <1>1, <1>2 DEF Lessers

\* A list of 17 lesser calls.
LEMMA Row17 ==
  ASSUME NEW n, NEW a1, NEW a2, NEW a3, NEW a4, NEW a5, NEW a6, NEW a7, NEW a8, NEW a9,
         NEW a10, NEW a11, NEW a12, NEW a13, NEW a14, NEW a15, NEW a16, NEW a17,
         Lesser(a1, n), Lesser(a2, n), Lesser(a3, n), Lesser(a4, n), Lesser(a5, n),
         Lesser(a6, n), Lesser(a7, n), Lesser(a8, n), Lesser(a9, n), Lesser(a10, n),
         Lesser(a11, n), Lesser(a12, n), Lesser(a13, n), Lesser(a14, n), Lesser(a15, n),
         Lesser(a16, n), Lesser(a17, n)
  PROVE  Lessers(<<a1, a2, a3, a4, a5, a6, a7, a8, a9, a10, a11, a12, a13, a14, a15,
           a16, a17>>, n)
<1> DEFINE S == {a1, a2, a3, a4, a5, a6, a7, a8, a9, a10, a11, a12, a13, a14, a15, a16,
                a17}
<1>1. <<a1, a2, a3, a4, a5, a6, a7, a8, a9, a10, a11, a12, a13, a14, a15, a16, a17>> \in Seq(S)
  OBVIOUS
<1>2. \A call \in S : Lesser(call, n)
  OBVIOUS
<1> HIDE DEF S
<1> QED BY <1>1, <1>2 DEF Lessers

\* A list of 28 lesser calls.
LEMMA Row28 ==
  ASSUME NEW n, NEW a1, NEW a2, NEW a3, NEW a4, NEW a5, NEW a6, NEW a7, NEW a8, NEW a9,
         NEW a10, NEW a11, NEW a12, NEW a13, NEW a14, NEW a15, NEW a16, NEW a17,
         NEW a18, NEW a19, NEW a20, NEW a21, NEW a22, NEW a23, NEW a24, NEW a25,
         NEW a26, NEW a27, NEW a28,
         Lesser(a1, n), Lesser(a2, n), Lesser(a3, n), Lesser(a4, n), Lesser(a5, n),
         Lesser(a6, n), Lesser(a7, n), Lesser(a8, n), Lesser(a9, n), Lesser(a10, n),
         Lesser(a11, n), Lesser(a12, n), Lesser(a13, n), Lesser(a14, n), Lesser(a15, n),
         Lesser(a16, n), Lesser(a17, n), Lesser(a18, n), Lesser(a19, n), Lesser(a20, n),
         Lesser(a21, n), Lesser(a22, n), Lesser(a23, n), Lesser(a24, n), Lesser(a25, n),
         Lesser(a26, n), Lesser(a27, n), Lesser(a28, n)
  PROVE  Lessers(<<a1, a2, a3, a4, a5, a6, a7, a8, a9, a10, a11, a12, a13, a14, a15,
           a16, a17, a18, a19, a20, a21, a22, a23, a24, a25, a26, a27, a28>>, n)
<1> DEFINE S == {a1, a2, a3, a4, a5, a6, a7, a8, a9, a10, a11, a12, a13, a14, a15, a16,
                a17, a18, a19, a20, a21, a22, a23, a24, a25, a26, a27, a28}
<1>1. <<a1, a2, a3, a4, a5, a6, a7, a8, a9, a10, a11, a12, a13, a14, a15, a16, a17, a18,
       a19, a20, a21, a22, a23, a24, a25, a26, a27, a28>> \in Seq(S)
  OBVIOUS
<1>2. \A call \in S : Lesser(call, n)
  OBVIOUS
<1> HIDE DEF S
<1> QED BY <1>1, <1>2 DEF Lessers

\* A list of 35 lesser calls.
LEMMA Row35 ==
  ASSUME NEW n, NEW a1, NEW a2, NEW a3, NEW a4, NEW a5, NEW a6, NEW a7, NEW a8, NEW a9,
         NEW a10, NEW a11, NEW a12, NEW a13, NEW a14, NEW a15, NEW a16, NEW a17,
         NEW a18, NEW a19, NEW a20, NEW a21, NEW a22, NEW a23, NEW a24, NEW a25,
         NEW a26, NEW a27, NEW a28, NEW a29, NEW a30, NEW a31, NEW a32, NEW a33,
         NEW a34, NEW a35,
         Lesser(a1, n), Lesser(a2, n), Lesser(a3, n), Lesser(a4, n), Lesser(a5, n),
         Lesser(a6, n), Lesser(a7, n), Lesser(a8, n), Lesser(a9, n), Lesser(a10, n),
         Lesser(a11, n), Lesser(a12, n), Lesser(a13, n), Lesser(a14, n), Lesser(a15, n),
         Lesser(a16, n), Lesser(a17, n), Lesser(a18, n), Lesser(a19, n), Lesser(a20, n),
         Lesser(a21, n), Lesser(a22, n), Lesser(a23, n), Lesser(a24, n), Lesser(a25, n),
         Lesser(a26, n), Lesser(a27, n), Lesser(a28, n), Lesser(a29, n), Lesser(a30, n),
         Lesser(a31, n), Lesser(a32, n), Lesser(a33, n), Lesser(a34, n), Lesser(a35, n)
  PROVE  Lessers(<<a1, a2, a3, a4, a5, a6, a7, a8, a9, a10, a11, a12, a13, a14, a15,
           a16, a17, a18, a19, a20, a21, a22, a23, a24, a25, a26, a27, a28, a29, a30,
           a31, a32, a33, a34, a35>>, n)
<1> DEFINE S == {a1, a2, a3, a4, a5, a6, a7, a8, a9, a10, a11, a12, a13, a14, a15, a16,
                a17, a18, a19, a20, a21, a22, a23, a24, a25, a26, a27, a28, a29, a30,
                a31, a32, a33, a34, a35}
<1>1. <<a1, a2, a3, a4, a5, a6, a7, a8, a9, a10, a11, a12, a13, a14, a15, a16, a17, a18,
       a19, a20, a21, a22, a23, a24, a25, a26, a27, a28, a29, a30, a31, a32, a33, a34,
       a35>> \in Seq(S)
  OBVIOUS
<1>2. \A call \in S : Lesser(call, n)
  OBVIOUS
<1> HIDE DEF S
<1> QED BY <1>1, <1>2 DEF Lessers

\* The planning part of the packet.
LEMMA PlanningLesser ==
  ASSUME NEW q, Legal(q)
  PROVE  Lessers(PlanningReviews(q), 69)
<1>1. Legal([q EXCEPT !.phase = "imaging_only"])
  BY ArgumentsChanged
<1>2. Lesser(Pos("execution_readiness", [q EXCEPT !.phase = "imaging_only"], Phase), 69)
  BY <1>1, ManifestsLesser, GivenSets DEF Pos
<1> QED BY <1>2, Row35, ManifestsLesser, DeploymentLesser, ExecutionLesser, GivenSets, DefaultsLegal
           DEF PlanningReviews, Bare, Kw

\* The execution part of the packet.
LEMMA PacketExecutionLesser ==
  ASSUME NEW q, Legal(q)
  PROVE  Lessers(ExecutionReviews(q), 69)
BY Row28, ManifestsLesser, DeploymentLesser, ExecutionLesser, UatLesser, AdaptersLesser,
   LeavingLesser, GivenSets, ArgumentsChanged, DefaultsLegal
   DEF ExecutionReviews, Bare, Pos, Kw, Mixed

\* The acceptance part of the packet.
LEMMA AcceptanceLesser ==
  ASSUME NEW q, Legal(q)
  PROVE  Lessers(AcceptanceReviews(q), 69)
BY Row13, ManifestsLesser, DeploymentLesser, ExecutionLesser, UatLesser, AdaptersLesser,
   LeavingLesser, GivenSets, ArgumentsChanged, DefaultsLegal
   DEF AcceptanceReviews, Bare, Pos, Kw, Mixed

\* The adapter part of the packet.
LEMMA PacketAdapterLesser ==
  ASSUME NEW q, Legal(q)
  PROVE  Lessers(AdapterReviews(q), 69)
BY Row17, ManifestsLesser, DeploymentLesser, ExecutionLesser, UatLesser, AdaptersLesser,
   LeavingLesser, GivenSets, ArgumentsChanged, DefaultsLegal
   DEF AdapterReviews, Bare, Pos, Kw, Mixed

\* The packet asks for lesser reviews only.
LEMMA PacketDescends ==
  ASSUME NEW q, NEW w, NEW up, Legal(q), Counted(up)
  PROVE  AsksLesser(ReviewPacketManifest(q, w, up), 69)
<1>1. Lessers(PlanningReviews(q) \o ExecutionReviews(q) \o AcceptanceReviews(q) \o AdapterReviews(q),
              69)
  BY PlanningLesser, PacketExecutionLesser, AcceptanceLesser, PacketAdapterLesser, Rows
<1> QED BY <1>1, RowAsks DEF ReviewPacketManifest, Review

(***************************************************************************)
(* From the builders to their names.                                       *)
(***************************************************************************)

\* The names of the builders of NativeManifests.
LEMMA ManifestsBuilt ==
  ASSUME NEW q, NEW w, NEW up
  PROVE  /\ Build("plan", q, w, up) = Plan(q, w, up)
         /\ Build("image_source_manifest", q, w, up) = ImageSourceManifest(q, w, up)
         /\ Build("network_manifest", q, w, up) = NetworkManifest(q, w, up)
         /\ Build("secret_reference_manifest", q, w, up) = SecretReferenceManifest(q, w, up)
         /\ Build("secret_resolution_plan", q, w, up) = SecretResolutionPlan(q, w, up)
         /\ Build("secret_store_binding_review", q, w, up) = SecretStoreBindingReview(q, w, up)
         /\ Build("secret_store_provider_contract_review", q, w, up) =
              SecretStoreProviderContractReview(q, w, up)
         /\ Build("secret_lease_execution_review", q, w, up) = SecretLeaseExecutionReview(q, w, up)
         /\ Build("secret_audit_persistence_review", q, w, up) =
              SecretAuditPersistenceReview(q, w, up)
         /\ Build("execution_readiness", q, w, up) = ExecutionReadiness(q, w, up)
         /\ Build("execution_graph", q, w, up) = ExecutionGraph(q, w, up)
         /\ Build("adapter_contracts", q, w, up) = AdapterContracts(q, w, up)
         /\ Build("provider_adapter_manifest", q, w, up) = ProviderAdapterManifest(q, w, up)
         /\ Build("cluster_evidence_packs", q, w, up) = ClusterEvidencePacks(q, w, up)
         /\ Build("provider_topology_matrix", q, w, up) = ProviderTopologyMatrix(q, w, up)
         /\ Build("provider_operation_catalog", q, w, up) = ProviderOperationCatalog(q, w, up)
         /\ Build("provider_operation_admission_review", q, w, up) =
              ProviderOperationAdmissionReview(q, w, up)
         /\ Build("provider_operation_queue_plan", q, w, up) = ProviderOperationQueuePlan(q, w, up)
         /\ Build("provider_operation_queue_admission_review", q, w, up) =
              ProviderOperationQueueAdmissionReview(q, w, up)
         /\ Build("uat_evidence_acceptance_review", q, w, up) =
              UatEvidenceAcceptanceReview(q, w, up)
         /\ Build("adapter_readiness", q, w, up) = AdapterReadiness(q, w, up)
         /\ Build("provider_preflight_manifest", q, w, up) = ProviderPreflightManifest(q, w, up)
         /\ Build("discovery_contract_manifest", q, w, up) = DiscoveryContractManifest(q, w, up)
         /\ Build("discovery_reconciliation_manifest", q, w, up) =
              DiscoveryReconciliationManifest(q, w, up)
         /\ Build("imaging_plan_manifest", q, w, up) = ImagingPlanManifest(q, w, up)
         /\ Build("cluster_formation_plan_manifest", q, w, up) =
              ClusterFormationPlanManifest(q, w, up)
         /\ Build("post_create_validation_manifest", q, w, up) =
              PostCreateValidationManifest(q, w, up)
BY DEF Build

\* The names of the builders of NativeDeployment.
LEMMA DeploymentBuilt ==
  ASSUME NEW q, NEW w, NEW up
  PROVE  /\ Build("deployment_policy", q, w, up) = DeploymentPolicy(q, w, up)
         /\ Build("deployment_wave_gate_review", q, w, up) = DeploymentWaveGateReview(q, w, up)
         /\ Build("deployment_wave_rehearsal_plan", q, w, up) =
              DeploymentWaveRehearsalPlan(q, w, up)
         /\ Build("evidence_pack_approval_review", q, w, up) = EvidencePackApprovalReview(q, w, up)
         /\ Build("deployment_wave_authorization_review", q, w, up) =
              DeploymentWaveAuthorizationReview(q, w, up)
         /\ Build("deployment_window_reservation_review", q, w, up) =
              DeploymentWindowReservationReview(q, w, up)
         /\ Build("deployment_scheduler_review", q, w, up) = DeploymentSchedulerReview(q, w, up)
         /\ Build("deployment_type_support_review", q, w, up) =
              DeploymentTypeSupportReview(q, w, up)
         /\ Build("resume_checkpoint", q, w, up) = ResumeCheckpoint(q, w, up)
         /\ Build("adapter_promotion_review", q, w, up) = AdapterPromotionReview(q, w, up)
         /\ Build("uat_checklist", q, w, up) = UatChecklist(q, w, up)
         /\ Build("adapter_uat_rehearsal_plan", q, w, up) = AdapterUatRehearsalPlan(q, w, up)
         /\ Build("adapter_activation_review", q, w, up) = AdapterActivationReview(q, w, up)
         /\ Build("adapter_enablement_review", q, w, up) = AdapterEnablementReview(q, w, up)
         /\ Build("adapter_allowlist_review", q, w, up) = AdapterAllowlistReview(q, w, up)
BY DEF Build

\* The names of the builders of NativeExecution.
LEMMA ExecutionBuilt ==
  ASSUME NEW q, NEW w, NEW up
  PROVE  /\ Build("approval_binding_review", q, w, up) = ApprovalBindingReview(q, w, up)
         /\ Build("execution_admission_review", q, w, up) = ExecutionAdmissionReview(q, w, up)
         /\ Build("execution_adapter_contract", q, w, up) = ExecutionAdapterContract(q, w, up)
         /\ Build("execution_request_review", q, w, up) = ExecutionRequestReview(q, w, up)
         /\ Build("execution_request_persistence_admission_review", q, w, up) =
              ExecutionRequestPersistenceAdmissionReview(q, w, up)
         /\ Build("dry_run_execution_ledger", q, w, up) = DryRunExecutionLedger(q, w, up)
         /\ Build("execution_permit_review", q, w, up) = ExecutionPermitReview(q, w, up)
         /\ Build("execution_lock_plan", q, w, up) = ExecutionLockPlan(q, w, up)
         /\ Build("execution_audit_plan", q, w, up) = ExecutionAuditPlan(q, w, up)
         /\ Build("execution_retention_plan", q, w, up) = ExecutionRetentionPlan(q, w, up)
         /\ Build("execution_runner_readiness", q, w, up) = ExecutionRunnerReadiness(q, w, up)
         /\ Build("recovery_plan", q, w, up) = RecoveryPlan(q, w, up)
         /\ Build("job_state_plan", q, w, up) = JobStatePlan(q, w, up)
         /\ Build("restart_resume_review", q, w, up) = RestartResumeReview(q, w, up)
         /\ Build("backup_restore_review", q, w, up) = BackupRestoreReview(q, w, up)
         /\ Build("mutating_enablement_review", q, w, up) = MutatingEnablementReview(q, w, up)
         /\ Build("execution_submission_review", q, w, up) = ExecutionSubmissionReview(q, w, up)
         /\ Build("execution_submission_persistence_admission_review", q, w, up) =
              ExecutionSubmissionPersistenceAdmissionReview(q, w, up)
         /\ Build("queue_persistence_review", q, w, up) = QueuePersistenceReview(q, w, up)
         /\ Build("queue_persistence_admission_review", q, w, up) =
              QueuePersistenceAdmissionReview(q, w, up)
         /\ Build("execution_authorization_persistence_admission_review", q, w, up) =
              ExecutionAuthorizationPersistenceAdmissionReview(q, w, up)
         /\ Build("job_persistence_admission_review", q, w, up) =
              JobPersistenceAdmissionReview(q, w, up)
BY DEF Build

\* The names of the builders of NativeUat.
LEMMA UatBuilt ==
  ASSUME NEW q, NEW w, NEW up
  PROVE  /\ Build("controlled_uat_entry_review", q, w, up) = ControlledUatEntryReview(q, w, up)
         /\ Build("controlled_uat_scope_review", q, w, up) = ControlledUatScopeReview(q, w, up)
         /\ Build("controlled_uat_runbook_review", q, w, up) = ControlledUatRunbookReview(q, w, up)
         /\ Build("controlled_uat_security_review", q, w, up) =
              ControlledUatSecurityReview(q, w, up)
         /\ Build("controlled_uat_operations_review", q, w, up) =
              ControlledUatOperationsReview(q, w, up)
         /\ Build("controlled_uat_signoff_review", q, w, up) = ControlledUatSignoffReview(q, w, up)
         /\ Build("controlled_uat_lane_selection_review", q, w, up) =
              ControlledUatLaneSelectionReview(q, w, up)
         /\ Build("controlled_uat_lane_persistence_admission_review", q, w, up) =
              ControlledUatLanePersistenceAdmissionReview(q, w, up)
         /\ Build("controlled_uat_hardware_reservation_review", q, w, up) =
              ControlledUatHardwareReservationReview(q, w, up)
         /\ Build("controlled_uat_reservation_persistence_admission_review", q, w, up) =
              ControlledUatReservationPersistenceAdmissionReview(q, w, up)
         /\ Build("controlled_uat_entry_issuance_review", q, w, up) =
              ControlledUatEntryIssuanceReview(q, w, up)
         /\ Build("controlled_uat_entry_persistence_admission_review", q, w, up) =
              ControlledUatEntryPersistenceAdmissionReview(q, w, up)
         /\ Build("controlled_uat_start_readiness_review", q, w, up) =
              ControlledUatStartReadinessReview(q, w, up)
         /\ Build("controlled_uat_start_persistence_admission_review", q, w, up) =
              ControlledUatStartPersistenceAdmissionReview(q, w, up)
         /\ Build("controlled_uat_runner_admission_review", q, w, up) =
              ControlledUatRunnerAdmissionReview(q, w, up)
         /\ Build("controlled_uat_runner_persistence_admission_review", q, w, up) =
              ControlledUatRunnerPersistenceAdmissionReview(q, w, up)
         /\ Build("controlled_uat_execution_authorization_review", q, w, up) =
              ControlledUatExecutionAuthorizationReview(q, w, up)
         /\ Build("controlled_uat_completion_review", q, w, up) =
              ControlledUatCompletionReview(q, w, up)
BY DEF Build

\* The names of the builders of NativeAdapters.
LEMMA AdaptersBuilt ==
  ASSUME NEW q, NEW w, NEW up
  PROVE  /\ Build("adapter_load_plan_review", q, w, up) = AdapterLoadPlanReview(q, w, up)
         /\ Build("adapter_package_provenance_review", q, w, up) =
              AdapterPackageProvenanceReview(q, w, up)
         /\ Build("adapter_sbom_review", q, w, up) = AdapterSbomReview(q, w, up)
         /\ Build("adapter_runtime_isolation_review", q, w, up) =
              AdapterRuntimeIsolationReview(q, w, up)
         /\ Build("adapter_runtime_admission_review", q, w, up) =
              AdapterRuntimeAdmissionReview(q, w, up)
         /\ Build("adapter_execution_preflight_review", q, w, up) =
              AdapterExecutionPreflightReview(q, w, up)
         /\ Build("adapter_target_connectivity_review", q, w, up) =
              AdapterTargetConnectivityReview(q, w, up)
         /\ Build("adapter_credential_handoff_review", q, w, up) =
              AdapterCredentialHandoffReview(q, w, up)
         /\ Build("adapter_command_invocation_review", q, w, up) =
              AdapterCommandInvocationReview(q, w, up)
         /\ Build("adapter_output_evidence_review", q, w, up) =
              AdapterOutputEvidenceReview(q, w, up)
         /\ Build("retained_evidence_export_review", q, w, up) =
              RetainedEvidenceExportReview(q, w, up)
         /\ Build("mutating_adapter_binding_review", q, w, up) =
              MutatingAdapterBindingReview(q, w, up)
BY DEF Build

\* The name of the packet stands for its builder.
LEMMA PacketBuilt ==
  ASSUME NEW q, NEW w, NEW up
  PROVE  Build("review_packet_manifest", q, w, up) = ReviewPacketManifest(q, w, up)
BY DEF Build

\* Every builder has a depth.
LEMMA DepthsNatural ==
  \A name \in Builders : Depth[name] \in Nat
BY DEF Builders, Depth

Manifests ==
  {"plan", "image_source_manifest", "network_manifest", "secret_reference_manifest",
   "secret_resolution_plan", "secret_store_binding_review",
   "secret_store_provider_contract_review", "secret_lease_execution_review",
   "secret_audit_persistence_review", "execution_readiness", "execution_graph",
   "adapter_contracts", "provider_adapter_manifest", "cluster_evidence_packs",
   "provider_topology_matrix", "provider_operation_catalog",
   "provider_operation_admission_review", "provider_operation_queue_plan",
   "provider_operation_queue_admission_review", "uat_evidence_acceptance_review",
   "adapter_readiness", "provider_preflight_manifest", "discovery_contract_manifest",
   "discovery_reconciliation_manifest", "imaging_plan_manifest",
   "cluster_formation_plan_manifest", "post_create_validation_manifest"}

Deployment ==
  {"deployment_policy", "deployment_wave_gate_review", "deployment_wave_rehearsal_plan",
   "evidence_pack_approval_review", "deployment_wave_authorization_review",
   "deployment_window_reservation_review", "deployment_scheduler_review",
   "deployment_type_support_review", "resume_checkpoint", "adapter_promotion_review",
   "uat_checklist", "adapter_uat_rehearsal_plan", "adapter_activation_review",
   "adapter_enablement_review", "adapter_allowlist_review"}

Execution ==
  {"approval_binding_review", "execution_admission_review",
   "execution_adapter_contract", "execution_request_review",
   "execution_request_persistence_admission_review", "dry_run_execution_ledger",
   "execution_permit_review", "execution_lock_plan", "execution_audit_plan",
   "execution_retention_plan", "execution_runner_readiness", "recovery_plan",
   "job_state_plan", "mutating_enablement_review", "execution_submission_review",
   "execution_submission_persistence_admission_review", "queue_persistence_review",
   "queue_persistence_admission_review",
   "execution_authorization_persistence_admission_review",
   "job_persistence_admission_review"}

Uat ==
  {"controlled_uat_scope_review", "controlled_uat_runbook_review",
   "controlled_uat_security_review", "controlled_uat_operations_review",
   "controlled_uat_signoff_review", "controlled_uat_lane_selection_review",
   "controlled_uat_lane_persistence_admission_review",
   "controlled_uat_hardware_reservation_review",
   "controlled_uat_reservation_persistence_admission_review",
   "controlled_uat_completion_review"}

Adapters ==
  {"adapter_load_plan_review", "adapter_package_provenance_review",
   "adapter_sbom_review", "adapter_runtime_isolation_review",
   "adapter_runtime_admission_review", "adapter_execution_preflight_review",
   "adapter_target_connectivity_review", "adapter_credential_handoff_review",
   "adapter_command_invocation_review", "adapter_output_evidence_review",
   "retained_evidence_export_review", "mutating_adapter_binding_review"}

\* The same for the builders of NativeManifests, by their names.
LEMMA ManifestsOutcomes ==
  ASSUME NEW name \in Manifests, NEW q, NEW w, NEW up, Legal(q), Counted(up)
  PROVE  AsksLesser(Build(name, q, w, up), Depth[name])
<1>1. /\ Depth["plan"] = 0 /\ Depth["image_source_manifest"] = 1
      /\ Depth["network_manifest"] = 1 /\ Depth["secret_reference_manifest"] = 1
      /\ Depth["secret_resolution_plan"] = 5
      /\ Depth["secret_store_binding_review"] = 6
      /\ Depth["secret_store_provider_contract_review"] = 7
      /\ Depth["secret_lease_execution_review"] = 8
      /\ Depth["secret_audit_persistence_review"] = 9
      /\ Depth["execution_readiness"] = 1 /\ Depth["execution_graph"] = 1
      /\ Depth["adapter_contracts"] = 0 /\ Depth["provider_adapter_manifest"] = 0
      /\ Depth["cluster_evidence_packs"] = 2 /\ Depth["provider_topology_matrix"] = 1
      /\ Depth["provider_operation_catalog"] = 2
      /\ Depth["provider_operation_admission_review"] = 3
      /\ Depth["provider_operation_queue_plan"] = 4
      /\ Depth["provider_operation_queue_admission_review"] = 5
      /\ Depth["uat_evidence_acceptance_review"] = 3
      /\ Depth["adapter_readiness"] = 3 /\ Depth["provider_preflight_manifest"] = 2
      /\ Depth["discovery_contract_manifest"] = 3
      /\ Depth["discovery_reconciliation_manifest"] = 4
      /\ Depth["imaging_plan_manifest"] = 5
      /\ Depth["cluster_formation_plan_manifest"] = 6
      /\ Depth["post_create_validation_manifest"] = 7
  BY DEF Depth
<1> QED BY <1>1, ManifestsBuilt, ManifestsDescend DEF Manifests

\* The same for the builders of NativeDeployment, by their names.
LEMMA DeploymentOutcomes ==
  ASSUME NEW name \in Deployment, NEW q, NEW w, NEW up, Legal(q), Counted(up)
  PROVE  AsksLesser(Build(name, q, w, up), Depth[name])
<1>1. /\ Depth["deployment_policy"] = 2 /\ Depth["deployment_wave_gate_review"] = 3
      /\ Depth["deployment_wave_rehearsal_plan"] = 22
      /\ Depth["evidence_pack_approval_review"] = 3
      /\ Depth["deployment_wave_authorization_review"] = 23
      /\ Depth["deployment_window_reservation_review"] = 24
      /\ Depth["deployment_scheduler_review"] = 25
      /\ Depth["deployment_type_support_review"] = 8
      /\ Depth["resume_checkpoint"] = 3 /\ Depth["adapter_promotion_review"] = 4
      /\ Depth["uat_checklist"] = 5 /\ Depth["adapter_uat_rehearsal_plan"] = 12
      /\ Depth["adapter_activation_review"] = 13
      /\ Depth["adapter_enablement_review"] = 14
      /\ Depth["adapter_allowlist_review"] = 27
  BY DEF Depth
<1> QED BY <1>1, DeploymentBuilt, DeploymentDescend DEF Deployment

\* The same for the builders of NativeExecution, by their names.
LEMMA ExecutionOutcomes ==
  ASSUME NEW name \in Execution, NEW q, NEW w, NEW up, Legal(q), Counted(up)
  PROVE  AsksLesser(Build(name, q, w, up), Depth[name])
<1>1. /\ Depth["approval_binding_review"] = 1
      /\ Depth["execution_admission_review"] = 4
      /\ Depth["execution_adapter_contract"] = 6
      /\ Depth["execution_request_review"] = 7
      /\ Depth["execution_request_persistence_admission_review"] = 8
      /\ Depth["dry_run_execution_ledger"] = 12
      /\ Depth["execution_permit_review"] = 15 /\ Depth["execution_lock_plan"] = 16
      /\ Depth["execution_audit_plan"] = 17 /\ Depth["execution_retention_plan"] = 18
      /\ Depth["execution_runner_readiness"] = 21 /\ Depth["recovery_plan"] = 10
      /\ Depth["job_state_plan"] = 11 /\ Depth["mutating_enablement_review"] = 40
      /\ Depth["execution_submission_review"] = 41
      /\ Depth["execution_submission_persistence_admission_review"] = 42
      /\ Depth["queue_persistence_review"] = 43
      /\ Depth["queue_persistence_admission_review"] = 44
      /\ Depth["execution_authorization_persistence_admission_review"] = 40
      /\ Depth["job_persistence_admission_review"] = 45
  BY DEF Depth
<1> QED BY <1>1, ExecutionBuilt, ExecutionDescend DEF Execution

\* The same for the builders of NativeUat, by their names.
LEMMA UatOutcomes ==
  ASSUME NEW name \in Uat, NEW q, NEW w, NEW up, Legal(q), Counted(up)
  PROVE  AsksLesser(Build(name, q, w, up), Depth[name])
<1>1. /\ Depth["controlled_uat_scope_review"] = 23
      /\ Depth["controlled_uat_runbook_review"] = 24
      /\ Depth["controlled_uat_security_review"] = 25
      /\ Depth["controlled_uat_operations_review"] = 26
      /\ Depth["controlled_uat_signoff_review"] = 28
      /\ Depth["controlled_uat_lane_selection_review"] = 47
      /\ Depth["controlled_uat_lane_persistence_admission_review"] = 48
      /\ Depth["controlled_uat_hardware_reservation_review"] = 49
      /\ Depth["controlled_uat_reservation_persistence_admission_review"] = 50
      /\ Depth["controlled_uat_completion_review"] = 68
  BY DEF Depth
<1> QED BY <1>1, UatBuilt, UatDescend DEF Uat

\* The same for the builders of NativeAdapters, by their names.
LEMMA AdaptersOutcomes ==
  ASSUME NEW name \in Adapters, NEW q, NEW w, NEW up, Legal(q), Counted(up)
  PROVE  AsksLesser(Build(name, q, w, up), Depth[name])
<1>1. /\ Depth["adapter_load_plan_review"] = 29
      /\ Depth["adapter_package_provenance_review"] = 30
      /\ Depth["adapter_sbom_review"] = 31
      /\ Depth["adapter_runtime_isolation_review"] = 32
      /\ Depth["adapter_runtime_admission_review"] = 33
      /\ Depth["adapter_execution_preflight_review"] = 34
      /\ Depth["adapter_target_connectivity_review"] = 35
      /\ Depth["adapter_credential_handoff_review"] = 36
      /\ Depth["adapter_command_invocation_review"] = 37
      /\ Depth["adapter_output_evidence_review"] = 38
      /\ Depth["retained_evidence_export_review"] = 39
      /\ Depth["mutating_adapter_binding_review"] = 46
  BY DEF Depth
<1> QED BY <1>1, AdaptersBuilt, AdaptersDescend DEF Adapters

\* The builders with a switch ask for reviews of a lesser rank only.
LEMMA LeavingOutcomes ==
  ASSUME NEW q, NEW w, NEW up, Legal(q), Counted(up)
  PROVE  /\ \A name \in Scheduling : AsksLesser(Build(name, q, w, up), Depth[name] + SchedulerDepth(q))
         /\ \A name \in Reserving : AsksLesser(Build(name, q, w, up), Depth[name] + ReservationDepth(q))
<1>1. /\ Depth["restart_resume_review"] = 19 /\ Depth["backup_restore_review"] = 20
      /\ Depth["controlled_uat_entry_review"] = 22
      /\ Depth["controlled_uat_entry_issuance_review"] = 29
      /\ Depth["controlled_uat_entry_persistence_admission_review"] = 30
      /\ Depth["controlled_uat_start_readiness_review"] = 31
      /\ Depth["controlled_uat_start_persistence_admission_review"] = 32
      /\ Depth["controlled_uat_runner_admission_review"] = 34
      /\ Depth["controlled_uat_runner_persistence_admission_review"] = 35
      /\ Depth["controlled_uat_execution_authorization_review"] = 39
  BY DEF Depth
<1> QED BY <1>1, ExecutionBuilt, UatBuilt, ExecutionDescend, UatDescend DEF Scheduling, Reserving

\* A review asks only for reviews of lesser rank.
LEMMA Descends ==
  ASSUME NEW call, WellFormed(call), NEW w, NEW up, Counted(up)
  PROVE  AsksLesser(Build(call.name, ArgumentsOf(call), w, up), Rank(call))
<1>1. PICK q : q = ArgumentsOf(call)
  OBVIOUS
<1>2. Legal(q)
  BY <1>1, ArgumentsLegal
<1>3. PICK name \in Builders : name = call.name
  BY DEF WellFormed
<1>4. Rank(call) = Depth[name] + (IF name \in Scheduling THEN SchedulerDepth(q) ELSE 0)
                               + (IF name \in Reserving THEN ReservationDepth(q) ELSE 0)
  BY <1>1, <1>3 DEF Rank
<1>5. Depth[name] \in Nat /\ SchedulerDepth(q) \in Nat /\ ReservationDepth(q) \in Nat
  BY <1>2, DepthsOf, DepthsNatural
<1>6. Scheduling \cap Reserving = {}
  BY DEF Scheduling, Reserving
<1>7. CASE name \in Manifests \cup Deployment \cup Execution \cup Uat \cup Adapters
  <2>1. name \notin Scheduling \cup Reserving
    BY <1>7 DEF Manifests, Deployment, Execution, Uat, Adapters, Scheduling, Reserving
  <2>2. Rank(call) = Depth[name]
    BY <1>4, <1>5, <2>1
  <2> QED BY <1>1, <1>2, <1>3, <1>7, <2>2, ManifestsOutcomes, DeploymentOutcomes, ExecutionOutcomes,
             UatOutcomes, AdaptersOutcomes
<1>8. CASE name \in Scheduling
  <2>1. Rank(call) = Depth[name] + SchedulerDepth(q)
    BY <1>4, <1>5, <1>6, <1>8
  <2> QED BY <1>1, <1>2, <1>3, <1>8, <2>1, LeavingOutcomes
<1>9. CASE name \in Reserving
  <2>1. Rank(call) = Depth[name] + ReservationDepth(q)
    BY <1>4, <1>5, <1>6, <1>9
  <2> QED BY <1>1, <1>2, <1>3, <1>9, <2>1, LeavingOutcomes
<1>10. CASE name = "review_packet_manifest"
  <2>1. name \notin Scheduling \cup Reserving /\ Depth[name] = 69
    BY <1>10 DEF Scheduling, Reserving, Depth
  <2>2. Rank(call) = 69
    BY <1>4, <2>1
  <2> QED BY <1>1, <1>2, <1>3, <1>10, <2>2, PacketBuilt, PacketDescends
<1>11. name \in Manifests \cup Deployment \cup Execution \cup Uat \cup Adapters \cup Scheduling
               \cup Reserving \cup {"review_packet_manifest"}
  BY <1>3 DEF Builders, Depth, Manifests, Deployment, Execution, Uat, Adapters, Scheduling, Reserving
<1> QED BY <1>7, <1>8, <1>9, <1>10, <1>11

(***************************************************************************)
(* The stack of builders.                                                  *)
(***************************************************************************)


\* The reviews a builder has obtained.
Obtained(up) == \E S : up \in Seq(S)

\* A pile of builders at work.
Piled(frames) ==
  /\ \E S : frames \in Seq(S)
  /\ \A i \in 1..Len(frames) :
       /\ frames[i] = [call |-> frames[i].call, up |-> frames[i].up]
       /\ WellFormed(frames[i].call)
       /\ Obtained(frames[i].up)

\* Every builder above has a lesser rank than every builder below.
Falling(frames) ==
  \A i, j \in 1..Len(frames) : i < j => Rank(frames[j].call) < Rank(frames[i].call)

\* Every call has a rank.
LEMMA RankNatural ==
  ASSUME NEW call, WellFormed(call)
  PROVE  Rank(call) \in Nat
<1>1. Depth[call.name] \in Nat
  BY DepthsNatural DEF WellFormed
<1>2. Legal(ArgumentsOf(call))
  BY ArgumentsLegal
<1>3. SchedulerDepth(ArgumentsOf(call)) \in Nat /\ ReservationDepth(ArgumentsOf(call)) \in Nat
  BY <1>2, DepthsOf
<1> QED BY <1>1, <1>3 DEF Rank

\* The reviews a builder has can be counted.
LEMMA ObtainedCounted ==
  ASSUME NEW up, Obtained(up)
  PROVE  Counted(up)
BY DEF Obtained, Counted

\* A review is added after those a builder has.
LEMMA ObtainedGrows ==
  ASSUME NEW up, Obtained(up), NEW review
  PROVE  /\ Obtained(Append(up, review)) /\ Counted(up)
         /\ Len(Append(up, review)) = Len(up) + 1
         /\ \A k \in 1..Len(up) : Append(up, review)[k] = up[k]
         /\ Append(up, review)[Len(up) + 1] = review
<1>1. PICK S : up \in Seq(S)
  BY DEF Obtained
<1>2. up \in Seq(S \cup {review}) /\ Append(up, review) \in Seq(S \cup {review})
  BY <1>1
<1> QED BY <1>1, <1>2 DEF Obtained, Counted

\* The builder on top gets a review, for a name of what results.
LEMMA GivenIs ==
  ASSUME NEW frames, Piled(frames), frames # <<>>, NEW review, NEW given, given = Give(frames, review),
         NEW n, n = Len(frames)
  PROVE  /\ Piled(given) /\ n \in Nat /\ n > 0 /\ Len(given) = n
         /\ \A i \in 1..n : given[i].call = frames[i].call
         /\ \A i \in 1..n : i # n => given[i].up = frames[i].up
         /\ given[n].up = Append(frames[n].up, review)
<1>1. PICK S : frames \in Seq(S)
  BY DEF Piled
<1>2. n \in Nat /\ n > 0
  BY <1>1
<1>3. frames[n] = [call |-> frames[n].call, up |-> frames[n].up] /\ Obtained(frames[n].up)
  BY <1>2 DEF Piled
<1>4. given = [frames EXCEPT ![n] = [frames[n] EXCEPT !.up = Append(frames[n].up, review)]]
  BY DEF Give
<1>5. PICK top : top = [call |-> frames[n].call, up |-> Append(frames[n].up, review)]
  OBVIOUS
<1>6. given = [frames EXCEPT ![n] = top]
  BY <1>3, <1>4, <1>5
<1>7. given \in Seq(S \cup {top}) /\ Len(given) = n
  BY <1>1, <1>2, <1>6
<1>8. \A i \in 1..n : i # n => given[i] = frames[i]
  BY <1>1, <1>2, <1>6
<1>9. given[n] = top
  BY <1>1, <1>2, <1>6
<1>10. top.call = frames[n].call /\ top.up = Append(frames[n].up, review)
       /\ top = [call |-> top.call, up |-> top.up]
  BY <1>5
<1>11. Obtained(top.up)
  BY <1>3, <1>10, ObtainedGrows
<1>12. Piled(given)
  BY <1>2, <1>7, <1>8, <1>9, <1>10, <1>11 DEF Piled
<1> QED BY <1>2, <1>7, <1>8, <1>9, <1>10, <1>12

\* A stack with one more call is a stack.
LEMMA PiledPush ==
  ASSUME NEW S, NEW frames \in Seq(S), Piled(frames), NEW call, WellFormed(call),
         NEW T, NEW pushed \in Seq(T), Len(pushed) = Len(frames) + 1,
         \A i \in 1..Len(frames) : pushed[i] = frames[i], pushed[Len(frames) + 1] = Frame(call)
  PROVE  Piled(pushed)
<1>1. /\ Frame(call).call = call /\ Frame(call).up = <<>>
      /\ Frame(call) = [call |-> Frame(call).call, up |-> Frame(call).up]
  BY DEF Frame
<1>2. Obtained(<<>>)
  BY DEF Obtained
<1>3. \A i \in 1..Len(pushed) : i \in 1..Len(frames) \/ i = Len(frames) + 1
  OBVIOUS
<1> QED BY <1>1, <1>2, <1>3 DEF Piled

\* The lower part of a stack is a stack.
LEMMA Part ==
  ASSUME NEW S, NEW frames \in Seq(S), Piled(frames), NEW part \in Seq(S), Len(part) <= Len(frames),
         \A i \in 1..Len(part) : part[i] = frames[i]
  PROVE  Piled(part)
<1>1. 1..Len(part) \subseteq 1..Len(frames)
  OBVIOUS
<1>2. \A i \in 1..Len(part) : part[i] = frames[i] /\ i \in 1..Len(frames)
  BY <1>1
<1> QED BY <1>2 DEF Piled

\* The builder on top gets a review; nothing else changes.
LEMMA Given ==
  ASSUME NEW frames, Piled(frames), frames # <<>>, NEW review
  PROVE  /\ Piled(Give(frames, review)) /\ Len(Give(frames, review)) = Len(frames)
         /\ \A i \in 1..Len(frames) : Give(frames, review)[i].call = frames[i].call
         /\ \A i \in 1..Len(frames) : i # Len(frames) => Give(frames, review)[i].up = frames[i].up
         /\ Give(frames, review)[Len(frames)].up = Append(frames[Len(frames)].up, review)
<1>1. PICK given : given = Give(frames, review)
  OBVIOUS
<1>2. PICK n : n = Len(frames)
  OBVIOUS
<1>3. /\ Piled(given) /\ Len(given) = n
      /\ \A i \in 1..n : given[i].call = frames[i].call
      /\ \A i \in 1..n : i # n => given[i].up = frames[i].up
      /\ given[n].up = Append(frames[n].up, review)
  BY <1>1, <1>2, GivenIs
<1> QED BY <1>1, <1>2, <1>3, Zenon

\* A call goes on top.
LEMMA Pushed ==
  ASSUME NEW frames, Piled(frames), NEW call, WellFormed(call)
  PROVE  /\ Piled(Append(frames, Frame(call))) /\ Len(Append(frames, Frame(call))) = Len(frames) + 1
         /\ \A i \in 1..Len(frames) : Append(frames, Frame(call))[i] = frames[i]
         /\ Append(frames, Frame(call))[Len(frames) + 1] = Frame(call)
<1>1. PICK S : frames \in Seq(S)
  BY DEF Piled
<1>2. /\ Len(Append(frames, Frame(call))) = Len(frames) + 1
      /\ Append(frames, Frame(call)) \in Seq(S \cup {Frame(call)})
      /\ \A i \in 1..Len(frames) : Append(frames, Frame(call))[i] = frames[i]
      /\ Append(frames, Frame(call))[Len(frames) + 1] = Frame(call)
  BY <1>1
<1>3. Piled(Append(frames, Frame(call)))
  BY <1>1, <1>2, PiledPush
<1> QED BY <1>2, <1>3

\* The builder on top leaves.
LEMMA Popped ==
  ASSUME NEW frames, Piled(frames), frames # <<>>, Len(frames) # 1
  PROVE  /\ Piled(SubSeq(frames, 1, Len(frames) - 1))
         /\ Len(SubSeq(frames, 1, Len(frames) - 1)) = Len(frames) - 1
         /\ SubSeq(frames, 1, Len(frames) - 1) # <<>>
         /\ \A i \in 1..(Len(frames) - 1) : SubSeq(frames, 1, Len(frames) - 1)[i] = frames[i]
<1>1. PICK S : frames \in Seq(S)
  BY DEF Piled
<1>9. Len(frames) \in Nat /\ Len(frames) # 0
  <2>1. Len(frames) \in Nat
    BY <1>1, LenProperties
  <2>2. ASSUME Len(frames) = 0 PROVE FALSE
    <3>1. frames = <<>>
      BY <1>1, <2>2, EmptySeq
    <3> QED BY <3>1
  <2> QED BY <2>1, <2>2
<1>10. PICK m \in Nat : m = Len(frames)
  BY <1>9
<1>11. m # 0 /\ m # 1
  BY <1>9, <1>10, Zenon
<1>12. m - 1 \in Nat /\ m - 1 > 0 /\ m - 1 = Len(frames) - 1
  BY <1>10, <1>11
<1>2. PICK n \in Nat : n = Len(frames) - 1 /\ n > 0
  BY <1>12, Zenon
<1>3. \A i \in 1..n : frames[i] \in S
  BY <1>1, <1>2
<1>4. 1 \in Int /\ n \in Int /\ 1 <= n /\ n - 1 + 1 = n /\ \A i \in 1..n : 1 + i - 1 = i
  BY <1>2
<1>5. /\ SubSeq(frames, 1, n) \in Seq(S) /\ Len(SubSeq(frames, 1, n)) = n
      /\ \A i \in 1..n : SubSeq(frames, 1, n)[i] = frames[i]
  BY <1>3, <1>4, SubSeqProperties
<1>6. SubSeq(frames, 1, n) # <<>>
  <2> SUFFICES ASSUME SubSeq(frames, 1, n) = <<>> PROVE FALSE
    OBVIOUS
  <2>1. Len(<<>>) = 0
    OBVIOUS
  <2>2. Len(SubSeq(frames, 1, n)) = 0
    BY <2>1, Zenon
  <2>3. n = 0
    BY <1>5, <2>2, Zenon
  <2> QED BY <1>2, <2>3
<1>7. n <= Len(frames) /\ Len(frames) - 1 = n
  BY <1>1, <1>2
<1>8. Piled(SubSeq(frames, 1, n))
  BY <1>1, <1>5, <1>7, Part
<1> QED BY <1>5, <1>6, <1>7, <1>8

(***************************************************************************)
(* The invariant and the theorem.                                          *)
(***************************************************************************)

\* The builders at work, each with the reviews it has, of falling ranks.
StackInv == Piled(stack) /\ Falling(stack)

\* What the builder on top asks for may go on top of it.
LEMMA AskedIsLesser ==
  ASSUME StackInv, ~Idle, Outcome.asks, Outcome.call # Nothing
  PROVE  /\ WellFormed(Outcome.call)
         /\ Len(stack) \in Nat /\ Len(stack) > 0
         /\ \A i \in 1..Len(stack) : Rank(Outcome.call) < Rank(stack[i].call)
<1>1. Len(stack) \in Nat /\ Len(stack) > 0 /\ Len(stack) \in 1..Len(stack)
  BY DEF StackInv, Piled, Idle
<1>2. WellFormed(Current.call) /\ Counted(Current.up)
  BY <1>1, ObtainedCounted DEF StackInv, Piled, Current
<1>3. WellFormed(Outcome.call) /\ Rank(Outcome.call) < Rank(Current.call)
  BY <1>2, Descends DEF Outcome, AsksLesser, Lesser
<1>4. Rank(Outcome.call) \in Nat /\ \A i \in 1..Len(stack) : Rank(stack[i].call) \in Nat
  BY <1>3, RankNatural DEF StackInv, Piled
<1>5. \A i \in 1..Len(stack) : Rank(Outcome.call) < Rank(stack[i].call)
  <2> SUFFICES ASSUME NEW i \in 1..Len(stack) PROVE Rank(Outcome.call) < Rank(stack[i].call)
    OBVIOUS
  <2>1. CASE i = Len(stack)
    BY <1>3, <2>1 DEF Current
  <2>2. CASE i < Len(stack)
    <3>1. Rank(Current.call) < Rank(stack[i].call) /\ Rank(Current.call) \in Nat
      BY <1>1, <1>4, <2>2 DEF StackInv, Falling, Current
    <3> QED BY <1>3, <1>4, <3>1
  <2> QED BY <1>1, <2>1, <2>2
<1> QED BY <1>1, <1>3, <1>5

\* Every step keeps the ranks falling along the stack: a request starts it with one call,
\* Call puts a lesser one on top, Reuse and Answer put nothing on it.
LEMMA StackKeeps ==
  ASSUME StackInv, [Next]_vars
  PROVE  StackInv'
<1>1. ASSUME NEW request \in Requests, Request(request) PROVE StackInv'
  <2>1. WellFormed(request.call)
    BY RequestsAssumption
  <2>2. stack' = <<Frame(request.call)>>
    BY <1>1 DEF Request
  <2>3. PICK frame : frame = Frame(request.call)
    OBVIOUS
  <2>5. /\ frame.call = request.call /\ frame.up = <<>>
        /\ frame = [call |-> frame.call, up |-> frame.up]
    BY <2>3 DEF Frame
  <2>7. stack' \in Seq({frame}) /\ Len(stack') = 1 /\ stack'[1] = frame
    BY <2>2, <2>3
  <2>8. Obtained(<<>>)
    BY DEF Obtained
  <2>6. Piled(stack') /\ Len(stack') = 1
    BY <2>1, <2>5, <2>7, <2>8 DEF Piled
  <2>4. Falling(stack')
    BY <2>6 DEF Falling
  <2> QED BY <2>4, <2>6 DEF StackInv
<1>2. CASE Call
  <2>1. /\ ~Idle /\ Outcome.asks /\ Outcome.call # Nothing
        /\ stack' = Append(stack, Frame(Outcome.call))
    BY <1>2 DEF Call
  <2>2. /\ WellFormed(Outcome.call)
        /\ \A i \in 1..Len(stack) : Rank(Outcome.call) < Rank(stack[i].call)
    BY <2>1, AskedIsLesser
  <2>3. PICK n \in Nat : n = Len(stack)
    BY <2>1, AskedIsLesser
  <2>8. Frame(Outcome.call).call = Outcome.call
    BY DEF Frame
  <2>4. /\ Piled(stack') /\ Len(stack') = n + 1 /\ stack'[n + 1].call = Outcome.call
        /\ \A i \in 1..n : stack'[i] = stack[i]
    BY <2>1, <2>2, <2>3, <2>8, Pushed DEF StackInv
  <2>5. \A i \in 1..n : Rank(stack'[n + 1].call) < Rank(stack'[i].call)
    BY <2>2, <2>3, <2>4
  <2>6. \A i, j \in 1..n : i < j => Rank(stack'[j].call) < Rank(stack'[i].call)
    BY <2>3, <2>4 DEF StackInv, Falling
  <2>7. Falling(stack')
    BY <2>3, <2>4, <2>5, <2>6 DEF Falling
  <2> QED BY <2>4, <2>7 DEF StackInv
<1>3. CASE Reuse
  <2>1. PICK review : stack' = Give(stack, review) /\ stack # <<>>
    BY <1>3 DEF Reuse, Idle
  <2>2. /\ Piled(stack') /\ Len(stack') = Len(stack)
        /\ \A i \in 1..Len(stack) : stack'[i].call = stack[i].call
    BY <2>1, Given DEF StackInv
  <2> QED BY <2>2 DEF StackInv, Falling
<1>4. CASE Answer
  <2>1. CASE Len(stack) = 1
    <3>1. stack' = <<>>
      BY <1>4, <2>1 DEF Answer
    <3> QED BY <3>1 DEF StackInv, Piled, Falling
  <2>2. CASE Len(stack) # 1
    <3>0. stack # <<>> /\ Piled(stack)
      BY <1>4 DEF Answer, Idle, StackInv
    <3>1. PICK review : stack' = Give(SubSeq(stack, 1, Len(stack) - 1), review)
      BY <1>4, <2>2 DEF Answer
    <3>2. PICK n \in Nat : n = Len(stack)
      BY <3>0 DEF Piled
    <3>7. /\ Piled(SubSeq(stack, 1, Len(stack) - 1))
          /\ Len(SubSeq(stack, 1, Len(stack) - 1)) = Len(stack) - 1
          /\ SubSeq(stack, 1, Len(stack) - 1) # <<>>
          /\ \A i \in 1..(Len(stack) - 1) : SubSeq(stack, 1, Len(stack) - 1)[i] = stack[i]
      BY <2>2, <3>0, Popped
    <3>3. PICK popped : popped = SubSeq(stack, 1, Len(stack) - 1)
      OBVIOUS
    <3>8. /\ Piled(popped) /\ popped # <<>> /\ Len(popped) = n - 1
          /\ \A i \in 1..(n - 1) : popped[i] = stack[i]
      BY <3>2, <3>3, <3>7, Zenon
    <3>9. stack' = Give(popped, review)
      BY <3>1, <3>3
    <3>4. /\ Piled(stack') /\ Len(stack') = Len(popped)
          /\ \A i \in 1..Len(popped) : stack'[i].call = popped[i].call
      BY <3>8, <3>9, Given
    <3>5. /\ Len(stack') = n - 1
          /\ \A i \in 1..(n - 1) : stack'[i].call = stack[i].call /\ i \in 1..n
      BY <3>2, <3>8, <3>4
    <3>6. Falling(stack')
      BY <3>2, <3>5 DEF StackInv, Falling
    <3> QED BY <3>4, <3>6 DEF StackInv
  <2> QED BY <2>1, <2>2
<1>5. CASE Decide \/ ImportOrDelete \/ UNCHANGED vars
  <2>1. stack' = stack
    BY <1>5 DEF Decide, ImportOrDelete, Change, vars
  <2> QED BY <2>1 DEF StackInv
<1> QED BY <1>1, <1>2, <1>3, <1>4, <1>5 DEF Next

\* Along the stack the ranks fall, in every state.
LEMMA StackAlways == Spec => []StackInv
<1>1. Init => StackInv
  BY DEF Init, StackInv, Piled, Falling
<1>2. StackInv /\ [Next]_vars => StackInv'
  BY StackKeeps
<1> QED BY <1>1, <1>2, PTL DEF Spec

\* No review waits for itself, whatever is asked for and whatever changes
\* meanwhile: no call stands on the stack of builders twice, so the packet
\* cache, which keeps a review only once it is built, never sends a builder
\* round a circle.
THEOREM NoReentryHolds == Spec => []NoReentry
<1>1. StackInv => NoReentry
  <2> SUFFICES ASSUME StackInv, NEW i \in DOMAIN stack, NEW j \in DOMAIN stack,
                      stack[i].call = stack[j].call, i # j
               PROVE  FALSE
    BY DEF NoReentry
  <2>1. DOMAIN stack = 1..Len(stack) /\ Len(stack) \in Nat
    BY DEF StackInv, Piled
  <2>2. Rank(stack[i].call) \in Nat /\ Rank(stack[j].call) \in Nat
    BY <2>1, RankNatural DEF StackInv, Piled
  <2>3. i < j \/ j < i
    BY <2>1
  <2> QED BY <2>1, <2>2, <2>3 DEF StackInv, Falling
<1> QED BY <1>1, StackAlways, PTL

(***************************************************************************)
(* How deep the reviews wait for one another.                              *)
(***************************************************************************)

\* No rank is above that of the packet.
LEMMA RankAtMost ==
  ASSUME NEW call, WellFormed(call)
  PROVE  Rank(call) \in 0..69
<1>1. Depth[call.name] \in 0..69
  <2>1. \A name \in Builders : Depth[name] <= 69
    BY DEF Builders, Depth
  <2> QED BY <2>1, DepthsNatural DEF WellFormed
<1>2. call.name \in Scheduling \cup Reserving => Depth[call.name] <= 39
  <2>1. \A name \in Scheduling : Depth[name] <= 39
    BY DEF Depth, Scheduling
  <2>2. \A name \in Reserving : Depth[name] <= 39
    BY DEF Depth, Reserving
  <2> QED BY <2>1, <2>2
<1>3. call.name \notin Scheduling \cap Reserving
  BY DEF Scheduling, Reserving
<1>4. PICK s, r : s = SchedulerDepth(ArgumentsOf(call)) /\ r = ReservationDepth(ArgumentsOf(call))
  OBVIOUS
<1>5. s \in {0, 7} /\ r \in {0, 28}
  BY <1>4, ArgumentsLegal, DepthsOf
<1>6. PICK d \in 0..69 : d = Depth[call.name]
  BY <1>1
<1>7. Rank(call) = d + (IF call.name \in Scheduling THEN s ELSE 0)
                     + (IF call.name \in Reserving THEN r ELSE 0)
  BY <1>4, <1>6 DEF Rank
<1> QED BY <1>2, <1>3, <1>5, <1>6, <1>7

\* More calls than there are ranks do not stand on one another.
LEMMA FallEnds ==
  ASSUME NEW frames, NEW n \in Nat, Len(frames) = n, Falling(frames), NEW m \in Nat,
         \A i \in 1..n : Rank(frames[i].call) \in 0..m
  PROVE  n <= m + 1
<1>1. PICK rank : rank = [i \in 1..n |-> Rank(frames[i].call)]
  OBVIOUS
<1>2. rank \in [1..n -> 0..m] /\ \A i \in 1..n : rank[i] = Rank(frames[i].call)
  BY <1>1
<1>3. \A i, j \in 1..n : i < j => rank[j] < rank[i]
  BY <1>2 DEF Falling
<1>4. \A i, j \in 1..n : i < j => rank[i] # rank[j]
  <2> SUFFICES ASSUME NEW i \in 1..n, NEW j \in 1..n, i < j PROVE rank[i] # rank[j]
    OBVIOUS
  <2>1. rank[i] \in Int /\ rank[j] \in Int
    BY <1>2
  <2>2. rank[j] < rank[i]
    BY <1>3
  <2> QED BY <2>1, <2>2
<1>5. \A i, j \in 1..n : rank[i] = rank[j] => i = j
  BY <1>4
<1>6. rank \in Injection(1..n, 0..m)
  BY <1>2, <1>5 DEF Injection, IsInjective
<1>7. IsFiniteSet(0..m) /\ Cardinality(0..m) = m + 1 /\ Cardinality(1..n) = n
  <2>1. IsFiniteSet(0..m) /\ Cardinality(0..m) = m + 1
    BY FS_Interval
  <2>2. Cardinality(1..n) = IF 1 > n THEN 0 ELSE n - 1 + 1
    BY FS_Interval
  <2> QED BY <2>1, <2>2
<1> QED BY <1>6, <1>7, FS_Injection

\* How deep the reviews of a request wait for one another.
Shallow == Len(stack) <= 70

\* No more than seventy reviews ever wait for one another, whatever is asked for and in
\* whatever circles the builders call.  A review takes three frames of the interpreter's
\* stack (the two wrappers of the cache and the builder), far from the limit of Python.
THEOREM ShallowHolds == Spec => []Shallow
<1>1. StackInv => Shallow
  <2> SUFFICES ASSUME StackInv PROVE Shallow
    OBVIOUS
  <2>1. PICK n \in Nat : n = Len(stack)
    BY DEF StackInv, Piled
  <2>2. \A i \in 1..n : Rank(stack[i].call) \in 0..69
    BY <2>1, RankAtMost DEF StackInv, Piled
  <2>3. PICK m \in Nat : m = 69
    OBVIOUS
  <2>4. Len(stack) = n /\ Falling(stack) /\ \A i \in 1..n : Rank(stack[i].call) \in 0..m
    BY <2>1, <2>2, <2>3 DEF StackInv
  <2>5. n <= m + 1
    BY <2>4, FallEnds
  <2> QED BY <2>1, <2>3, <2>5 DEF Shallow
<1> QED BY <1>1, StackAlways, PTL

(***************************************************************************)
(* What a review hands on, and from which identifiers.                     *)
(***************************************************************************)

\* A call names the evidence of its caller or none.
Faithful(call, q) == ArgumentsOf(call).evidence_id \in {"", q.evidence_id}

\* What a builder hands on it has from a review it obtained, and it asks for
\* none with another evidence than its own.
Hands(outcome, up, q) ==
  /\ outcome.asks => Faithful(outcome.call, q)
  /\ ~outcome.asks => \A part \in outcome.review.offers :
                        \E k \in 1..Len(up) : part \in up[k].offers

OffersNothing(outcome) == ~outcome.asks => outcome.review.offers = {}

\* The evidence of a call is that of the arguments it is made from, or none.
LEMMA CallFaithful ==
  ASSUME NEW name, NEW style, NEW given, NEW q, NEW a, a.evidence_id = q.evidence_id
  PROVE  Faithful(CallOf(name, style, a, given), q)
<1>1. "evidence_id" \in DOMAIN Defaults /\ Defaults["evidence_id"] = ""
  BY DEF Defaults
<1>2. PICK b : b = ArgumentsOf(CallOf(name, style, a, given))
  OBVIOUS
<1>3. \A p \in DOMAIN Defaults : /\ p \in given => b[p] = a[p]
                                 /\ p \notin given => b[p] = Defaults[p]
  BY <1>2, ArgumentsGiven
<1>4. b.evidence_id \in {"", q.evidence_id}
  BY <1>1, <1>3
<1> QED BY <1>2, <1>4 DEF Faithful

\* A call without arguments names no evidence.
LEMMA BareFaithful ==
  ASSUME NEW name, NEW q
  PROVE  Faithful(Bare(name), q)
<1>1. Defaults.evidence_id = "" /\ "evidence_id" \in DOMAIN Defaults
  BY DEF Defaults
<1>2. PICK b : b = ArgumentsOf(CallOf(name, "none", Defaults, {}))
  OBVIOUS
<1>3. \A p \in DOMAIN Defaults : p \notin {} => b[p] = Defaults[p]
  BY <1>2, ArgumentsGiven
<1>4. b.evidence_id = ""
  BY <1>1, <1>3
<1> QED BY <1>2, <1>4 DEF Faithful, Bare

\* Leaving out a call names no evidence either.
LEMMA CallIfFaithful ==
  ASSUME NEW condition, NEW call, NEW q, Faithful(call, q)
  PROVE  Faithful(CallIf(condition, call), q)
BY BareFaithful DEF CallIf, Nothing

\* What a builder changes of its arguments leaves the evidence as it is.
LEMMA EvidenceKept ==
  ASSUME NEW q, Legal(q)
  PROVE  /\ Inferred(q).evidence_id = q.evidence_id
         /\ Unscheduled(q).evidence_id = q.evidence_id
         /\ Rescheduled(q).evidence_id = q.evidence_id
         /\ Unreserved(q).evidence_id = q.evidence_id
         /\ \A phase : [q EXCEPT !.phase = phase].evidence_id = q.evidence_id
         /\ [q EXCEPT !.refs = FALSE].evidence_id = q.evidence_id
BY DEF Legal, Defaults, Inferred, Unscheduled, Rescheduled, Unreserved

\* A guarded builder that does not ask returns an invalid review, or, once it
\* has all it asks for, its own.
LEMMA GuardedReturns ==
  ASSUME NEW up, NEW m, NEW of, NEW calls, NEW review, Len(up) \in Nat, Len(calls) \in Nat,
         ~Guarded(up, m, of, calls, review).asks
  PROVE  \/ Guarded(up, m, of, calls, review).review = Invalid
         \/ /\ Guarded(up, m, of, calls, review).review = review
            /\ Len(calls) <= Len(up)
            /\ Len(up) >= m => \A i \in of : up[i].status # "invalid"
BY DEF Guarded, Return, Ask

\* An invalid review hands on nothing.
LEMMA InvalidOffers ==
  Invalid.offers = {} /\ Invalid.status = "invalid" /\ Invalid.blocked = {"valid"}
BY DEF Invalid, Result

\* A guarded builder whose own review hands on nothing hands on nothing.
LEMMA SilentNothing ==
  ASSUME NEW up, NEW m, NEW of, NEW calls, NEW status, NEW blocked
  PROVE  OffersNothing(Guarded(up, m, of, calls, Result(status, blocked, {})))
<1>1. PICK review : review = Result(status, blocked, {})
  OBVIOUS
<1>2. review.offers = {}
  BY <1>1 DEF Result
<1>3. OffersNothing(Guarded(up, m, of, calls, review))
  BY <1>2, InvalidOffers DEF OffersNothing, Guarded, Return, Ask
<1> QED BY <1>1, <1>3

\* A guarded builder that goes through a list of faithful calls and hands on
\* what the reviews it obtained offer.
LEMMA HandsFrom ==
  ASSUME NEW up, Counted(up), NEW m, NEW of, NEW calls, NEW n \in Nat, Len(calls) = n,
         NEW status, NEW blocked, NEW offers, NEW q,
         \A k \in 1..n : Faithful(calls[k], q),
         \A part \in offers : \E k \in 1..n : part \in up[k].offers
  PROVE  Hands(Guarded(up, m, of, calls, Result(status, blocked, offers)), up, q)
<1>1. PICK review : review = Result(status, blocked, offers)
  OBVIOUS
<1>2. review.offers = offers
  BY <1>1 DEF Result
<1>3. PICK outcome : outcome = Guarded(up, m, of, calls, review)
  OBVIOUS
<1>4. outcome.asks => Faithful(outcome.call, q)
  BY <1>3, GuardedAsks DEF Counted
<1>5. ~outcome.asks => \A part \in outcome.review.offers :
                         \E k \in 1..Len(up) : part \in up[k].offers
  <2> SUFFICES ASSUME ~outcome.asks
               PROVE  \A part \in outcome.review.offers :
                        \E k \in 1..Len(up) : part \in up[k].offers
    OBVIOUS
  <2>1. \/ outcome.review = Invalid
        \/ outcome.review = review /\ n <= Len(up)
    BY <1>3, GuardedReturns DEF Counted
  <2>2. CASE outcome.review = Invalid
    BY <2>2, InvalidOffers
  <2>3. CASE outcome.review = review /\ n <= Len(up)
    <3>1. \A k \in 1..n : k \in 1..Len(up)
      BY <2>3 DEF Counted
    <3> QED BY <1>2, <2>3, <3>1
  <2> QED BY <2>1, <2>2, <2>3
<1> QED BY <1>1, <1>3, <1>4, <1>5 DEF Hands

\* A guarded builder of 1 review that hands on what they offer.
LEMMA Hands1 ==
  ASSUME NEW a, NEW up, Counted(up),
         NEW m, NEW of, NEW status, NEW blocked, NEW offers, NEW q,
         Faithful(a, q),
         \A part \in offers : \E k \in 1..1 : part \in up[k].offers
  PROVE  Hands(Guarded(up, m, of, <<a>>, Result(status, blocked, offers)), up, q)
<1>1. PICK calls : calls = <<a>>
  OBVIOUS
<1>2. /\ Len(calls) = 1
      /\ \A x \in 1..1 : calls[x] \in {a}
  BY <1>1
<1>3. \A x \in 1..1 : Faithful(calls[x], q)
  BY <1>2
<1> QED BY <1>1, <1>2, <1>3, HandsFrom

\* A guarded builder of 2 reviews that hands on what they offer.
LEMMA Hands2 ==
  ASSUME NEW a, NEW b, NEW up, Counted(up),
         NEW m, NEW of, NEW status, NEW blocked, NEW offers, NEW q,
         Faithful(a, q), Faithful(b, q),
         \A part \in offers : \E k \in 1..2 : part \in up[k].offers
  PROVE  Hands(Guarded(up, m, of, <<a, b>>, Result(status, blocked, offers)), up, q)
<1>1. PICK calls : calls = <<a, b>>
  OBVIOUS
<1>2. /\ Len(calls) = 2
      /\ \A x \in 1..2 : calls[x] \in {a, b}
  BY <1>1
<1>3. \A x \in 1..2 : Faithful(calls[x], q)
  BY <1>2
<1> QED BY <1>1, <1>2, <1>3, HandsFrom

\* A guarded builder of 3 reviews that hands on what they offer.
LEMMA Hands3 ==
  ASSUME NEW a, NEW b, NEW c, NEW up, Counted(up),
         NEW m, NEW of, NEW status, NEW blocked, NEW offers, NEW q,
         Faithful(a, q), Faithful(b, q), Faithful(c, q),
         \A part \in offers : \E k \in 1..3 : part \in up[k].offers
  PROVE  Hands(Guarded(up, m, of, <<a, b, c>>, Result(status, blocked, offers)), up, q)
<1>1. PICK calls : calls = <<a, b, c>>
  OBVIOUS
<1>2. /\ Len(calls) = 3
      /\ \A x \in 1..3 : calls[x] \in {a, b, c}
  BY <1>1
<1>3. \A x \in 1..3 : Faithful(calls[x], q)
  BY <1>2
<1> QED BY <1>1, <1>2, <1>3, HandsFrom

\* A guarded builder of 4 reviews that hands on what they offer.
LEMMA Hands4 ==
  ASSUME NEW a, NEW b, NEW c, NEW d, NEW up, Counted(up),
         NEW m, NEW of, NEW status, NEW blocked, NEW offers, NEW q,
         Faithful(a, q), Faithful(b, q), Faithful(c, q), Faithful(d, q),
         \A part \in offers : \E k \in 1..4 : part \in up[k].offers
  PROVE  Hands(Guarded(up, m, of, <<a, b, c, d>>, Result(status, blocked, offers)), up, q)
<1>1. PICK calls : calls = <<a, b, c, d>>
  OBVIOUS
<1>2. /\ Len(calls) = 4
      /\ \A x \in 1..4 : calls[x] \in {a, b, c, d}
  BY <1>1
<1>3. \A x \in 1..4 : Faithful(calls[x], q)
  BY <1>2
<1> QED BY <1>1, <1>2, <1>3, HandsFrom

\* A guarded builder of 5 reviews that hands on what they offer.
LEMMA Hands5 ==
  ASSUME NEW a, NEW b, NEW c, NEW d, NEW e, NEW up, Counted(up),
         NEW m, NEW of, NEW status, NEW blocked, NEW offers, NEW q,
         Faithful(a, q), Faithful(b, q), Faithful(c, q), Faithful(d, q), Faithful(e, q),
         \A part \in offers : \E k \in 1..5 : part \in up[k].offers
  PROVE  Hands(Guarded(up, m, of, <<a, b, c, d, e>>, Result(status, blocked, offers)), up, q)
<1>1. PICK calls : calls = <<a, b, c, d, e>>
  OBVIOUS
<1>2. /\ Len(calls) = 5
      /\ \A x \in 1..5 : calls[x] \in {a, b, c, d, e}
  BY <1>1
<1>3. \A x \in 1..5 : Faithful(calls[x], q)
  BY <1>2
<1> QED BY <1>1, <1>2, <1>3, HandsFrom

\* A guarded builder of 6 reviews that hands on what they offer.
LEMMA Hands6 ==
  ASSUME NEW a, NEW b, NEW c, NEW d, NEW e, NEW f, NEW up, Counted(up),
         NEW m, NEW of, NEW status, NEW blocked, NEW offers, NEW q,
         Faithful(a, q), Faithful(b, q), Faithful(c, q), Faithful(d, q), Faithful(e, q),
         Faithful(f, q),
         \A part \in offers : \E k \in 1..6 : part \in up[k].offers
  PROVE  Hands(Guarded(up, m, of, <<a, b, c, d, e, f>>, Result(status, blocked, offers)), up, q)
<1>1. PICK calls : calls = <<a, b, c, d, e, f>>
  OBVIOUS
<1>2. /\ Len(calls) = 6
      /\ \A x \in 1..6 : calls[x] \in {a, b, c, d, e, f}
  BY <1>1
<1>3. \A x \in 1..6 : Faithful(calls[x], q)
  BY <1>2
<1> QED BY <1>1, <1>2, <1>3, HandsFrom

\* A guarded builder of 7 reviews that hands on what they offer.
LEMMA Hands7 ==
  ASSUME NEW a, NEW b, NEW c, NEW d, NEW e, NEW f, NEW g, NEW up, Counted(up),
         NEW m, NEW of, NEW status, NEW blocked, NEW offers, NEW q,
         Faithful(a, q), Faithful(b, q), Faithful(c, q), Faithful(d, q), Faithful(e, q),
         Faithful(f, q), Faithful(g, q),
         \A part \in offers : \E k \in 1..7 : part \in up[k].offers
  PROVE  Hands(Guarded(up, m, of, <<a, b, c, d, e, f, g>>, Result(status, blocked, offers)), up, q)
<1>1. PICK calls : calls = <<a, b, c, d, e, f, g>>
  OBVIOUS
<1>2. /\ Len(calls) = 7
      /\ \A x \in 1..7 : calls[x] \in {a, b, c, d, e, f, g}
  BY <1>1
<1>3. \A x \in 1..7 : Faithful(calls[x], q)
  BY <1>2
<1> QED BY <1>1, <1>2, <1>3, HandsFrom

\* A guarded builder of 8 reviews that hands on what they offer.
LEMMA Hands8 ==
  ASSUME NEW a, NEW b, NEW c, NEW d, NEW e, NEW f, NEW g, NEW h, NEW up, Counted(up),
         NEW m, NEW of, NEW status, NEW blocked, NEW offers, NEW q,
         Faithful(a, q), Faithful(b, q), Faithful(c, q), Faithful(d, q), Faithful(e, q),
         Faithful(f, q), Faithful(g, q), Faithful(h, q),
         \A part \in offers : \E k \in 1..8 : part \in up[k].offers
  PROVE  Hands(Guarded(up, m, of, <<a, b, c, d, e, f, g, h>>,
                       Result(status, blocked, offers)), up, q)
<1>1. PICK calls : calls = <<a, b, c, d, e, f, g, h>>
  OBVIOUS
<1>2. /\ Len(calls) = 8
      /\ \A x \in 1..8 : calls[x] \in {a, b, c, d, e, f, g, h}
  BY <1>1
<1>3. \A x \in 1..8 : Faithful(calls[x], q)
  BY <1>2
<1> QED BY <1>1, <1>2, <1>3, HandsFrom

\* A guarded builder of 9 reviews that hands on what they offer.
LEMMA Hands9 ==
  ASSUME NEW a, NEW b, NEW c, NEW d, NEW e, NEW f, NEW g, NEW h, NEW i, NEW up, Counted(up),
         NEW m, NEW of, NEW status, NEW blocked, NEW offers, NEW q,
         Faithful(a, q), Faithful(b, q), Faithful(c, q), Faithful(d, q), Faithful(e, q),
         Faithful(f, q), Faithful(g, q), Faithful(h, q), Faithful(i, q),
         \A part \in offers : \E k \in 1..9 : part \in up[k].offers
  PROVE  Hands(Guarded(up, m, of, <<a, b, c, d, e, f, g, h, i>>,
                       Result(status, blocked, offers)), up, q)
<1>1. PICK calls : calls = <<a, b, c, d, e, f, g, h, i>>
  OBVIOUS
<1>2. /\ Len(calls) = 9
      /\ \A x \in 1..9 : calls[x] \in {a, b, c, d, e, f, g, h, i}
  BY <1>1
<1>3. \A x \in 1..9 : Faithful(calls[x], q)
  BY <1>2
<1> QED BY <1>1, <1>2, <1>3, HandsFrom

\* A guarded builder of 10 reviews that hands on what they offer.
LEMMA Hands10 ==
  ASSUME NEW a, NEW b, NEW c, NEW d, NEW e, NEW f, NEW g, NEW h, NEW i, NEW j, NEW up, Counted(up),
         NEW m, NEW of, NEW status, NEW blocked, NEW offers, NEW q,
         Faithful(a, q), Faithful(b, q), Faithful(c, q), Faithful(d, q), Faithful(e, q),
         Faithful(f, q), Faithful(g, q), Faithful(h, q), Faithful(i, q), Faithful(j, q),
         \A part \in offers : \E k \in 1..10 : part \in up[k].offers
  PROVE  Hands(Guarded(up, m, of, <<a, b, c, d, e, f, g, h, i, j>>,
                       Result(status, blocked, offers)), up, q)
<1>1. PICK calls : calls = <<a, b, c, d, e, f, g, h, i, j>>
  OBVIOUS
<1>2. /\ Len(calls) = 10
      /\ \A x \in 1..10 : calls[x] \in {a, b, c, d, e, f, g, h, i, j}
  BY <1>1
<1>3. \A x \in 1..10 : Faithful(calls[x], q)
  BY <1>2
<1> QED BY <1>1, <1>2, <1>3, HandsFrom

\* A guarded builder of 11 reviews that hands on what they offer.
LEMMA Hands11 ==
  ASSUME NEW a, NEW b, NEW c, NEW d, NEW e, NEW f, NEW g, NEW h, NEW i, NEW j, NEW l,
         NEW up, Counted(up),
         NEW m, NEW of, NEW status, NEW blocked, NEW offers, NEW q,
         Faithful(a, q), Faithful(b, q), Faithful(c, q), Faithful(d, q), Faithful(e, q),
         Faithful(f, q), Faithful(g, q), Faithful(h, q), Faithful(i, q), Faithful(j, q),
         Faithful(l, q),
         \A part \in offers : \E k \in 1..11 : part \in up[k].offers
  PROVE  Hands(Guarded(up, m, of, <<a, b, c, d, e, f, g, h, i, j, l>>,
                       Result(status, blocked, offers)), up, q)
<1>1. PICK calls : calls = <<a, b, c, d, e, f, g, h, i, j, l>>
  OBVIOUS
<1>2. /\ Len(calls) = 11
      /\ \A x \in 1..11 : calls[x] \in {a, b, c, d, e, f, g, h, i, j, l}
  BY <1>1
<1>3. \A x \in 1..11 : Faithful(calls[x], q)
  BY <1>2
<1> QED BY <1>1, <1>2, <1>3, HandsFrom

\* What the carrying builders of NativeExecution hand on.
LEMMA ExecutionHand ==
  ASSUME NEW q, NEW w, NEW up, Legal(q), Counted(up)
  PROVE  /\ Hands(ExecutionAdapterContract(q, w, up), up, q)
         /\ Hands(ExecutionRequestReview(q, w, up), up, q)
         /\ Hands(ExecutionRequestPersistenceAdmissionReview(q, w, up), up, q)
         /\ Hands(ExecutionPermitReview(q, w, up), up, q)
         /\ Hands(ExecutionAuditPlan(q, w, up), up, q)
         /\ Hands(ExecutionRetentionPlan(q, w, up), up, q)
         /\ Hands(ExecutionRunnerReadiness(q, w, up), up, q)
         /\ Hands(ExecutionSubmissionReview(q, w, up), up, q)
         /\ Hands(ExecutionSubmissionPersistenceAdmissionReview(q, w, up), up, q)
         /\ Hands(QueuePersistenceReview(q, w, up), up, q)
         /\ Hands(QueuePersistenceAdmissionReview(q, w, up), up, q)
         /\ Hands(JobPersistenceAdmissionReview(q, w, up), up, q)
<1>1. Hands(ExecutionAdapterContract(q, w, up), up, q)
  <2>1. /\ Faithful(Bare("plan"), q)
        /\ Faithful(Pos("execution_admission_review", q, PAE), q)
        /\ Faithful(Pos("secret_resolution_plan", q, PAE), q)
        /\ Faithful(Bare("resume_checkpoint"), q)
        /\ Faithful(Bare("execution_graph"), q)
    BY CallFaithful, BareFaithful, EvidenceKept DEF Pos
  <2>2. \A part \in up[2].offers : \E k \in 1..5 : part \in up[k].offers
    OBVIOUS
  <2> QED BY <2>1, <2>2, Hands5, Zenon DEF ExecutionAdapterContract, Review
<1>2. Hands(ExecutionRequestReview(q, w, up), up, q)
  <2>1. /\ Faithful(Pos("execution_adapter_contract", q, PAE), q)
    BY CallFaithful, BareFaithful, EvidenceKept DEF Pos
  <2>2. \A part \in up[1].offers : \E k \in 1..1 : part \in up[k].offers
    OBVIOUS
  <2> QED BY <2>1, <2>2, Hands1, Zenon DEF ExecutionRequestReview, Review
<1>3. Hands(ExecutionRequestPersistenceAdmissionReview(q, w, up), up, q)
  <2>1. /\ Faithful(Mixed("execution_request_review", q, PAE), q)
    BY CallFaithful, BareFaithful, EvidenceKept DEF Mixed
  <2>2. \A part \in up[1].offers : \E k \in 1..1 : part \in up[k].offers
    OBVIOUS
  <2> QED BY <2>1, <2>2, Hands1, Zenon DEF ExecutionRequestPersistenceAdmissionReview, Review
<1>4. Hands(ExecutionPermitReview(q, w, up), up, q)
  <2>1. /\ Faithful(Bare("plan"), q)
        /\ Faithful(Pos("execution_admission_review", q, PAE), q)
        /\ Faithful(Pos("execution_request_review", q, PAE), q)
        /\ Faithful(Kw("dry_run_execution_ledger", q, PAE), q)
        /\ Faithful(Mixed("recovery_plan", q, PAE), q)
        /\ Faithful(Pos("job_state_plan", q, PAE), q)
        /\ Faithful(Kw("adapter_enablement_review", q, AE), q)
        /\ Faithful(Pos("approval_binding_review", q, AE), q)
    BY CallFaithful, BareFaithful, EvidenceKept DEF Pos, Kw, Mixed
  <2>4. /\ Faithful(Binding(q), q)
    BY <2>1, CallIfFaithful DEF Binding
  <2>2. \A part \in Carried(up[3], {"gates"}) : \E k \in 1..8 : part \in up[k].offers
    BY DEF Carried
  <2> QED BY <2>1, <2>4, <2>2, Hands8, Zenon DEF ExecutionPermitReview, Review
<1>5. Hands(ExecutionAuditPlan(q, w, up), up, q)
  <2>1. /\ Faithful(Mixed("execution_permit_review", q, PAE), q)
        /\ Faithful(Kw("dry_run_execution_ledger", q, PAE), q)
        /\ Faithful(Kw("execution_lock_plan", q, PAE), q)
        /\ Faithful(Pos("recovery_plan", q, Phase), q)
        /\ Faithful(Pos("job_state_plan", q, Phase), q)
    BY CallFaithful, BareFaithful, EvidenceKept DEF Pos, Kw, Mixed
  <2>2. \A part \in Carried(up[1], {"gates"}) : \E k \in 1..5 : part \in up[k].offers
    BY DEF Carried
  <2> QED BY <2>1, <2>2, Hands5, Zenon DEF ExecutionAuditPlan, Review
<1>6. Hands(ExecutionRetentionPlan(q, w, up), up, q)
  <2>1. /\ Faithful(Kw("execution_audit_plan", q, PAE), q)
        /\ Faithful(Pos("job_state_plan", q, Phase), q)
        /\ Faithful(Pos("recovery_plan", q, Phase), q)
    BY CallFaithful, BareFaithful, EvidenceKept DEF Pos, Kw
  <2>2. \A part \in Carried(up[1], {"gates"}) : \E k \in 1..3 : part \in up[k].offers
    BY DEF Carried
  <2> QED BY <2>1, <2>2, Hands3, Zenon DEF ExecutionRetentionPlan, Review
<1>7. Hands(ExecutionRunnerReadiness(q, w, up), up, q)
  <2>1. /\ Faithful(Bare("plan"), q)
        /\ Faithful(Mixed("execution_permit_review", q, PAE), q)
        /\ Faithful(Kw("execution_lock_plan", q, PAE), q)
        /\ Faithful(Kw("execution_audit_plan", q, PAE), q)
        /\ Faithful(Kw("execution_retention_plan", q, PAE), q)
        /\ Faithful(Kw("backup_restore_review", Unscheduled(q), Scheduled), q)
        /\ Faithful(Bare("secret_resolution_plan"), q)
        /\ Faithful(Mixed("secret_store_binding_review", q, PAE), q)
        /\ Faithful(Mixed("secret_audit_persistence_review", q, PAE), q)
        /\ Faithful(Kw("adapter_enablement_review", q, AE), q)
        /\ Faithful(Kw("adapter_activation_review", q, AE), q)
    BY CallFaithful, BareFaithful, EvidenceKept DEF Kw, Mixed
  <2>2. \A part \in Carried(up[5], {"gates"}) : \E k \in 1..11 : part \in up[k].offers
    BY DEF Carried
  <2> QED BY <2>1, <2>2, Hands11, Zenon DEF ExecutionRunnerReadiness, Review
<1>8. Hands(ExecutionSubmissionReview(q, w, up), up, q)
  <2>1. /\ Faithful(Kw("mutating_enablement_review", q, PSAE), q)
        /\ Faithful(Kw("execution_request_persistence_admission_review", q, PAE), q)
        /\ Faithful(Kw("deployment_scheduler_review", q, PAE), q)
        /\ Faithful(Kw("execution_runner_readiness", q, PAE), q)
        /\ Faithful(Kw("controlled_uat_entry_review", Unreserved(q), Reserved \ Scope), q)
    BY CallFaithful, BareFaithful, EvidenceKept DEF Kw
  <2>2. \A part \in Carried(up[2], {"gates", "completion"}) : \E k \in 1..5 : part \in up[k].offers
    BY DEF Carried
  <2> QED BY <2>1, <2>2, Hands5, Zenon DEF ExecutionSubmissionReview, Review
<1>9. Hands(ExecutionSubmissionPersistenceAdmissionReview(q, w, up), up, q)
  <2>1. /\ Faithful(Kw("execution_submission_review", q, PSAE), q)
    BY CallFaithful, BareFaithful, EvidenceKept DEF Kw
  <2>2. \A part \in up[1].offers : \E k \in 1..1 : part \in up[k].offers
    OBVIOUS
  <2> QED BY <2>1, <2>2, Hands1, Zenon DEF ExecutionSubmissionPersistenceAdmissionReview, Review
<1>10. Hands(QueuePersistenceReview(q, w, up), up, q)
  <2>1. /\ Faithful(Kw("execution_submission_persistence_admission_review", q, PSAE), q)
        /\ Faithful(Kw("job_state_plan", q, PAE), q)
        /\ Faithful(Kw("execution_audit_plan", q, PAE), q)
        /\ Faithful(Kw("execution_retention_plan", q, PAE), q)
        /\ Faithful(Kw("restart_resume_review", Rescheduled(q), Scheduled), q)
    BY CallFaithful, BareFaithful, EvidenceKept DEF Kw
  <2>2. \A part \in up[1].offers : \E k \in 1..5 : part \in up[k].offers
    OBVIOUS
  <2> QED BY <2>1, <2>2, Hands5, Zenon DEF QueuePersistenceReview, Review
<1>11. Hands(QueuePersistenceAdmissionReview(q, w, up), up, q)
  <2>1. /\ Faithful(Kw("queue_persistence_review", q, PSAE), q)
    BY CallFaithful, BareFaithful, EvidenceKept DEF Kw
  <2>2. \A part \in up[1].offers : \E k \in 1..1 : part \in up[k].offers
    OBVIOUS
  <2> QED BY <2>1, <2>2, Hands1, Zenon DEF QueuePersistenceAdmissionReview, Review
<1>12. Hands(JobPersistenceAdmissionReview(q, w, up), up, q)
  <2>1. /\ Faithful(Kw("queue_persistence_admission_review", q, PSAE), q)
        /\ Faithful(Kw("execution_authorization_persistence_admission_review", q, PSAE), q)
        /\ Faithful(Kw("job_state_plan", q, PAE), q)
        /\ Faithful(Kw("restart_resume_review", Rescheduled(q), Scheduled), q)
        /\ Faithful(Kw("backup_restore_review", q, PAE), q)
    BY CallFaithful, BareFaithful, EvidenceKept DEF Kw
  <2>2. \A part \in up[1].offers : \E k \in 1..5 : part \in up[k].offers
    OBVIOUS
  <2> QED BY <2>1, <2>2, Hands5, Zenon DEF JobPersistenceAdmissionReview, Review
<1> QED
  BY <1>1, <1>2, <1>3, <1>4, <1>5, <1>6, <1>7, <1>8, <1>9, <1>10, <1>11, <1>12

\* What the carrying builders of NativeUat hand on.
LEMMA UatHand ==
  ASSUME NEW q, NEW w, NEW up, Legal(q), Counted(up)
  PROVE  /\ Hands(ControlledUatEntryReview(q, w, up), up, q)
         /\ Hands(ControlledUatScopeReview(q, w, up), up, q)
         /\ Hands(ControlledUatRunbookReview(q, w, up), up, q)
         /\ Hands(ControlledUatSecurityReview(q, w, up), up, q)
         /\ Hands(ControlledUatOperationsReview(q, w, up), up, q)
         /\ Hands(ControlledUatSignoffReview(q, w, up), up, q)
         /\ Hands(ControlledUatLaneSelectionReview(q, w, up), up, q)
         /\ Hands(ControlledUatLanePersistenceAdmissionReview(q, w, up), up, q)
         /\ Hands(ControlledUatHardwareReservationReview(q, w, up), up, q)
         /\ Hands(ControlledUatReservationPersistenceAdmissionReview(q, w, up), up, q)
         /\ Hands(ControlledUatEntryIssuanceReview(q, w, up), up, q)
         /\ Hands(ControlledUatEntryPersistenceAdmissionReview(q, w, up), up, q)
         /\ Hands(ControlledUatStartReadinessReview(q, w, up), up, q)
         /\ Hands(ControlledUatStartPersistenceAdmissionReview(q, w, up), up, q)
         /\ Hands(ControlledUatRunnerAdmissionReview(q, w, up), up, q)
         /\ Hands(ControlledUatRunnerPersistenceAdmissionReview(q, w, up), up, q)
         /\ Hands(ControlledUatExecutionAuthorizationReview(q, w, up), up, q)
<1>1. Hands(ControlledUatEntryReview(q, w, up), up, q)
  <2>1. /\ Faithful(Bare("plan"), q)
        /\ Faithful(Kw("execution_runner_readiness", q, PAE), q)
        /\ Faithful(Pos("adapter_activation_review", q, SAE), q)
        /\ Faithful(Pos("adapter_enablement_review", q, SAE), q)
        /\ Faithful(Pos("adapter_uat_rehearsal_plan", q, Scope), q)
        /\ Faithful(Pos("secret_store_binding_review", q, PAE), q)
        /\ Faithful(Pos("secret_audit_persistence_review", q, PAE), q)
        /\ Faithful(Kw("execution_retention_plan", q, PAE), q)
        /\ Faithful(Kw("execution_audit_plan", q, PAE), q)
        /\ Faithful(Kw("controlled_uat_hardware_reservation_review", q, PSAE), q)
    BY CallFaithful, BareFaithful, EvidenceKept DEF Pos, Kw
  <2>4. /\ Faithful(CallIf(q.include_hardware_reservation,
                           Kw("controlled_uat_hardware_reservation_review", q, PSAE)), q)
    BY <2>1, CallIfFaithful
  <2>2. \A part \in Carried(up[2], {"gates"}) : \E k \in 1..10 : part \in up[k].offers
    BY DEF Carried
  <2> QED BY <2>1, <2>4, <2>2, Hands10, Zenon DEF ControlledUatEntryReview, Review
<1>2. Hands(ControlledUatScopeReview(q, w, up), up, q)
  <2>1. /\ Faithful(Bare("plan"), q)
        /\ Faithful(Bare("cluster_evidence_packs"), q)
        /\ Faithful(Bare("deployment_policy"), q)
        /\ Faithful(Mixed("controlled_uat_entry_review", Unreserved(q), Reserved), q)
    BY CallFaithful, BareFaithful, EvidenceKept DEF Mixed
  <2>2. \A part \in GatesOf({up[4]}) : \E k \in 1..4 : part \in up[k].offers
    BY DEF GatesOf, AnyOffers, OfferIf
  <2> QED BY <2>1, <2>2, Hands4, Zenon DEF ControlledUatScopeReview, Review
<1>3. Hands(ControlledUatRunbookReview(q, w, up), up, q)
  <2>1. /\ Faithful(Bare("plan"), q)
        /\ Faithful(Mixed("controlled_uat_scope_review", q, PSAE), q)
    BY CallFaithful, BareFaithful, EvidenceKept DEF Mixed
  <2>2. \A part \in GatesOf({up[2]}) : \E k \in 1..2 : part \in up[k].offers
    BY DEF GatesOf, AnyOffers, OfferIf
  <2> QED BY <2>1, <2>2, Hands2, Zenon DEF ControlledUatRunbookReview, Review
<1>4. Hands(ControlledUatSecurityReview(q, w, up), up, q)
  <2>1. /\ Faithful(Bare("plan"), q)
        /\ Faithful(Kw("controlled_uat_runbook_review", q, PSAE), q)
        /\ Faithful(Kw("controlled_uat_scope_review", q, PSAE), q)
        /\ Faithful(Mixed("secret_store_binding_review", q, PAE), q)
        /\ Faithful(Kw("execution_audit_plan", q, PAE), q)
        /\ Faithful(Kw("execution_retention_plan", q, PAE), q)
        /\ Faithful(Pos("adapter_enablement_review", q, SAE), q)
    BY CallFaithful, BareFaithful, EvidenceKept DEF Pos, Kw, Mixed
  <2>2. \A part \in GatesOf({up[2], up[3]}) : \E k \in 1..7 : part \in up[k].offers
    BY DEF GatesOf, AnyOffers, OfferIf
  <2> QED BY <2>1, <2>2, Hands7, Zenon DEF ControlledUatSecurityReview, Review
<1>5. Hands(ControlledUatOperationsReview(q, w, up), up, q)
  <2>1. /\ Faithful(Bare("plan"), q)
        /\ Faithful(Kw("controlled_uat_runbook_review", q, PSAE), q)
        /\ Faithful(Kw("controlled_uat_security_review", q, PSAE), q)
        /\ Faithful(Pos("recovery_plan", q, Phase), q)
        /\ Faithful(Kw("execution_retention_plan", q, PAE), q)
        /\ Faithful(Kw("execution_lock_plan", q, PAE), q)
        /\ Faithful(Kw("execution_audit_plan", q, PAE), q)
    BY CallFaithful, BareFaithful, EvidenceKept DEF Pos, Kw
  <2>2. \A part \in GatesOf({up[2], up[3], up[5], up[7]}) : \E k \in 1..7 : part \in up[k].offers
    BY DEF GatesOf, AnyOffers, OfferIf
  <2> QED BY <2>1, <2>2, Hands7, Zenon DEF ControlledUatOperationsReview, Review
<1>6. Hands(ControlledUatSignoffReview(q, w, up), up, q)
  <2>1. /\ Faithful(Bare("plan"), q)
        /\ Faithful(Kw("controlled_uat_scope_review", q, PSAE), q)
        /\ Faithful(Kw("controlled_uat_runbook_review", q, PSAE), q)
        /\ Faithful(Kw("controlled_uat_security_review", q, PSAE), q)
        /\ Faithful(Kw("controlled_uat_operations_review", q, PSAE), q)
        /\ Faithful(Kw("uat_evidence_acceptance_review", q, SAE), q)
        /\ Faithful(Pos("adapter_allowlist_review", q, Scope), q)
        /\ Faithful(Kw("secret_store_provider_contract_review", q, PAE), q)
        /\ Faithful(Kw("secret_audit_persistence_review", q, PAE), q)
    BY CallFaithful, BareFaithful, EvidenceKept DEF Pos, Kw
  <2>2. \A part \in GatesOf({up[i] : i \in 2..5}) : \E k \in 1..9 : part \in up[k].offers
    BY DEF GatesOf, AnyOffers, OfferIf
  <2> QED BY <2>1, <2>2, Hands9, Zenon DEF ControlledUatSignoffReview, Review
<1>7. Hands(ControlledUatLaneSelectionReview(q, w, up), up, q)
  <2>1. /\ Faithful(Kw("mutating_adapter_binding_review", Inferred(q), PSAE), q)
        /\ Faithful(Kw("deployment_type_support_review", Inferred(q), SAE), q)
        /\ Faithful(Kw("controlled_uat_scope_review", Inferred(q), PSAE), q)
        /\ Faithful(Kw("controlled_uat_signoff_review", Inferred(q), PSAE), q)
        /\ Faithful(Kw("uat_evidence_acceptance_review", Inferred(q), SAE), q)
    BY CallFaithful, BareFaithful, EvidenceKept DEF Kw
  <2>2. \A part \in up[1].offers : \E k \in 1..5 : part \in up[k].offers
    OBVIOUS
  <2> QED BY <2>1, <2>2, Hands5, Zenon DEF ControlledUatLaneSelectionReview, Review
<1>8. Hands(ControlledUatLanePersistenceAdmissionReview(q, w, up), up, q)
  <2>1. /\ Faithful(Kw("controlled_uat_lane_selection_review", q, PSAE), q)
        /\ Faithful(Kw("job_persistence_admission_review", Inferred(q), PSAE), q)
        /\ Faithful(Kw("mutating_adapter_binding_review", Inferred(q), PSAE), q)
        /\ Faithful(Kw("controlled_uat_scope_review", Inferred(q), PSAE), q)
    BY CallFaithful, BareFaithful, EvidenceKept DEF Kw
  <2>2. \A part \in up[1].offers : \E k \in 1..4 : part \in up[k].offers
    OBVIOUS
  <2> QED BY <2>1, <2>2, Hands4, Zenon DEF ControlledUatLanePersistenceAdmissionReview, Review
<1>9. Hands(ControlledUatHardwareReservationReview(q, w, up), up, q)
  <2>1. /\ Faithful(Kw("controlled_uat_lane_selection_review", q, PSAE), q)
        /\ Faithful(Kw("controlled_uat_lane_persistence_admission_review", q, PSAE), q)
        /\ Faithful(Kw("deployment_window_reservation_review", q, PAE), q)
        /\ Faithful(Kw("deployment_scheduler_review", q, PAE), q)
        /\ Faithful(Kw("execution_lock_plan", q, PAE), q)
        /\ Faithful(Kw("controlled_uat_operations_review", Inferred(q), PSAE), q)
    BY CallFaithful, BareFaithful, EvidenceKept DEF Kw
  <2>2. \A part \in up[2].offers : \E k \in 1..6 : part \in up[k].offers
    OBVIOUS
  <2> QED BY <2>1, <2>2, Hands6, Zenon DEF ControlledUatHardwareReservationReview, Review
<1>10. Hands(ControlledUatReservationPersistenceAdmissionReview(q, w, up), up, q)
  <2>1. /\ Faithful(Kw("controlled_uat_hardware_reservation_review", q, PSAE), q)
        /\ Faithful(Kw("controlled_uat_signoff_review", Inferred(q), PSAE), q)
        /\ Faithful(Kw("controlled_uat_operations_review", Inferred(q), PSAE), q)
        /\ Faithful(Kw("uat_evidence_acceptance_review", Inferred(q), SAE), q)
    BY CallFaithful, BareFaithful, EvidenceKept DEF Kw
  <2>2. \A part \in up[1].offers : \E k \in 1..4 : part \in up[k].offers
    OBVIOUS
  <2> QED BY <2>1, <2>2, Hands4, Zenon
             DEF ControlledUatReservationPersistenceAdmissionReview, Review
<1>11. Hands(ControlledUatEntryIssuanceReview(q, w, up), up, q)
  <2>1. /\ Faithful(Mixed("controlled_uat_entry_review", q, Reserved), q)
        /\ Faithful(Kw("controlled_uat_hardware_reservation_review", Inferred(q), PSAE), q)
        /\ Faithful(Kw("controlled_uat_reservation_persistence_admission_review", Inferred(q), PSAE), q)
        /\ Faithful(Kw("controlled_uat_signoff_review", Inferred(q), PSAE), q)
        /\ Faithful(Kw("uat_evidence_acceptance_review", Inferred(q), SAE), q)
    BY CallFaithful, BareFaithful, EvidenceKept DEF Kw, Mixed
  <2>4. /\ Faithful(CallIf(q.include_hardware_reservation,
                           Kw("controlled_uat_hardware_reservation_review", Inferred(q), PSAE)), q)
        /\ Faithful(CallIf(q.include_hardware_reservation,
                           Kw("controlled_uat_reservation_persistence_admission_review", Inferred(q), PSAE)), q)
    BY <2>1, CallIfFaithful
  <2>2. \A part \in Carry(up[1], up[3], up[3]) : \E k \in 1..5 : part \in up[k].offers
    BY DEF Carry, Carried
  <2> QED BY <2>1, <2>4, <2>2, Hands5, Zenon DEF ControlledUatEntryIssuanceReview, Review
<1>12. Hands(ControlledUatEntryPersistenceAdmissionReview(q, w, up), up, q)
  <2>1. /\ Faithful(Kw("controlled_uat_entry_issuance_review", q, Reserved), q)
        /\ Faithful(Kw("controlled_uat_signoff_review", Inferred(q), PSAE), q)
        /\ Faithful(Kw("controlled_uat_runbook_review", Inferred(q), PSAE), q)
        /\ Faithful(Kw("uat_evidence_acceptance_review", Inferred(q), SAE), q)
    BY CallFaithful, BareFaithful, EvidenceKept DEF Kw
  <2>2. \A part \in up[1].offers : \E k \in 1..4 : part \in up[k].offers
    OBVIOUS
  <2> QED BY <2>1, <2>2, Hands4, Zenon DEF ControlledUatEntryPersistenceAdmissionReview, Review
<1>13. Hands(ControlledUatStartReadinessReview(q, w, up), up, q)
  <2>1. /\ Faithful(Kw("controlled_uat_entry_issuance_review", q, Reserved), q)
        /\ Faithful(Kw("controlled_uat_entry_persistence_admission_review", q, Reserved), q)
    BY CallFaithful, BareFaithful, EvidenceKept DEF Kw
  <2>2. \A part \in Carry(up[1], up[2], up[2]) : \E k \in 1..2 : part \in up[k].offers
    BY DEF Carry, Carried
  <2> QED BY <2>1, <2>2, Hands2, Zenon DEF ControlledUatStartReadinessReview, Review
<1>14. Hands(ControlledUatStartPersistenceAdmissionReview(q, w, up), up, q)
  <2>1. /\ Faithful(Kw("controlled_uat_start_readiness_review", q, Reserved), q)
    BY CallFaithful, BareFaithful, EvidenceKept DEF Kw
  <2>2. \A part \in up[1].offers : \E k \in 1..1 : part \in up[k].offers
    OBVIOUS
  <2> QED BY <2>1, <2>2, Hands1, Zenon DEF ControlledUatStartPersistenceAdmissionReview, Review
<1>15. Hands(ControlledUatRunnerAdmissionReview(q, w, up), up, q)
  <2>1. /\ Faithful(Kw("controlled_uat_start_persistence_admission_review", q, Reserved), q)
        /\ Faithful(Kw("adapter_runtime_isolation_review", q, PSAE), q)
        /\ Faithful(Kw("adapter_runtime_admission_review", q, PSAE), q)
        /\ Faithful(Kw("execution_runner_readiness", q, PAE), q)
    BY CallFaithful, BareFaithful, EvidenceKept DEF Kw
  <2>2. \A part \in GatesOf({up[1], up[3], up[4]}) \cup Carried(up[1], {"completion", "records"}) :
          \E k \in 1..4 : part \in up[k].offers
    BY DEF Carried, GatesOf, AnyOffers, OfferIf
  <2> QED BY <2>1, <2>2, Hands4, Zenon DEF ControlledUatRunnerAdmissionReview
<1>16. Hands(ControlledUatRunnerPersistenceAdmissionReview(q, w, up), up, q)
  <2>1. /\ Faithful(Kw("controlled_uat_runner_admission_review", q, Reserved), q)
    BY CallFaithful, BareFaithful, EvidenceKept DEF Kw
  <2>2. \A part \in up[1].offers : \E k \in 1..1 : part \in up[k].offers
    OBVIOUS
  <2> QED BY <2>1, <2>2, Hands1, Zenon DEF ControlledUatRunnerPersistenceAdmissionReview, Review
<1>17. Hands(ControlledUatExecutionAuthorizationReview(q, w, up), up, q)
  <2>1. /\ Faithful(Kw("controlled_uat_runner_persistence_admission_review", q, Reserved), q)
        /\ Faithful(Kw("adapter_execution_preflight_review", q, PSAE), q)
        /\ Faithful(Kw("adapter_target_connectivity_review", q, PSAE), q)
        /\ Faithful(Kw("adapter_credential_handoff_review", q, PSAE), q)
        /\ Faithful(Kw("adapter_command_invocation_review", q, PSAE), q)
        /\ Faithful(Kw("adapter_output_evidence_review", q, PSAE), q)
    BY CallFaithful, BareFaithful, EvidenceKept DEF Kw
  <2>2. \A part \in GatesOf({up[1], up[5], up[6]}) \cup Carried(up[1], {"completion", "records"}) :
          \E k \in 1..6 : part \in up[k].offers
    BY DEF Carried, GatesOf, AnyOffers, OfferIf
  <2> QED BY <2>1, <2>2, Hands6, Zenon DEF ControlledUatExecutionAuthorizationReview, Unguarded
<1> QED
  BY <1>1, <1>2, <1>3, <1>4, <1>5, <1>6, <1>7, <1>8, <1>9, <1>10, <1>11, <1>12, <1>13,
     <1>14, <1>15, <1>16, <1>17

\* What the carrying builders of NativeAdapters hand on.
LEMMA AdaptersHand ==
  ASSUME NEW q, NEW w, NEW up, Legal(q), Counted(up)
  PROVE  /\ Hands(AdapterLoadPlanReview(q, w, up), up, q)
         /\ Hands(AdapterPackageProvenanceReview(q, w, up), up, q)
         /\ Hands(AdapterSbomReview(q, w, up), up, q)
         /\ Hands(AdapterRuntimeIsolationReview(q, w, up), up, q)
         /\ Hands(AdapterRuntimeAdmissionReview(q, w, up), up, q)
         /\ Hands(AdapterExecutionPreflightReview(q, w, up), up, q)
         /\ Hands(AdapterTargetConnectivityReview(q, w, up), up, q)
         /\ Hands(AdapterCredentialHandoffReview(q, w, up), up, q)
         /\ Hands(AdapterCommandInvocationReview(q, w, up), up, q)
         /\ Hands(AdapterOutputEvidenceReview(q, w, up), up, q)
         /\ Hands(RetainedEvidenceExportReview(q, w, up), up, q)
         /\ Hands(MutatingAdapterBindingReview(q, w, up), up, q)
<1>1. Hands(AdapterLoadPlanReview(q, w, up), up, q)
  <2>1. /\ Faithful(Kw("controlled_uat_signoff_review", q, PSAE), q)
        /\ Faithful(Pos("adapter_allowlist_review", q, Scope), q)
        /\ Faithful(Kw("execution_adapter_contract", q, Phase), q)
        /\ Faithful(Kw("secret_audit_persistence_review", q, Phase), q)
        /\ Faithful(Bare("adapter_contracts"), q)
        /\ Faithful(Bare("provider_adapter_manifest"), q)
    BY CallFaithful, BareFaithful, EvidenceKept DEF Pos, Kw
  <2>2. \A part \in Carried(up[1], {"gates"}) : \E k \in 1..6 : part \in up[k].offers
    BY DEF Carried
  <2> QED BY <2>1, <2>2, Hands6, Zenon DEF AdapterLoadPlanReview, Stage, StageFrom
<1>2. Hands(AdapterPackageProvenanceReview(q, w, up), up, q)
  <2>1. /\ Faithful(Kw("adapter_load_plan_review", q, PSAE), q)
    BY CallFaithful, BareFaithful, EvidenceKept DEF Kw
  <2>2. \A part \in Carried(up[1], {"gates"}) : \E k \in 1..1 : part \in up[k].offers
    BY DEF Carried
  <2> QED BY <2>1, <2>2, Hands1, Zenon DEF AdapterPackageProvenanceReview, Stage, StageFrom
<1>3. Hands(AdapterSbomReview(q, w, up), up, q)
  <2>1. /\ Faithful(Kw("adapter_package_provenance_review", q, PSAE), q)
    BY CallFaithful, BareFaithful, EvidenceKept DEF Kw
  <2>2. \A part \in Carried(up[1], {"gates"}) : \E k \in 1..1 : part \in up[k].offers
    BY DEF Carried
  <2> QED BY <2>1, <2>2, Hands1, Zenon DEF AdapterSbomReview, Stage, StageFrom
<1>4. Hands(AdapterRuntimeIsolationReview(q, w, up), up, q)
  <2>1. /\ Faithful(Kw("adapter_sbom_review", q, PSAE), q)
    BY CallFaithful, BareFaithful, EvidenceKept DEF Kw
  <2>2. \A part \in Carried(up[1], {"gates"}) : \E k \in 1..1 : part \in up[k].offers
    BY DEF Carried
  <2> QED BY <2>1, <2>2, Hands1, Zenon DEF AdapterRuntimeIsolationReview, Stage, StageFrom
<1>5. Hands(AdapterRuntimeAdmissionReview(q, w, up), up, q)
  <2>1. /\ Faithful(Kw("adapter_runtime_isolation_review", q, PSAE), q)
    BY CallFaithful, BareFaithful, EvidenceKept DEF Kw
  <2>2. \A part \in Carried(up[1], {"gates"}) : \E k \in 1..1 : part \in up[k].offers
    BY DEF Carried
  <2> QED BY <2>1, <2>2, Hands1, Zenon DEF AdapterRuntimeAdmissionReview, Stage, StageFrom
<1>6. Hands(AdapterExecutionPreflightReview(q, w, up), up, q)
  <2>1. /\ Faithful(Kw("adapter_runtime_admission_review", q, PSAE), q)
    BY CallFaithful, BareFaithful, EvidenceKept DEF Kw
  <2>2. \A part \in Carried(up[1], {"gates"}) : \E k \in 1..1 : part \in up[k].offers
    BY DEF Carried
  <2> QED BY <2>1, <2>2, Hands1, Zenon DEF AdapterExecutionPreflightReview, Stage, StageFrom
<1>7. Hands(AdapterTargetConnectivityReview(q, w, up), up, q)
  <2>1. /\ Faithful(Kw("adapter_execution_preflight_review", q, PSAE), q)
    BY CallFaithful, BareFaithful, EvidenceKept DEF Kw
  <2>2. \A part \in Carried(up[1], {"gates"}) : \E k \in 1..1 : part \in up[k].offers
    BY DEF Carried
  <2> QED BY <2>1, <2>2, Hands1, Zenon DEF AdapterTargetConnectivityReview, Stage, StageFrom
<1>8. Hands(AdapterCredentialHandoffReview(q, w, up), up, q)
  <2>1. /\ Faithful(Kw("adapter_target_connectivity_review", q, PSAE), q)
        /\ Faithful(Kw("secret_store_provider_contract_review", q, Phase), q)
    BY CallFaithful, BareFaithful, EvidenceKept DEF Kw
  <2>2. \A part \in Carried(up[1], {"gates"}) : \E k \in 1..2 : part \in up[k].offers
    BY DEF Carried
  <2> QED BY <2>1, <2>2, Hands2, Zenon DEF AdapterCredentialHandoffReview, StageFrom
<1>9. Hands(AdapterCommandInvocationReview(q, w, up), up, q)
  <2>1. /\ Faithful(Kw("adapter_credential_handoff_review", q, PSAE), q)
    BY CallFaithful, BareFaithful, EvidenceKept DEF Kw
  <2>2. \A part \in Carried(up[1], {"gates"}) : \E k \in 1..1 : part \in up[k].offers
    BY DEF Carried
  <2> QED BY <2>1, <2>2, Hands1, Zenon DEF AdapterCommandInvocationReview, Stage, StageFrom
<1>10. Hands(AdapterOutputEvidenceReview(q, w, up), up, q)
  <2>1. /\ Faithful(Mixed("adapter_command_invocation_review", q, PSAE), q)
    BY CallFaithful, BareFaithful, EvidenceKept DEF Mixed
  <2>2. \A part \in Carried(up[1], {"gates"}) : \E k \in 1..1 : part \in up[k].offers
    BY DEF Carried
  <2> QED BY <2>1, <2>2, Hands1, Zenon DEF AdapterOutputEvidenceReview, Stage, StageFrom
<1>11. Hands(RetainedEvidenceExportReview(q, w, up), up, q)
  <2>1. /\ Faithful(Pos("execution_retention_plan", q, Phase), q)
        /\ Faithful(Mixed("adapter_output_evidence_review", q, PSAE), q)
    BY CallFaithful, BareFaithful, EvidenceKept DEF Pos, Mixed
  <2>2. \A part \in Carried(up[2], {"gates"}) : \E k \in 1..2 : part \in up[k].offers
    BY DEF Carried
  <2> QED BY <2>1, <2>2, Hands2, Zenon DEF RetainedEvidenceExportReview, StageFrom
<1>12. Hands(MutatingAdapterBindingReview(q, w, up), up, q)
  <2>1. /\ Faithful(Kw("provider_operation_queue_admission_review", q, PAE), q)
        /\ Faithful(Kw("queue_persistence_admission_review", Inferred(q), PSAE), q)
        /\ Faithful(Kw("job_persistence_admission_review", Inferred(q), PSAE), q)
        /\ Faithful(Kw("adapter_activation_review", Inferred(q), SAE), q)
        /\ Faithful(Kw("adapter_allowlist_review", Inferred(q), Scope), q)
        /\ Faithful(Kw("adapter_runtime_admission_review", Inferred(q), PSAE), q)
        /\ Faithful(Kw("adapter_execution_preflight_review", Inferred(q), PSAE), q)
        /\ Faithful(Kw("adapter_target_connectivity_review", Inferred(q), PSAE), q)
        /\ Faithful(Kw("adapter_credential_handoff_review", Inferred(q), PSAE), q)
    BY CallFaithful, BareFaithful, EvidenceKept DEF Kw
  <2>2. \A part \in Carried(up[2], {"gates", "completion"}) \cup Carried(up[1], {"records"}) :
          \E k \in 1..9 : part \in up[k].offers
    BY DEF Carried
  <2> QED BY <2>1, <2>2, Hands9, Zenon DEF MutatingAdapterBindingReview
<1> QED
  BY <1>1, <1>2, <1>3, <1>4, <1>5, <1>6, <1>7, <1>8, <1>9, <1>10, <1>11, <1>12

\* The builders of NativeManifests whose reviews hand on nothing.
LEMMA ManifestsSilent ==
  ASSUME NEW q, NEW w, NEW up
  PROVE  /\ OffersNothing(Plan(q, w, up))
         /\ OffersNothing(ImageSourceManifest(q, w, up))
         /\ OffersNothing(NetworkManifest(q, w, up))
         /\ OffersNothing(SecretReferenceManifest(q, w, up))
         /\ OffersNothing(SecretResolutionPlan(q, w, up))
         /\ OffersNothing(SecretStoreBindingReview(q, w, up))
         /\ OffersNothing(SecretStoreProviderContractReview(q, w, up))
         /\ OffersNothing(SecretLeaseExecutionReview(q, w, up))
         /\ OffersNothing(SecretAuditPersistenceReview(q, w, up))
         /\ OffersNothing(ExecutionReadiness(q, w, up))
         /\ OffersNothing(ExecutionGraph(q, w, up))
         /\ OffersNothing(AdapterContracts(q, w, up))
         /\ OffersNothing(ProviderAdapterManifest(q, w, up))
         /\ OffersNothing(ClusterEvidencePacks(q, w, up))
         /\ OffersNothing(ProviderTopologyMatrix(q, w, up))
         /\ OffersNothing(ProviderOperationCatalog(q, w, up))
         /\ OffersNothing(ProviderOperationAdmissionReview(q, w, up))
         /\ OffersNothing(ProviderOperationQueuePlan(q, w, up))
         /\ OffersNothing(UatEvidenceAcceptanceReview(q, w, up))
         /\ OffersNothing(AdapterReadiness(q, w, up))
         /\ OffersNothing(ProviderPreflightManifest(q, w, up))
         /\ OffersNothing(DiscoveryContractManifest(q, w, up))
         /\ OffersNothing(DiscoveryReconciliationManifest(q, w, up))
         /\ OffersNothing(ImagingPlanManifest(q, w, up))
         /\ OffersNothing(ClusterFormationPlanManifest(q, w, up))
         /\ OffersNothing(PostCreateValidationManifest(q, w, up))
<1>1. OffersNothing(Plan(q, w, up))
  BY DEF OffersNothing, Plan, Return, Invalid, Result
<1>2. OffersNothing(ImageSourceManifest(q, w, up))
  BY SilentNothing, Zenon DEF ImageSourceManifest, Review, Blocked
<1>3. OffersNothing(NetworkManifest(q, w, up))
  BY SilentNothing, Zenon DEF NetworkManifest, Review, Blocked
<1>4. OffersNothing(SecretReferenceManifest(q, w, up))
  BY SilentNothing, Zenon DEF SecretReferenceManifest, Review, Blocked
<1>5. OffersNothing(SecretResolutionPlan(q, w, up))
  BY SilentNothing, Zenon DEF SecretResolutionPlan, Review, Blocked
<1>6. OffersNothing(SecretStoreBindingReview(q, w, up))
  BY SilentNothing, Zenon DEF SecretStoreBindingReview, Review, Blocked
<1>7. OffersNothing(SecretStoreProviderContractReview(q, w, up))
  BY SilentNothing, Zenon DEF SecretStoreProviderContractReview, Review, Blocked
<1>8. OffersNothing(SecretLeaseExecutionReview(q, w, up))
  BY SilentNothing, Zenon DEF SecretLeaseExecutionReview, Review, Blocked
<1>9. OffersNothing(SecretAuditPersistenceReview(q, w, up))
  BY SilentNothing, Zenon DEF SecretAuditPersistenceReview, Review, Blocked
<1>10. OffersNothing(ExecutionReadiness(q, w, up))
  BY SilentNothing, Zenon DEF ExecutionReadiness, Unguarded
<1>11. OffersNothing(ExecutionGraph(q, w, up))
  BY SilentNothing, Zenon DEF ExecutionGraph, Review
<1>12. OffersNothing(AdapterContracts(q, w, up))
  BY DEF OffersNothing, AdapterContracts, Return, Invalid, Result
<1>13. OffersNothing(ProviderAdapterManifest(q, w, up))
  BY DEF OffersNothing, ProviderAdapterManifest, Return, Invalid, Result
<1>14. OffersNothing(ClusterEvidencePacks(q, w, up))
  <2>1. CASE up[4].status = "valid"
    BY <2>1, SilentNothing, Zenon DEF ClusterEvidencePacks, Review
  <2>2. CASE up[4].status # "valid"
    BY <2>2, SilentNothing, Zenon DEF ClusterEvidencePacks, Review, Invalid
  <2> QED BY <2>1, <2>2
<1>15. OffersNothing(ProviderTopologyMatrix(q, w, up))
  BY SilentNothing, Zenon DEF ProviderTopologyMatrix, Review, Blocked
<1>16. OffersNothing(ProviderOperationCatalog(q, w, up))
  BY SilentNothing, Zenon DEF ProviderOperationCatalog, Review, Blocked
<1>17. OffersNothing(ProviderOperationAdmissionReview(q, w, up))
  BY SilentNothing, Zenon DEF ProviderOperationAdmissionReview, Review, Blocked
<1>18. OffersNothing(ProviderOperationQueuePlan(q, w, up))
  BY SilentNothing, Zenon DEF ProviderOperationQueuePlan, Blocked
<1>19. OffersNothing(UatEvidenceAcceptanceReview(q, w, up))
  BY SilentNothing, Zenon DEF UatEvidenceAcceptanceReview
<1>20. OffersNothing(AdapterReadiness(q, w, up))
  BY SilentNothing, Zenon DEF AdapterReadiness, Blocked
<1>21. OffersNothing(ProviderPreflightManifest(q, w, up))
  BY SilentNothing, Zenon DEF ProviderPreflightManifest, Review, Blocked
<1>22. OffersNothing(DiscoveryContractManifest(q, w, up))
  BY SilentNothing, Zenon DEF DiscoveryContractManifest, Review, Blocked
<1>23. OffersNothing(DiscoveryReconciliationManifest(q, w, up))
  BY SilentNothing, Zenon DEF DiscoveryReconciliationManifest, Review, Blocked
<1>24. OffersNothing(ImagingPlanManifest(q, w, up))
  BY SilentNothing, Zenon DEF ImagingPlanManifest, Review, Blocked
<1>25. OffersNothing(ClusterFormationPlanManifest(q, w, up))
  BY SilentNothing, Zenon DEF ClusterFormationPlanManifest, Review, Blocked
<1>26. OffersNothing(PostCreateValidationManifest(q, w, up))
  BY SilentNothing, Zenon DEF PostCreateValidationManifest, Review, Blocked
<1> QED
  BY <1>1, <1>2, <1>3, <1>4, <1>5, <1>6, <1>7, <1>8, <1>9, <1>10, <1>11, <1>12, <1>13,
     <1>14, <1>15, <1>16, <1>17, <1>18, <1>19, <1>20, <1>21, <1>22, <1>23, <1>24, <1>25,
     <1>26

\* The builders of NativeDeployment whose reviews hand on nothing.
LEMMA DeploymentSilent ==
  ASSUME NEW q, NEW w, NEW up
  PROVE  /\ OffersNothing(DeploymentPolicy(q, w, up))
         /\ OffersNothing(DeploymentWaveGateReview(q, w, up))
         /\ OffersNothing(DeploymentWaveRehearsalPlan(q, w, up))
         /\ OffersNothing(EvidencePackApprovalReview(q, w, up))
         /\ OffersNothing(DeploymentWaveAuthorizationReview(q, w, up))
         /\ OffersNothing(DeploymentWindowReservationReview(q, w, up))
         /\ OffersNothing(DeploymentSchedulerReview(q, w, up))
         /\ OffersNothing(DeploymentTypeSupportReview(q, w, up))
         /\ OffersNothing(ResumeCheckpoint(q, w, up))
         /\ OffersNothing(AdapterPromotionReview(q, w, up))
         /\ OffersNothing(UatChecklist(q, w, up))
         /\ OffersNothing(AdapterUatRehearsalPlan(q, w, up))
         /\ OffersNothing(AdapterActivationReview(q, w, up))
         /\ OffersNothing(AdapterEnablementReview(q, w, up))
         /\ OffersNothing(AdapterAllowlistReview(q, w, up))
<1>1. OffersNothing(DeploymentPolicy(q, w, up))
  BY SilentNothing, Zenon DEF DeploymentPolicy, Review, Blocked
<1>2. OffersNothing(DeploymentWaveGateReview(q, w, up))
  BY SilentNothing, Zenon DEF DeploymentWaveGateReview, Review, Blocked
<1>3. OffersNothing(DeploymentWaveRehearsalPlan(q, w, up))
  BY SilentNothing, Zenon DEF DeploymentWaveRehearsalPlan, Review, Blocked
<1>4. OffersNothing(EvidencePackApprovalReview(q, w, up))
  BY SilentNothing, Zenon DEF EvidencePackApprovalReview, Review, Blocked
<1>5. OffersNothing(DeploymentWaveAuthorizationReview(q, w, up))
  BY SilentNothing, Zenon DEF DeploymentWaveAuthorizationReview, Review, Blocked
<1>6. OffersNothing(DeploymentWindowReservationReview(q, w, up))
  BY SilentNothing, Zenon DEF DeploymentWindowReservationReview, Review, Blocked
<1>7. OffersNothing(DeploymentSchedulerReview(q, w, up))
  BY SilentNothing, Zenon DEF DeploymentSchedulerReview, Review, Blocked
<1>8. OffersNothing(DeploymentTypeSupportReview(q, w, up))
  BY SilentNothing, Zenon DEF DeploymentTypeSupportReview, Review, Blocked
<1>9. OffersNothing(ResumeCheckpoint(q, w, up))
  BY SilentNothing, Zenon DEF ResumeCheckpoint
<1>10. OffersNothing(AdapterPromotionReview(q, w, up))
  BY SilentNothing, Zenon DEF AdapterPromotionReview, Blocked
<1>11. OffersNothing(UatChecklist(q, w, up))
  BY SilentNothing, Zenon DEF UatChecklist, Review, Blocked
<1>12. OffersNothing(AdapterUatRehearsalPlan(q, w, up))
  BY SilentNothing, Zenon DEF AdapterUatRehearsalPlan, Review, Blocked
<1>13. OffersNothing(AdapterActivationReview(q, w, up))
  BY SilentNothing, Zenon DEF AdapterActivationReview, Review, Blocked
<1>14. OffersNothing(AdapterEnablementReview(q, w, up))
  BY SilentNothing, Zenon DEF AdapterEnablementReview, Review, Blocked
<1>15. OffersNothing(AdapterAllowlistReview(q, w, up))
  BY SilentNothing, Zenon DEF AdapterAllowlistReview, Review, Blocked
<1> QED
  BY <1>1, <1>2, <1>3, <1>4, <1>5, <1>6, <1>7, <1>8, <1>9, <1>10, <1>11, <1>12, <1>13,
     <1>14, <1>15

\* The builders of NativeExecution whose reviews hand on nothing.
LEMMA ExecutionSilent ==
  ASSUME NEW q, NEW w, NEW up
  PROVE  /\ OffersNothing(ApprovalBindingReview(q, w, up))
         /\ OffersNothing(DryRunExecutionLedger(q, w, up))
         /\ OffersNothing(ExecutionLockPlan(q, w, up))
         /\ OffersNothing(RecoveryPlan(q, w, up))
         /\ OffersNothing(JobStatePlan(q, w, up))
         /\ OffersNothing(RestartResumeReview(q, w, up))
         /\ OffersNothing(BackupRestoreReview(q, w, up))
         /\ OffersNothing(MutatingEnablementReview(q, w, up))
         /\ OffersNothing(ExecutionAuthorizationPersistenceAdmissionReview(q, w, up))
<1>1. OffersNothing(ApprovalBindingReview(q, w, up))
  BY SilentNothing, Zenon DEF ApprovalBindingReview, Review, Blocked
<1>2. OffersNothing(DryRunExecutionLedger(q, w, up))
  BY SilentNothing, Zenon DEF DryRunExecutionLedger, Review, Blocked
<1>3. OffersNothing(ExecutionLockPlan(q, w, up))
  BY SilentNothing, Zenon DEF ExecutionLockPlan, Review, Blocked
<1>4. OffersNothing(RecoveryPlan(q, w, up))
  BY SilentNothing, Zenon DEF RecoveryPlan, Review, Blocked
<1>5. OffersNothing(JobStatePlan(q, w, up))
  BY SilentNothing, Zenon DEF JobStatePlan, Review, Blocked
<1>6. OffersNothing(RestartResumeReview(q, w, up))
  BY SilentNothing, Zenon DEF RestartResumeReview, Blocked
<1>7. OffersNothing(BackupRestoreReview(q, w, up))
  BY SilentNothing, Zenon DEF BackupRestoreReview, Blocked
<1>8. OffersNothing(MutatingEnablementReview(q, w, up))
  BY SilentNothing, Zenon DEF MutatingEnablementReview, Review, Blocked
<1>9. OffersNothing(ExecutionAuthorizationPersistenceAdmissionReview(q, w, up))
  BY SilentNothing, Zenon DEF ExecutionAuthorizationPersistenceAdmissionReview, Review, Blocked
<1> QED
  BY <1>1, <1>2, <1>3, <1>4, <1>5, <1>6, <1>7, <1>8, <1>9

\* The builders of NativeUat whose reviews hand on nothing.
LEMMA UatSilent ==
  ASSUME NEW q, NEW w, NEW up
  PROVE  /\ OffersNothing(ControlledUatCompletionReview(q, w, up))
<1>1. OffersNothing(ControlledUatCompletionReview(q, w, up))
  BY SilentNothing, Zenon DEF ControlledUatCompletionReview, Unguarded
<1> QED
  BY <1>1

\* The packet itself hands on nothing.
LEMMA PacketSilent ==
  ASSUME NEW q, NEW w, NEW up
  PROVE  OffersNothing(ReviewPacketManifest(q, w, up))
BY SilentNothing, Zenon DEF ReviewPacketManifest, Review, Blocked

\* The builders that hand on what the reviews they ask for offer.
Carrying ==
  {"execution_adapter_contract", "execution_request_review",
   "execution_request_persistence_admission_review", "execution_permit_review",
   "execution_audit_plan", "execution_retention_plan", "execution_runner_readiness",
   "controlled_uat_entry_review", "controlled_uat_scope_review",
   "controlled_uat_runbook_review", "controlled_uat_security_review",
   "controlled_uat_operations_review", "controlled_uat_signoff_review",
   "adapter_load_plan_review", "adapter_package_provenance_review",
   "adapter_sbom_review", "adapter_runtime_isolation_review",
   "adapter_runtime_admission_review", "adapter_execution_preflight_review",
   "adapter_target_connectivity_review", "adapter_credential_handoff_review",
   "adapter_command_invocation_review", "adapter_output_evidence_review",
   "retained_evidence_export_review", "execution_submission_review",
   "execution_submission_persistence_admission_review", "queue_persistence_review",
   "queue_persistence_admission_review", "job_persistence_admission_review",
   "mutating_adapter_binding_review", "controlled_uat_lane_selection_review",
   "controlled_uat_lane_persistence_admission_review",
   "controlled_uat_hardware_reservation_review",
   "controlled_uat_reservation_persistence_admission_review",
   "controlled_uat_entry_issuance_review",
   "controlled_uat_entry_persistence_admission_review",
   "controlled_uat_start_readiness_review",
   "controlled_uat_start_persistence_admission_review",
   "controlled_uat_runner_admission_review",
   "controlled_uat_runner_persistence_admission_review",
   "controlled_uat_execution_authorization_review"}

\* The builders that offer something of their own.
Source == {"provider_operation_queue_admission_review", "execution_admission_review"}

\* What the builders of NativeManifests hand on, by their names.
LEMMA ManifestsOffers ==
  ASSUME NEW q, NEW w, NEW up, Legal(q), Counted(up)
  PROVE  /\ \A name \in {"plan", "image_source_manifest", "network_manifest",
                         "secret_reference_manifest",
                         "secret_resolution_plan",
                         "secret_store_binding_review",
                         "secret_store_provider_contract_review",
                         "secret_lease_execution_review",
                         "secret_audit_persistence_review",
                         "execution_readiness", "execution_graph",
                         "adapter_contracts",
                         "provider_adapter_manifest",
                         "cluster_evidence_packs",
                         "provider_topology_matrix",
                         "provider_operation_catalog",
                         "provider_operation_admission_review",
                         "provider_operation_queue_plan",
                         "uat_evidence_acceptance_review",
                         "adapter_readiness",
                         "provider_preflight_manifest",
                         "discovery_contract_manifest",
                         "discovery_reconciliation_manifest",
                         "imaging_plan_manifest",
                         "cluster_formation_plan_manifest",
                         "post_create_validation_manifest"} :
              OffersNothing(Build(name, q, w, up))
BY ManifestsBuilt, ManifestsSilent

\* What the builders of NativeDeployment hand on, by their names.
LEMMA DeploymentOffers ==
  ASSUME NEW q, NEW w, NEW up, Legal(q), Counted(up)
  PROVE  /\ \A name \in {"deployment_policy", "deployment_wave_gate_review",
                         "deployment_wave_rehearsal_plan",
                         "evidence_pack_approval_review",
                         "deployment_wave_authorization_review",
                         "deployment_window_reservation_review",
                         "deployment_scheduler_review",
                         "deployment_type_support_review",
                         "resume_checkpoint",
                         "adapter_promotion_review", "uat_checklist",
                         "adapter_uat_rehearsal_plan",
                         "adapter_activation_review",
                         "adapter_enablement_review",
                         "adapter_allowlist_review"} :
              OffersNothing(Build(name, q, w, up))
BY DeploymentBuilt, DeploymentSilent

\* What the builders of NativeExecution hand on, by their names.
LEMMA ExecutionOffers ==
  ASSUME NEW q, NEW w, NEW up, Legal(q), Counted(up)
  PROVE  /\ \A name \in {"execution_adapter_contract", "execution_request_review",
                         "execution_request_persistence_admission_review",
                         "execution_permit_review",
                         "execution_audit_plan",
                         "execution_retention_plan",
                         "execution_runner_readiness",
                         "execution_submission_review",
                         "execution_submission_persistence_admission_review",
                         "queue_persistence_review",
                         "queue_persistence_admission_review",
                         "job_persistence_admission_review"} :
              Hands(Build(name, q, w, up), up, q)
         /\ \A name \in {"approval_binding_review", "dry_run_execution_ledger",
                         "execution_lock_plan", "recovery_plan",
                         "job_state_plan", "restart_resume_review",
                         "backup_restore_review",
                         "mutating_enablement_review",
                         "execution_authorization_persistence_admission_review"} :
              OffersNothing(Build(name, q, w, up))
BY ExecutionBuilt, ExecutionHand, ExecutionSilent

\* What the builders of NativeUat hand on, by their names.
LEMMA UatOffers ==
  ASSUME NEW q, NEW w, NEW up, Legal(q), Counted(up)
  PROVE  /\ \A name \in {"controlled_uat_entry_review", "controlled_uat_scope_review",
                         "controlled_uat_runbook_review",
                         "controlled_uat_security_review",
                         "controlled_uat_operations_review",
                         "controlled_uat_signoff_review",
                         "controlled_uat_lane_selection_review",
                         "controlled_uat_lane_persistence_admission_review",
                         "controlled_uat_hardware_reservation_review",
                         "controlled_uat_reservation_persistence_admission_review",
                         "controlled_uat_entry_issuance_review",
                         "controlled_uat_entry_persistence_admission_review",
                         "controlled_uat_start_readiness_review",
                         "controlled_uat_start_persistence_admission_review",
                         "controlled_uat_runner_admission_review",
                         "controlled_uat_runner_persistence_admission_review",
                         "controlled_uat_execution_authorization_review"} :
              Hands(Build(name, q, w, up), up, q)
         /\ \A name \in {"controlled_uat_completion_review"} :
              OffersNothing(Build(name, q, w, up))
BY UatBuilt, UatHand, UatSilent

\* What the builders of NativeAdapters hand on, by their names.
LEMMA AdaptersOffers ==
  ASSUME NEW q, NEW w, NEW up, Legal(q), Counted(up)
  PROVE  /\ \A name \in {"adapter_load_plan_review", "adapter_package_provenance_review",
                         "adapter_sbom_review",
                         "adapter_runtime_isolation_review",
                         "adapter_runtime_admission_review",
                         "adapter_execution_preflight_review",
                         "adapter_target_connectivity_review",
                         "adapter_credential_handoff_review",
                         "adapter_command_invocation_review",
                         "adapter_output_evidence_review",
                         "retained_evidence_export_review",
                         "mutating_adapter_binding_review"} :
              Hands(Build(name, q, w, up), up, q)
BY AdaptersBuilt, AdaptersHand

\* A builder hands on what it is offered, has something to offer of its own, or
\* hands on nothing.
LEMMA Offering ==
  ASSUME NEW name \in Builders, NEW q, NEW w, NEW up, Legal(q), Counted(up)
  PROVE  \/ name \in Carrying /\ Hands(Build(name, q, w, up), up, q)
         \/ name \in Source
         \/ name \notin Carrying /\ OffersNothing(Build(name, q, w, up))
<1>1. CASE name \in Carrying
  <2>1. Hands(Build(name, q, w, up), up, q)
    BY <1>1, ExecutionOffers, UatOffers, AdaptersOffers, Zenon DEF Carrying
  <2> QED BY <1>1, <2>1
<1>2. CASE name \in Source
  BY <1>2
<1>3. CASE name \notin Carrying \cup Source
  <2>1. name \in {"plan", "image_source_manifest", "network_manifest", "secret_reference_manifest",
                  "secret_resolution_plan", "secret_store_binding_review",
                  "secret_store_provider_contract_review",
                  "secret_lease_execution_review", "secret_audit_persistence_review",
                  "execution_readiness", "execution_graph", "adapter_contracts",
                  "provider_adapter_manifest", "cluster_evidence_packs",
                  "provider_topology_matrix", "provider_operation_catalog",
                  "provider_operation_admission_review", "provider_operation_queue_plan",
                  "uat_evidence_acceptance_review", "adapter_readiness",
                  "provider_preflight_manifest", "discovery_contract_manifest",
                  "discovery_reconciliation_manifest", "imaging_plan_manifest",
                  "cluster_formation_plan_manifest", "post_create_validation_manifest",
                  "deployment_policy", "deployment_wave_gate_review",
                  "deployment_wave_rehearsal_plan", "evidence_pack_approval_review",
                  "deployment_wave_authorization_review",
                  "deployment_window_reservation_review", "deployment_scheduler_review",
                  "deployment_type_support_review", "resume_checkpoint",
                  "adapter_promotion_review", "uat_checklist",
                  "adapter_uat_rehearsal_plan", "adapter_activation_review",
                  "adapter_enablement_review", "adapter_allowlist_review",
                  "approval_binding_review", "dry_run_execution_ledger",
                  "execution_lock_plan", "recovery_plan", "job_state_plan",
                  "restart_resume_review", "backup_restore_review",
                  "mutating_enablement_review",
                  "execution_authorization_persistence_admission_review",
                  "controlled_uat_completion_review"}
                 \cup {"review_packet_manifest"}
    BY <1>3 DEF Carrying, Source, Builders, Depth
  <2>2. OffersNothing(Build(name, q, w, up))
    BY <2>1, ManifestsOffers, DeploymentOffers, ExecutionOffers, UatOffers, PacketBuilt,
       PacketSilent
  <2> QED BY <1>3, <2>2
<1> QED BY <1>1, <1>2, <1>3

(***************************************************************************)
(* Which review a builder asks for in which place.                         *)
(***************************************************************************)

\* When the builder asks for its k-th review, it asks for this one.
Places(outcome, up, k, call) == outcome.asks /\ Len(up) + 1 = k => outcome.call = call

\* A record is handed on from the review in the k-th place only.
RecordsAt(outcome, up, k) ==
  ~outcome.asks /\ "records" \in outcome.review.offers
    => k \in 1..Len(up) /\ "records" \in up[k].offers

\* A guarded builder hands a record on from where its own review has it.
LEMMA RecordsFrom ==
  ASSUME NEW up, Counted(up), NEW m, NEW of, NEW calls, NEW n \in Nat, Len(calls) = n,
         NEW status, NEW blocked, NEW offers, NEW k \in 1..n,
         "records" \in offers => "records" \in up[k].offers
  PROVE  RecordsAt(Guarded(up, m, of, calls, Result(status, blocked, offers)), up, k)
<1>1. PICK review : review = Result(status, blocked, offers)
  OBVIOUS
<1>2. review.offers = offers
  BY <1>1 DEF Result
<1>3. PICK outcome : outcome = Guarded(up, m, of, calls, review)
  OBVIOUS
<1>4. ASSUME ~outcome.asks, "records" \in outcome.review.offers
      PROVE  k \in 1..Len(up) /\ "records" \in up[k].offers
  <2>1. \/ outcome.review = Invalid
        \/ outcome.review = review /\ n <= Len(up)
    BY <1>3, <1>4, GuardedReturns DEF Counted
  <2>2. outcome.review = review /\ n <= Len(up)
    BY <1>4, <2>1, InvalidOffers
  <2> QED BY <1>2, <1>4, <2>2 DEF Counted
<1> QED BY <1>1, <1>3, <1>4 DEF RecordsAt

\* The places of 1 review.
LEMMA Places1 ==
  ASSUME NEW a, NEW up, Counted(up),
         NEW m, NEW of, NEW review
  PROVE  /\ Guarded(up, m, of, <<a>>, review).asks => Len(up) < 1
         /\ Places(Guarded(up, m, of, <<a>>, review), up, 1, a)
<1>1. PICK calls : calls = <<a>>
  OBVIOUS
<1>2. /\ Len(calls) = 1
      /\ calls[1] = a
  BY <1>1
<1>3. PICK outcome : outcome = Guarded(up, m, of, calls, review)
  OBVIOUS
<1>4. outcome.asks => \E j \in 1..1 : j = Len(up) + 1 /\ outcome.call = calls[j]
  BY <1>2, <1>3, GuardedAsks DEF Counted
<1>5. outcome.asks => Len(up) < 1
  BY <1>4 DEF Counted
<1>6. /\ Places(outcome, up, 1, a)
  BY <1>2, <1>4 DEF Places
<1> QED BY <1>1, <1>3, <1>5, <1>6

\* The places of 2 reviews.
LEMMA Places2 ==
  ASSUME NEW a, NEW b, NEW up, Counted(up),
         NEW m, NEW of, NEW review
  PROVE  /\ Guarded(up, m, of, <<a, b>>, review).asks => Len(up) < 2
         /\ Places(Guarded(up, m, of, <<a, b>>, review), up, 1, a)
         /\ Places(Guarded(up, m, of, <<a, b>>, review), up, 2, b)
<1>1. PICK calls : calls = <<a, b>>
  OBVIOUS
<1>2. /\ Len(calls) = 2
      /\ calls[1] = a /\ calls[2] = b
  BY <1>1
<1>3. PICK outcome : outcome = Guarded(up, m, of, calls, review)
  OBVIOUS
<1>4. outcome.asks => \E j \in 1..2 : j = Len(up) + 1 /\ outcome.call = calls[j]
  BY <1>2, <1>3, GuardedAsks DEF Counted
<1>5. outcome.asks => Len(up) < 2
  BY <1>4 DEF Counted
<1>6. /\ Places(outcome, up, 1, a)
      /\ Places(outcome, up, 2, b)
  BY <1>2, <1>4 DEF Places
<1> QED BY <1>1, <1>3, <1>5, <1>6

\* The places of 4 reviews.
LEMMA Places4 ==
  ASSUME NEW a, NEW b, NEW c, NEW d, NEW up, Counted(up),
         NEW m, NEW of, NEW review
  PROVE  /\ Guarded(up, m, of, <<a, b, c, d>>, review).asks => Len(up) < 4
         /\ Places(Guarded(up, m, of, <<a, b, c, d>>, review), up, 1, a)
         /\ Places(Guarded(up, m, of, <<a, b, c, d>>, review), up, 2, b)
         /\ Places(Guarded(up, m, of, <<a, b, c, d>>, review), up, 3, c)
         /\ Places(Guarded(up, m, of, <<a, b, c, d>>, review), up, 4, d)
<1>1. PICK calls : calls = <<a, b, c, d>>
  OBVIOUS
<1>2. /\ Len(calls) = 4
      /\ calls[1] = a /\ calls[2] = b /\ calls[3] = c /\ calls[4] = d
  BY <1>1
<1>3. PICK outcome : outcome = Guarded(up, m, of, calls, review)
  OBVIOUS
<1>4. outcome.asks => \E j \in 1..4 : j = Len(up) + 1 /\ outcome.call = calls[j]
  BY <1>2, <1>3, GuardedAsks DEF Counted
<1>5. outcome.asks => Len(up) < 4
  BY <1>4 DEF Counted
<1>6. /\ Places(outcome, up, 1, a)
      /\ Places(outcome, up, 2, b)
      /\ Places(outcome, up, 3, c)
      /\ Places(outcome, up, 4, d)
  BY <1>2, <1>4 DEF Places
<1> QED BY <1>1, <1>3, <1>5, <1>6

\* The places of 5 reviews.
LEMMA Places5 ==
  ASSUME NEW a, NEW b, NEW c, NEW d, NEW e, NEW up, Counted(up),
         NEW m, NEW of, NEW review
  PROVE  /\ Guarded(up, m, of, <<a, b, c, d, e>>, review).asks => Len(up) < 5
         /\ Places(Guarded(up, m, of, <<a, b, c, d, e>>, review), up, 1, a)
         /\ Places(Guarded(up, m, of, <<a, b, c, d, e>>, review), up, 2, b)
         /\ Places(Guarded(up, m, of, <<a, b, c, d, e>>, review), up, 3, c)
         /\ Places(Guarded(up, m, of, <<a, b, c, d, e>>, review), up, 4, d)
         /\ Places(Guarded(up, m, of, <<a, b, c, d, e>>, review), up, 5, e)
<1>1. PICK calls : calls = <<a, b, c, d, e>>
  OBVIOUS
<1>2. /\ Len(calls) = 5
      /\ calls[1] = a /\ calls[2] = b /\ calls[3] = c /\ calls[4] = d /\ calls[5] = e
  BY <1>1
<1>3. PICK outcome : outcome = Guarded(up, m, of, calls, review)
  OBVIOUS
<1>4. outcome.asks => \E j \in 1..5 : j = Len(up) + 1 /\ outcome.call = calls[j]
  BY <1>2, <1>3, GuardedAsks DEF Counted
<1>5. outcome.asks => Len(up) < 5
  BY <1>4 DEF Counted
<1>6. /\ Places(outcome, up, 1, a)
      /\ Places(outcome, up, 2, b)
      /\ Places(outcome, up, 3, c)
      /\ Places(outcome, up, 4, d)
      /\ Places(outcome, up, 5, e)
  BY <1>2, <1>4 DEF Places
<1> QED BY <1>1, <1>3, <1>5, <1>6

\* The places of 6 reviews.
LEMMA Places6 ==
  ASSUME NEW a, NEW b, NEW c, NEW d, NEW e, NEW f, NEW up, Counted(up),
         NEW m, NEW of, NEW review
  PROVE  /\ Guarded(up, m, of, <<a, b, c, d, e, f>>, review).asks => Len(up) < 6
         /\ Places(Guarded(up, m, of, <<a, b, c, d, e, f>>, review), up, 1, a)
         /\ Places(Guarded(up, m, of, <<a, b, c, d, e, f>>, review), up, 2, b)
         /\ Places(Guarded(up, m, of, <<a, b, c, d, e, f>>, review), up, 3, c)
         /\ Places(Guarded(up, m, of, <<a, b, c, d, e, f>>, review), up, 4, d)
         /\ Places(Guarded(up, m, of, <<a, b, c, d, e, f>>, review), up, 5, e)
         /\ Places(Guarded(up, m, of, <<a, b, c, d, e, f>>, review), up, 6, f)
<1>1. PICK calls : calls = <<a, b, c, d, e, f>>
  OBVIOUS
<1>2. /\ Len(calls) = 6
      /\ calls[1] = a /\ calls[2] = b /\ calls[3] = c /\ calls[4] = d /\ calls[5] = e
      /\ calls[6] = f
  BY <1>1
<1>3. PICK outcome : outcome = Guarded(up, m, of, calls, review)
  OBVIOUS
<1>4. outcome.asks => \E j \in 1..6 : j = Len(up) + 1 /\ outcome.call = calls[j]
  BY <1>2, <1>3, GuardedAsks DEF Counted
<1>5. outcome.asks => Len(up) < 6
  BY <1>4 DEF Counted
<1>6. /\ Places(outcome, up, 1, a)
      /\ Places(outcome, up, 2, b)
      /\ Places(outcome, up, 3, c)
      /\ Places(outcome, up, 4, d)
      /\ Places(outcome, up, 5, e)
      /\ Places(outcome, up, 6, f)
  BY <1>2, <1>4 DEF Places
<1> QED BY <1>1, <1>3, <1>5, <1>6

\* The places of 8 reviews.
LEMMA Places8 ==
  ASSUME NEW a, NEW b, NEW c, NEW d, NEW e, NEW f, NEW g, NEW h, NEW up, Counted(up),
         NEW m, NEW of, NEW review
  PROVE  /\ Guarded(up, m, of, <<a, b, c, d, e, f, g, h>>, review).asks => Len(up) < 8
         /\ Places(Guarded(up, m, of, <<a, b, c, d, e, f, g, h>>, review), up, 1, a)
         /\ Places(Guarded(up, m, of, <<a, b, c, d, e, f, g, h>>, review), up, 2, b)
         /\ Places(Guarded(up, m, of, <<a, b, c, d, e, f, g, h>>, review), up, 3, c)
         /\ Places(Guarded(up, m, of, <<a, b, c, d, e, f, g, h>>, review), up, 4, d)
         /\ Places(Guarded(up, m, of, <<a, b, c, d, e, f, g, h>>, review), up, 5, e)
         /\ Places(Guarded(up, m, of, <<a, b, c, d, e, f, g, h>>, review), up, 6, f)
         /\ Places(Guarded(up, m, of, <<a, b, c, d, e, f, g, h>>, review), up, 7, g)
         /\ Places(Guarded(up, m, of, <<a, b, c, d, e, f, g, h>>, review), up, 8, h)
<1>1. PICK calls : calls = <<a, b, c, d, e, f, g, h>>
  OBVIOUS
<1>2. /\ Len(calls) = 8
      /\ calls[1] = a /\ calls[2] = b /\ calls[3] = c /\ calls[4] = d /\ calls[5] = e
      /\ calls[6] = f /\ calls[7] = g /\ calls[8] = h
  BY <1>1
<1>3. PICK outcome : outcome = Guarded(up, m, of, calls, review)
  OBVIOUS
<1>4. outcome.asks => \E j \in 1..8 : j = Len(up) + 1 /\ outcome.call = calls[j]
  BY <1>2, <1>3, GuardedAsks DEF Counted
<1>5. outcome.asks => Len(up) < 8
  BY <1>4 DEF Counted
<1>6. /\ Places(outcome, up, 1, a)
      /\ Places(outcome, up, 2, b)
      /\ Places(outcome, up, 3, c)
      /\ Places(outcome, up, 4, d)
      /\ Places(outcome, up, 5, e)
      /\ Places(outcome, up, 6, f)
      /\ Places(outcome, up, 7, g)
      /\ Places(outcome, up, 8, h)
  BY <1>2, <1>4 DEF Places
<1> QED BY <1>1, <1>3, <1>5, <1>6

\* A record among 1 review.
LEMMA Records1 ==
  ASSUME NEW a, NEW up, Counted(up),
         NEW m, NEW of, NEW status, NEW blocked, NEW offers, NEW place \in 1..1,
         "records" \in offers => "records" \in up[place].offers
  PROVE  RecordsAt(Guarded(up, m, of, <<a>>, Result(status, blocked, offers)), up, place)
<1>1. PICK calls : calls = <<a>>
  OBVIOUS
<1>2. Len(calls) = 1
  BY <1>1
<1> QED BY <1>1, <1>2, RecordsFrom

\* A record among 2 reviews.
LEMMA Records2 ==
  ASSUME NEW a, NEW b, NEW up, Counted(up),
         NEW m, NEW of, NEW status, NEW blocked, NEW offers, NEW place \in 1..2,
         "records" \in offers => "records" \in up[place].offers
  PROVE  RecordsAt(Guarded(up, m, of, <<a, b>>, Result(status, blocked, offers)), up, place)
<1>1. PICK calls : calls = <<a, b>>
  OBVIOUS
<1>2. Len(calls) = 2
  BY <1>1
<1> QED BY <1>1, <1>2, RecordsFrom

\* A record among 4 reviews.
LEMMA Records4 ==
  ASSUME NEW a, NEW b, NEW c, NEW d, NEW up, Counted(up),
         NEW m, NEW of, NEW status, NEW blocked, NEW offers, NEW place \in 1..4,
         "records" \in offers => "records" \in up[place].offers
  PROVE  RecordsAt(Guarded(up, m, of, <<a, b, c, d>>, Result(status, blocked, offers)), up, place)
<1>1. PICK calls : calls = <<a, b, c, d>>
  OBVIOUS
<1>2. Len(calls) = 4
  BY <1>1
<1> QED BY <1>1, <1>2, RecordsFrom

\* A record among 5 reviews.
LEMMA Records5 ==
  ASSUME NEW a, NEW b, NEW c, NEW d, NEW e, NEW up, Counted(up),
         NEW m, NEW of, NEW status, NEW blocked, NEW offers, NEW place \in 1..5,
         "records" \in offers => "records" \in up[place].offers
  PROVE  RecordsAt(Guarded(up, m, of, <<a, b, c, d, e>>,
                           Result(status, blocked, offers)), up, place)
<1>1. PICK calls : calls = <<a, b, c, d, e>>
  OBVIOUS
<1>2. Len(calls) = 5
  BY <1>1
<1> QED BY <1>1, <1>2, RecordsFrom

\* A record among 6 reviews.
LEMMA Records6 ==
  ASSUME NEW a, NEW b, NEW c, NEW d, NEW e, NEW f, NEW up, Counted(up),
         NEW m, NEW of, NEW status, NEW blocked, NEW offers, NEW place \in 1..6,
         "records" \in offers => "records" \in up[place].offers
  PROVE  RecordsAt(Guarded(up, m, of, <<a, b, c, d, e, f>>,
                           Result(status, blocked, offers)), up, place)
<1>1. PICK calls : calls = <<a, b, c, d, e, f>>
  OBVIOUS
<1>2. Len(calls) = 6
  BY <1>1
<1> QED BY <1>1, <1>2, RecordsFrom

\* What execution_permit_review asks for.
LEMMA ExecutionPermitReviewPlaces ==
  ASSUME NEW q, NEW w, NEW up, Counted(up)
  PROVE  /\ ExecutionPermitReview(q, w, up).asks => Len(up) < 8
         /\ Places(ExecutionPermitReview(q, w, up), up, 2,
                   Pos("execution_admission_review", q, PAE))
         /\ Places(ExecutionPermitReview(q, w, up), up, 8,
                   Binding(q))
<1>1. ExecutionPermitReview(q, w, up).asks => Len(up) < 8
  BY Places8, Zenon DEF ExecutionPermitReview, Review
<1>2. Places(ExecutionPermitReview(q, w, up), up, 2,
                   Pos("execution_admission_review", q, PAE))
  BY Places8, Zenon DEF ExecutionPermitReview, Review
<1>3. Places(ExecutionPermitReview(q, w, up), up, 8,
                   Binding(q))
  BY Places8, Zenon DEF ExecutionPermitReview, Review
<1> QED BY <1>1, <1>2, <1>3

\* What execution_admission_review asks for.
LEMMA ExecutionAdmissionReviewPlaces ==
  ASSUME NEW q, NEW w, NEW up, Counted(up)
  PROVE  /\ Places(ExecutionAdmissionReview(q, w, up), up, 1,
                   Bare("plan"))
         /\ Places(ExecutionAdmissionReview(q, w, up), up, 2,
                   Pos("execution_readiness", q, Phase))
         /\ Places(ExecutionAdmissionReview(q, w, up), up, 4,
                   Bare("deployment_policy"))
<1>1. PICK calls : calls = <<Bare("plan"),
                            Pos("execution_readiness", q, Phase),
                            Bare("adapter_readiness"),
                            Bare("deployment_policy"),
                            Binding(q),
                            Bare("execution_graph")>>
  OBVIOUS
<1>2. PICK review : ExecutionAdmissionReview(q, w, up) = Review(up, calls, review)
  BY <1>1, Zenon DEF ExecutionAdmissionReview
<1>3. /\ Len(calls) = 6
      /\ calls[1] = Bare("plan")
      /\ calls[2] = Pos("execution_readiness", q, Phase)
      /\ calls[4] = Bare("deployment_policy")
  BY <1>1
<1>4. PICK outcome : outcome = Review(up, calls, review)
  OBVIOUS
<1>5. outcome.asks => \E j \in 1..6 : j = Len(up) + 1 /\ outcome.call = calls[j]
  BY <1>3, <1>4, GuardedAsks DEF Review, Counted
<1>6. /\ Places(outcome, up, 1, calls[1])
      /\ Places(outcome, up, 2, calls[2])
      /\ Places(outcome, up, 4, calls[4])
  BY <1>5 DEF Places
<1> QED BY <1>2, <1>3, <1>4, <1>6, Zenon

\* What provider_operation_queue_admission_review asks for.
LEMMA ProviderOperationQueueAdmissionReviewPlaces ==
  ASSUME NEW q, NEW w, NEW up, Counted(up)
  PROVE  /\ Places(ProviderOperationQueueAdmissionReview(q, w, up), up, 1,
                   Bare("plan"))
BY Places2, Zenon DEF ProviderOperationQueueAdmissionReview

\* What controlled_uat_entry_issuance_review asks for.
LEMMA ControlledUatEntryIssuanceReviewPlaces ==
  ASSUME NEW q, NEW w, NEW up, Counted(up)
  PROVE  /\ Places(ControlledUatEntryIssuanceReview(q, w, up), up, 3,
                   CallIf(q.include_hardware_reservation,
                          Kw("controlled_uat_reservation_persistence_admission_review", Inferred(q), PSAE)))
<1>1. PICK calls : calls = <<Mixed("controlled_uat_entry_review", q, Reserved),
                            CallIf(q.include_hardware_reservation,
                                   Kw("controlled_uat_hardware_reservation_review", Inferred(q), PSAE)),
                            CallIf(q.include_hardware_reservation,
                                   Kw("controlled_uat_reservation_persistence_admission_review", Inferred(q), PSAE)),
                            Kw("controlled_uat_signoff_review", Inferred(q), PSAE),
                            Kw("uat_evidence_acceptance_review", Inferred(q), SAE)>>
  OBVIOUS
<1>2. PICK review : ControlledUatEntryIssuanceReview(q, w, up) = Review(up, calls, review)
  BY <1>1, Zenon DEF ControlledUatEntryIssuanceReview
<1>3. /\ Len(calls) = 5
      /\ calls[3] = CallIf(q.include_hardware_reservation,
                           Kw("controlled_uat_reservation_persistence_admission_review", Inferred(q), PSAE))
  BY <1>1
<1>4. PICK outcome : outcome = Review(up, calls, review)
  OBVIOUS
<1>5. outcome.asks => \E j \in 1..5 : j = Len(up) + 1 /\ outcome.call = calls[j]
  BY <1>3, <1>4, GuardedAsks DEF Review, Counted
<1>6. /\ Places(outcome, up, 3, calls[3])
  BY <1>5 DEF Places
<1> QED BY <1>2, <1>3, <1>4, <1>6, Zenon

\* What controlled_uat_entry_persistence_admission_review asks for.
LEMMA ControlledUatEntryPersistenceAdmissionReviewPlaces ==
  ASSUME NEW q, NEW w, NEW up, Counted(up)
  PROVE  /\ Places(ControlledUatEntryPersistenceAdmissionReview(q, w, up), up, 1,
                   Kw("controlled_uat_entry_issuance_review", q, Reserved))
BY Places4, Zenon DEF ControlledUatEntryPersistenceAdmissionReview, Review

\* What controlled_uat_start_readiness_review asks for.
LEMMA ControlledUatStartReadinessReviewPlaces ==
  ASSUME NEW q, NEW w, NEW up, Counted(up)
  PROVE  /\ Places(ControlledUatStartReadinessReview(q, w, up), up, 2,
                   Kw("controlled_uat_entry_persistence_admission_review", q, Reserved))
BY Places2, Zenon DEF ControlledUatStartReadinessReview, Review

\* What controlled_uat_start_persistence_admission_review asks for.
LEMMA ControlledUatStartPersistenceAdmissionReviewPlaces ==
  ASSUME NEW q, NEW w, NEW up, Counted(up)
  PROVE  /\ Places(ControlledUatStartPersistenceAdmissionReview(q, w, up), up, 1,
                   Kw("controlled_uat_start_readiness_review", q, Reserved))
BY Places1, Zenon DEF ControlledUatStartPersistenceAdmissionReview, Review

\* What controlled_uat_runner_admission_review asks for.
LEMMA ControlledUatRunnerAdmissionReviewPlaces ==
  ASSUME NEW q, NEW w, NEW up, Counted(up)
  PROVE  /\ Places(ControlledUatRunnerAdmissionReview(q, w, up), up, 1,
                   Kw("controlled_uat_start_persistence_admission_review", q, Reserved))
BY Places4, Zenon DEF ControlledUatRunnerAdmissionReview

\* What controlled_uat_runner_persistence_admission_review asks for.
LEMMA ControlledUatRunnerPersistenceAdmissionReviewPlaces ==
  ASSUME NEW q, NEW w, NEW up, Counted(up)
  PROVE  /\ Places(ControlledUatRunnerPersistenceAdmissionReview(q, w, up), up, 1,
                   Kw("controlled_uat_runner_admission_review", q, Reserved))
BY Places1, Zenon DEF ControlledUatRunnerPersistenceAdmissionReview, Review

\* What controlled_uat_execution_authorization_review asks for.
LEMMA ControlledUatExecutionAuthorizationReviewPlaces ==
  ASSUME NEW q, NEW w, NEW up, Counted(up)
  PROVE  /\ Places(ControlledUatExecutionAuthorizationReview(q, w, up), up, 1,
                   Kw("controlled_uat_runner_persistence_admission_review", q, Reserved))
BY Places6, Zenon DEF ControlledUatExecutionAuthorizationReview, Unguarded

\* Where controlled_uat_entry_issuance_review has its record.
LEMMA ControlledUatEntryIssuanceReviewRecords ==
  ASSUME NEW q, NEW w, NEW up, Counted(up)
  PROVE  RecordsAt(ControlledUatEntryIssuanceReview(q, w, up), up, 3)
<1>1. "records" \in Carry(up[1], up[3], up[3]) => "records" \in up[3].offers
  BY DEF Carry, Carried
<1>2. 3 \in 1..5
  OBVIOUS
<1> QED BY <1>1, <1>2, Records5, Zenon DEF ControlledUatEntryIssuanceReview, Review

\* Where controlled_uat_entry_persistence_admission_review has its record.
LEMMA ControlledUatEntryPersistenceAdmissionReviewRecords ==
  ASSUME NEW q, NEW w, NEW up, Counted(up)
  PROVE  RecordsAt(ControlledUatEntryPersistenceAdmissionReview(q, w, up), up, 1)
<1>1. "records" \in up[1].offers => "records" \in up[1].offers
  OBVIOUS
<1>2. 1 \in 1..4
  OBVIOUS
<1> QED BY <1>1, <1>2, Records4, Zenon DEF ControlledUatEntryPersistenceAdmissionReview, Review

\* Where controlled_uat_start_readiness_review has its record.
LEMMA ControlledUatStartReadinessReviewRecords ==
  ASSUME NEW q, NEW w, NEW up, Counted(up)
  PROVE  RecordsAt(ControlledUatStartReadinessReview(q, w, up), up, 2)
<1>1. "records" \in Carry(up[1], up[2], up[2]) => "records" \in up[2].offers
  BY DEF Carry, Carried
<1>2. 2 \in 1..2
  OBVIOUS
<1> QED BY <1>1, <1>2, Records2, Zenon DEF ControlledUatStartReadinessReview, Review

\* Where controlled_uat_start_persistence_admission_review has its record.
LEMMA ControlledUatStartPersistenceAdmissionReviewRecords ==
  ASSUME NEW q, NEW w, NEW up, Counted(up)
  PROVE  RecordsAt(ControlledUatStartPersistenceAdmissionReview(q, w, up), up, 1)
<1>1. "records" \in up[1].offers => "records" \in up[1].offers
  OBVIOUS
<1>2. 1 \in 1..1
  OBVIOUS
<1> QED BY <1>1, <1>2, Records1, Zenon DEF ControlledUatStartPersistenceAdmissionReview, Review

\* Where controlled_uat_runner_admission_review has its record.
LEMMA ControlledUatRunnerAdmissionReviewRecords ==
  ASSUME NEW q, NEW w, NEW up, Counted(up)
  PROVE  RecordsAt(ControlledUatRunnerAdmissionReview(q, w, up), up, 1)
<1>1. "records" \in GatesOf({up[1], up[3], up[4]}) \cup Carried(up[1], {"completion", "records"})
        => "records" \in up[1].offers
  BY DEF Carried, GatesOf, AnyOffers, OfferIf
<1>2. 1 \in 1..4
  OBVIOUS
<1> QED BY <1>1, <1>2, Records4, Zenon DEF ControlledUatRunnerAdmissionReview

\* Where controlled_uat_runner_persistence_admission_review has its record.
LEMMA ControlledUatRunnerPersistenceAdmissionReviewRecords ==
  ASSUME NEW q, NEW w, NEW up, Counted(up)
  PROVE  RecordsAt(ControlledUatRunnerPersistenceAdmissionReview(q, w, up), up, 1)
<1>1. "records" \in up[1].offers => "records" \in up[1].offers
  OBVIOUS
<1>2. 1 \in 1..1
  OBVIOUS
<1> QED BY <1>1, <1>2, Records1, Zenon DEF ControlledUatRunnerPersistenceAdmissionReview, Review

\* Where controlled_uat_execution_authorization_review has its record.
LEMMA ControlledUatExecutionAuthorizationReviewRecords ==
  ASSUME NEW q, NEW w, NEW up, Counted(up)
  PROVE  RecordsAt(ControlledUatExecutionAuthorizationReview(q, w, up), up, 1)
<1>1. "records" \in GatesOf({up[1], up[5], up[6]}) \cup Carried(up[1], {"completion", "records"})
        => "records" \in up[1].offers
  BY DEF Carried, GatesOf, AnyOffers, OfferIf
<1>2. 1 \in 1..6
  OBVIOUS
<1> QED BY <1>1, <1>2, Records6, Zenon DEF ControlledUatExecutionAuthorizationReview, Unguarded

\* The entry has no record to hand on.
LEMMA EntryRecords ==
  ASSUME NEW q, NEW w, NEW up, ~ControlledUatEntryReview(q, w, up).asks
  PROVE  "records" \notin ControlledUatEntryReview(q, w, up).review.offers
<1>1. PICK offers : offers = Carried(up[2], {"gates"})
  OBVIOUS
<1>2. PICK review : review = Result("blocked", {"controlled-uat-entry-disabled"}, offers)
  OBVIOUS
<1>3. \E calls : ControlledUatEntryReview(q, w, up) = Guarded(up, 1, {1}, calls, review)
  BY <1>1, <1>2, Zenon DEF ControlledUatEntryReview, Review
<1>4. PICK calls : ControlledUatEntryReview(q, w, up) = Guarded(up, 1, {1}, calls, review)
  BY <1>3
<1>5. "records" \notin review.offers
  BY <1>1, <1>2 DEF Result, Carried
<1>6. PICK outcome : outcome = Guarded(up, 1, {1}, calls, review)
  OBVIOUS
<1>7. ~outcome.asks => outcome.review \in {Invalid, review}
  BY <1>6 DEF Guarded, Return, Ask
<1> QED BY <1>4, <1>5, <1>6, <1>7, InvalidOffers

(***************************************************************************)
(* What one call asks of another.                                          *)
(***************************************************************************)

\* The builder of this call asks for that review in the k-th place.  What it asks
\* for does not depend on the facts.
AskedFor(call, k, asked) ==
  \E w, up : /\ Counted(up) /\ Len(up) + 1 = k
             /\ Build(call.name, ArgumentsOf(call), w, up).asks
             /\ Build(call.name, ArgumentsOf(call), w, up).call = asked

\* Where a builder that takes the hardware reservation has its record from.
RecordPlace ==
  [controlled_uat_entry_issuance_review |-> 3,
   controlled_uat_entry_persistence_admission_review |-> 1,
   controlled_uat_start_readiness_review |-> 2,
   controlled_uat_start_persistence_admission_review |-> 1,
   controlled_uat_runner_admission_review |-> 1,
   controlled_uat_runner_persistence_admission_review |-> 1,
   controlled_uat_execution_authorization_review |-> 1]

\* A call that passes the hardware reservation on as its caller has it, or that a
\* caller without one leaves out.
Reserves(asked, q) ==
  \/ asked = Nothing
  \/ q.include_hardware_reservation
  \/ /\ "include_hardware_reservation" \in DOMAIN asked.given
     /\ ArgumentsOf(asked).include_hardware_reservation = q.include_hardware_reservation

\* What a carrying builder asks for names its evidence or none.
LEMMA AskedFaithful ==
  ASSUME NEW call, WellFormed(call), call.name \in Carrying, NEW k, NEW asked,
         AskedFor(call, k, asked)
  PROVE  Faithful(asked, ArgumentsOf(call))
<1>1. PICK q : q = ArgumentsOf(call) /\ Legal(q)
  BY ArgumentsLegal
<1>2. PICK name \in Builders : name = call.name /\ name \in Carrying
  BY DEF WellFormed
<1>3. PICK w, up : /\ Counted(up)
                   /\ Build(name, q, w, up).asks
                   /\ Build(name, q, w, up).call = asked
  BY <1>1, <1>2 DEF AskedFor
<1>4. name \notin Source
  BY <1>2 DEF Carrying, Source
<1>5. Hands(Build(name, q, w, up), up, q)
  BY <1>1, <1>2, <1>3, <1>4, Offering
<1> QED BY <1>1, <1>3, <1>5 DEF Hands

\* What a place of a builder holds for the review that was asked for in it.
LEMMA AskedInPlace ==
  ASSUME NEW call, NEW k, NEW asked, AskedFor(call, k, asked), NEW wanted,
         \A w, up : Counted(up) => Places(Build(call.name, ArgumentsOf(call), w, up), up, k, wanted)
  PROVE  asked = wanted
BY DEF AskedFor, Places

\* The permit asks for the admission second and for the binding eighth and last.
LEMMA PermitAsked ==
  ASSUME NEW call, call.name = "execution_permit_review", NEW k, NEW asked, AskedFor(call, k, asked)
  PROVE  /\ k \in Nat /\ k <= 8
         /\ k = 2 => asked.name = "execution_admission_review"
         /\ k = 8 => asked = Binding(ArgumentsOf(call))
<1>1. PICK q : q = ArgumentsOf(call)
  OBVIOUS
<1>2. \A w, up : Build(call.name, q, w, up) = ExecutionPermitReview(q, w, up)
  BY ExecutionBuilt
<1>3. k \in Nat /\ k <= 8
  <2>1. PICK w, up : /\ Counted(up) /\ Len(up) + 1 = k
                     /\ ExecutionPermitReview(q, w, up).asks
    BY <1>1, <1>2 DEF AskedFor
  <2>2. Len(up) < 8
    BY <2>1, ExecutionPermitReviewPlaces
  <2> QED BY <2>1, <2>2 DEF Counted
<1>4. ASSUME k = 2 PROVE asked.name = "execution_admission_review"
  <2>1. PICK wanted : wanted = Pos("execution_admission_review", q, PAE)
    OBVIOUS
  <2>2. \A w, up : Counted(up) => Places(Build(call.name, q, w, up), up, k, wanted)
    BY <1>2, <1>4, <2>1, ExecutionPermitReviewPlaces
  <2>3. asked = wanted
    BY <1>1, <2>2, AskedInPlace
  <2> QED BY <2>1, <2>3 DEF Pos, CallOf
<1>5. ASSUME k = 8 PROVE asked = Binding(q)
  <2>2. \A w, up : Counted(up) => Places(Build(call.name, q, w, up), up, k, Binding(q))
    BY <1>2, <1>5, ExecutionPermitReviewPlaces
  <2> QED BY <1>1, <2>2, AskedInPlace
<1> QED BY <1>1, <1>3, <1>4, <1>5

\* The admission asks for the plan first, the readiness second and the policy fourth.
LEMMA AdmissionAsked ==
  ASSUME NEW call, call.name = "execution_admission_review", NEW k,
         NEW asked, AskedFor(call, k, asked)
  PROVE  /\ k = 1 => asked.name = "plan"
         /\ k = 2 => asked.name = "execution_readiness"
         /\ k = 4 => asked.name = "deployment_policy"
<1>1. PICK q : q = ArgumentsOf(call)
  OBVIOUS
<1>2. \A w, up : Build(call.name, q, w, up) = ExecutionAdmissionReview(q, w, up)
  BY ExecutionBuilt
<1>3. /\ Bare("plan").name = "plan" /\ Bare("deployment_policy").name = "deployment_policy"
      /\ Pos("execution_readiness", q, Phase).name = "execution_readiness"
  BY DEF Bare, Pos, CallOf
<1>4. ASSUME k = 1 PROVE asked = Bare("plan")
  <2>1. \A w, up : Counted(up) => Places(Build(call.name, q, w, up), up, k, Bare("plan"))
    BY <1>2, <1>4, ExecutionAdmissionReviewPlaces
  <2> QED BY <1>1, <2>1, AskedInPlace
<1>5. ASSUME k = 2 PROVE asked = Pos("execution_readiness", q, Phase)
  <2>1. \A w, up : Counted(up) =>
          Places(Build(call.name, q, w, up), up, k, Pos("execution_readiness", q, Phase))
    BY <1>2, <1>5, ExecutionAdmissionReviewPlaces
  <2> QED BY <1>1, <2>1, AskedInPlace
<1>6. ASSUME k = 4 PROVE asked = Bare("deployment_policy")
  <2>1. \A w, up : Counted(up) => Places(Build(call.name, q, w, up),
                                         up, k, Bare("deployment_policy"))
    BY <1>2, <1>6, ExecutionAdmissionReviewPlaces
  <2> QED BY <1>1, <2>1, AskedInPlace
<1> QED BY <1>3, <1>4, <1>5, <1>6

\* The admission to the queue of the provider asks for the plan first.
LEMMA QueueAdmissionAsked ==
  ASSUME NEW call, call.name = "provider_operation_queue_admission_review", NEW asked,
         AskedFor(call, 1, asked)
  PROVE  asked.name = "plan"
<1>1. PICK q : q = ArgumentsOf(call)
  OBVIOUS
<1>2. \A w, up : Build(call.name, q, w, up) = ProviderOperationQueueAdmissionReview(q, w, up)
  BY ManifestsBuilt
<1>3. \A w, up : Counted(up) => Places(Build(call.name, q, w, up), up, 1, Bare("plan"))
  BY <1>2, ProviderOperationQueueAdmissionReviewPlaces
<1>4. asked = Bare("plan")
  BY <1>1, <1>3, AskedInPlace
<1> QED BY <1>4 DEF Bare, CallOf

\* A call with all of Reserved, the hardware reservation among them, passes it on.
LEMMA ReservedPassed ==
  ASSUME NEW name, NEW style, NEW a, NEW q,
         a.include_hardware_reservation = q.include_hardware_reservation
  PROVE  Reserves(CallOf(name, style, a, Reserved), q)
<1>1. PICK b : b = ArgumentsOf(CallOf(name, style, a, Reserved))
  OBVIOUS
<1>2. b.include_hardware_reservation = a.include_hardware_reservation
  BY <1>1, FlagsGiven, GivenSets
<1>3. DOMAIN CallOf(name, style, a, Reserved).given = Reserved
  BY DEF CallOf
<1> QED BY <1>1, <1>2, <1>3, GivenSets DEF Reserves

\* In the place a builder has its record from, it asks for a review that has the
\* hardware reservation as the builder has it.
LEMMA AskedRecord ==
  ASSUME NEW call, call.name \in DOMAIN RecordPlace, NEW asked,
         AskedFor(call, RecordPlace[call.name], asked)
  PROVE  Reserves(asked, ArgumentsOf(call))
<1>1. PICK q : q = ArgumentsOf(call)
  OBVIOUS
<1>2. PICK name : name = call.name
  OBVIOUS
<1>3. name \in {"controlled_uat_entry_issuance_review",
                "controlled_uat_entry_persistence_admission_review",
                "controlled_uat_start_readiness_review",
                "controlled_uat_start_persistence_admission_review",
                "controlled_uat_runner_admission_review",
                "controlled_uat_runner_persistence_admission_review",
                "controlled_uat_execution_authorization_review"}
  BY <1>2 DEF RecordPlace
<1>4. ASSUME NEW k, RecordPlace[name] = k, NEW wanted,
             \A w, up : Counted(up) => Places(Build(name, q, w, up), up, k, wanted)
      PROVE  asked = wanted
  BY <1>1, <1>2, <1>4, AskedInPlace
<1>5. /\ RecordPlace["controlled_uat_entry_issuance_review"] = 3
      /\ RecordPlace["controlled_uat_entry_persistence_admission_review"] = 1
      /\ RecordPlace["controlled_uat_start_readiness_review"] = 2
      /\ RecordPlace["controlled_uat_start_persistence_admission_review"] = 1
      /\ RecordPlace["controlled_uat_runner_admission_review"] = 1
      /\ RecordPlace["controlled_uat_runner_persistence_admission_review"] = 1
      /\ RecordPlace["controlled_uat_execution_authorization_review"] = 1
  BY DEF RecordPlace
<1>6. \A source : Reserves(Kw(source, q, Reserved), q)
  BY ReservedPassed DEF Kw
<1>11. CASE name = "controlled_uat_entry_issuance_review"
  <2>1. PICK source : source = Kw("controlled_uat_reservation_persistence_admission_review",
                                  Inferred(q), PSAE)
    OBVIOUS
  <2>2. PICK wanted : wanted = CallIf(q.include_hardware_reservation, source)
    OBVIOUS
  <2>3. \A w, up : Counted(up) => Places(Build(name, q, w, up), up, 3, wanted)
    BY <1>11, <2>1, <2>2, UatBuilt, ControlledUatEntryIssuanceReviewPlaces
  <2>4. asked = wanted
    BY <1>4, <1>5, <1>11, <2>3
  <2> QED BY <1>1, <2>2, <2>4 DEF CallIf, Reserves
<1>12. CASE name = "controlled_uat_entry_persistence_admission_review"
  <2>1. PICK wanted : wanted = Kw("controlled_uat_entry_issuance_review", q, Reserved)
    OBVIOUS
  <2>2. \A w, up : Counted(up) => Places(Build(name, q, w, up), up, 1, wanted)
    BY <1>12, <2>1, UatBuilt, ControlledUatEntryPersistenceAdmissionReviewPlaces
  <2>3. asked = wanted
    BY <1>4, <1>5, <1>12, <2>2
  <2> QED BY <1>1, <1>6, <2>1, <2>3
<1>13. CASE name = "controlled_uat_start_readiness_review"
  <2>1. PICK wanted : wanted = Kw("controlled_uat_entry_persistence_admission_review", q, Reserved)
    OBVIOUS
  <2>2. \A w, up : Counted(up) => Places(Build(name, q, w, up), up, 2, wanted)
    BY <1>13, <2>1, UatBuilt, ControlledUatStartReadinessReviewPlaces
  <2>3. asked = wanted
    BY <1>4, <1>5, <1>13, <2>2
  <2> QED BY <1>1, <1>6, <2>1, <2>3
<1>14. CASE name = "controlled_uat_start_persistence_admission_review"
  <2>1. PICK wanted : wanted = Kw("controlled_uat_start_readiness_review", q, Reserved)
    OBVIOUS
  <2>2. \A w, up : Counted(up) => Places(Build(name, q, w, up), up, 1, wanted)
    BY <1>14, <2>1, UatBuilt, ControlledUatStartPersistenceAdmissionReviewPlaces
  <2>3. asked = wanted
    BY <1>4, <1>5, <1>14, <2>2
  <2> QED BY <1>1, <1>6, <2>1, <2>3
<1>15. CASE name = "controlled_uat_runner_admission_review"
  <2>1. PICK wanted : wanted = Kw("controlled_uat_start_persistence_admission_review", q, Reserved)
    OBVIOUS
  <2>2. \A w, up : Counted(up) => Places(Build(name, q, w, up), up, 1, wanted)
    BY <1>15, <2>1, UatBuilt, ControlledUatRunnerAdmissionReviewPlaces
  <2>3. asked = wanted
    BY <1>4, <1>5, <1>15, <2>2
  <2> QED BY <1>1, <1>6, <2>1, <2>3
<1>16. CASE name = "controlled_uat_runner_persistence_admission_review"
  <2>1. PICK wanted : wanted = Kw("controlled_uat_runner_admission_review", q, Reserved)
    OBVIOUS
  <2>2. \A w, up : Counted(up) => Places(Build(name, q, w, up), up, 1, wanted)
    BY <1>16, <2>1, UatBuilt, ControlledUatRunnerPersistenceAdmissionReviewPlaces
  <2>3. asked = wanted
    BY <1>4, <1>5, <1>16, <2>2
  <2> QED BY <1>1, <1>6, <2>1, <2>3
<1>17. CASE name = "controlled_uat_execution_authorization_review"
  <2>1. PICK wanted : wanted = Kw("controlled_uat_runner_persistence_admission_review", q, Reserved)
    OBVIOUS
  <2>2. \A w, up : Counted(up) => Places(Build(name, q, w, up), up, 1, wanted)
    BY <1>17, <2>1, UatBuilt, ControlledUatExecutionAuthorizationReviewPlaces
  <2>3. asked = wanted
    BY <1>4, <1>5, <1>17, <2>2
  <2> QED BY <1>1, <1>6, <2>1, <2>3
<1> QED BY <1>3, <1>11, <1>12, <1>13, <1>14, <1>15, <1>16, <1>17

\* What a builder that takes the hardware reservation hands on as a record it has
\* from that place.
LEMMA RecordsKept ==
  ASSUME NEW name \in Reserving, NEW q, NEW w, NEW up, Counted(up),
         ~Build(name, q, w, up).asks, "records" \in Build(name, q, w, up).review.offers
  PROVE  /\ name \in DOMAIN RecordPlace /\ RecordPlace[name] \in 1..Len(up)
         /\ "records" \in up[RecordPlace[name]].offers
<1>1. name # "controlled_uat_entry_review"
  BY UatBuilt, EntryRecords
<1>2. name \in DOMAIN RecordPlace
  BY <1>1 DEF RecordPlace, Reserving
<1>3. RecordsAt(Build(name, q, w, up), up, RecordPlace[name])
  BY <1>1, UatBuilt, ControlledUatEntryIssuanceReviewRecords,
     ControlledUatEntryPersistenceAdmissionReviewRecords,
     ControlledUatStartReadinessReviewRecords,
     ControlledUatStartPersistenceAdmissionReviewRecords,
     ControlledUatRunnerAdmissionReviewRecords,
     ControlledUatRunnerPersistenceAdmissionReviewRecords,
     ControlledUatExecutionAuthorizationReviewRecords
     DEF RecordPlace, Reserving
<1> QED BY <1>2, <1>3 DEF RecordsAt

(***************************************************************************)
(* What a review has a source for.                                         *)
(***************************************************************************)

\* Facts that nobody changes while a request is answered.
Lasting == {"intent-valid"} \cup ReadinessFacts \cup PolicyFacts

\* What a review hands on has a source.
Grounded(call, review, w) ==
  /\ review.offers # {} => "intent-valid" \in w /\ call # Nothing
  /\ {"gates", "completion", "auth"} \cap review.offers # {} => ArgumentsOf(call).evidence_id # ""
  /\ "records" \in review.offers /\ "include_hardware_reservation" \in DOMAIN call.given
       => ArgumentsOf(call).include_hardware_reservation

\* What a review that passes but for its switch has seen.
Seen(call, review, w) ==
  /\ call.name = "plan" /\ review.status # "invalid" => "intent-valid" \in w
  /\ call.name = "execution_readiness" /\ PassExcept(review, {"execution-adapter-enabled"})
       => ReadinessFacts \subseteq w
  /\ call.name = "deployment_policy" /\ PassExcept(review, {"execution-scheduling-disabled"})
       => PolicyFacts \subseteq w
  /\ call.name = "execution_admission_review" /\ PassExcept(review, {"execution-adapter-disabled"})
       => Lasting \subseteq w

Justified(call, review, w) == Grounded(call, review, w) /\ Seen(call, review, w)

\* Every review a builder has was asked for by its call, and is justified.
Supplied(call, up, w) ==
  \A k \in 1..Len(up) : \E asked : AskedFor(call, k, asked) /\ Justified(asked, up[k], w)

\* A review stays justified as long as the lasting facts stay.
LEMMA JustifiedStays ==
  ASSUME NEW call, NEW review, NEW w, NEW v, w \cap Lasting \subseteq v, Justified(call, review, w)
  PROVE  Justified(call, review, v)
<1>1. Grounded(call, review, v)
  BY DEF Justified, Grounded, Lasting
<1>2. Seen(call, review, v)
  BY DEF Justified, Seen, Lasting
<1> QED BY <1>1, <1>2 DEF Justified

\* A review that is left out is justified.
LEMMA AbsentJustified ==
  ASSUME NEW w
  PROVE  Justified(Nothing, Absent, w)
<1>1. Nothing.name = "nothing" /\ Absent.offers = {}
  BY DEF Nothing, Bare, CallOf, Absent, Result
<1> QED BY <1>1 DEF Justified, Grounded, Seen

\* What a carrying builder offers has a source in the reviews it has.
LEMMA CarryingGrounded ==
  ASSUME NEW call, WellFormed(call), call.name \in Carrying, NEW up, Counted(up), NEW w,
         Supplied(call, up, w), ~Build(call.name, ArgumentsOf(call), w, up).asks
  PROVE  Grounded(call, Build(call.name, ArgumentsOf(call), w, up).review, w)
<1>1. PICK q : q = ArgumentsOf(call) /\ Legal(q)
  BY ArgumentsLegal
<1>2. PICK name \in Builders : name = call.name /\ name \in Carrying /\ name \notin Source
  BY DEF WellFormed, Carrying, Source
<1>3. PICK outcome : outcome = Build(name, q, w, up)
  OBVIOUS
<1>4. Hands(outcome, up, q) /\ ~outcome.asks
  BY <1>1, <1>2, <1>3, Offering
<1>5. PICK review : review = outcome.review
  OBVIOUS
<1>6. ASSUME NEW part \in review.offers
      PROVE  /\ "intent-valid" \in w
             /\ part \in {"gates", "completion", "auth"} => q.evidence_id # ""
  <2>1. PICK k \in 1..Len(up) : part \in up[k].offers
    BY <1>4, <1>5, <1>6 DEF Hands
  <2>2. PICK asked : AskedFor(call, k, asked) /\ Justified(asked, up[k], w)
    BY <2>1 DEF Supplied
  <2>3. "intent-valid" \in w
    BY <2>1, <2>2 DEF Justified, Grounded
  <2>4. part \in {"gates", "completion", "auth"} => ArgumentsOf(asked).evidence_id # ""
    BY <2>1, <2>2 DEF Justified, Grounded
  <2>5. ArgumentsOf(asked).evidence_id \in {"", q.evidence_id}
    BY <1>1, <2>2, AskedFaithful DEF Carrying, Faithful
  <2> QED BY <2>3, <2>4, <2>5
<1>7. ASSUME "records" \in review.offers, "include_hardware_reservation" \in DOMAIN call.given
      PROVE  q.include_hardware_reservation
  <2>1. name \in Reserving
    BY <1>2, <1>7 DEF WellFormed
  <2>2. PICK k : k = RecordPlace[name]
    OBVIOUS
  <2>3. name \in DOMAIN RecordPlace /\ k \in 1..Len(up) /\ "records" \in up[k].offers
    BY <1>3, <1>4, <1>5, <1>7, <2>1, <2>2, RecordsKept
  <2>4. PICK asked : AskedFor(call, k, asked) /\ Justified(asked, up[k], w)
    BY <2>3 DEF Supplied
  <2>5. Reserves(asked, q)
    BY <1>1, <1>2, <2>2, <2>3, <2>4, AskedRecord
  <2>6. /\ asked # Nothing
        /\ "include_hardware_reservation" \in DOMAIN asked.given
             => ArgumentsOf(asked).include_hardware_reservation
    BY <2>3, <2>4 DEF Justified, Grounded
  <2> QED BY <2>5, <2>6 DEF Reserves
<1>8. call # Nothing
  <2>1. Nothing.name = "nothing"
    BY DEF Nothing, Bare, CallOf
  <2>2. "nothing" \notin Carrying
    BY DEF Carrying
  <2> QED BY <2>1, <2>2
<1>9. Grounded(call, review, w)
  <2>1. review.offers # {} => "intent-valid" \in w
    BY <1>6
  <2>2. {"gates", "completion", "auth"} \cap review.offers # {} => q.evidence_id # ""
    BY <1>6
  <2> QED BY <1>1, <1>7, <1>8, <2>1, <2>2 DEF Grounded
<1> QED BY <1>1, <1>2, <1>3, <1>5, <1>9

\* A builder that hands on nothing needs no source.
LEMMA SilentGrounded ==
  ASSUME NEW call, NEW review, review.offers = {}, NEW w
  PROVE  Grounded(call, review, w)
BY DEF Grounded

(***************************************************************************)
(* A builder whose reviews are justified answers with a justified review.  *)
(***************************************************************************)

\* Four reviews have something to see.
LEMMA SeenElsewhere ==
  ASSUME NEW call, NEW review, NEW w,
         call.name \notin {"plan", "execution_readiness", "deployment_policy",
                           "execution_admission_review"}
  PROVE  Seen(call, review, w)
BY DEF Seen

\* Outside the invalid review a builder that asks for a plan first has a valid one,
\* and so the intent is valid.
LEMMA PlanSeen ==
  ASSUME NEW call, NEW up, NEW w, Supplied(call, up, w), 1 \in 1..Len(up), up[1].status # "invalid",
         \A asked : AskedFor(call, 1, asked) => asked.name = "plan"
  PROVE  "intent-valid" \in w
<1>1. PICK asked : AskedFor(call, 1, asked) /\ Justified(asked, up[1], w)
  BY DEF Supplied
<1>2. asked.name = "plan"
  BY <1>1
<1> QED BY <1>1, <1>2 DEF Justified, Seen

\* The admission of an operation offers a record when the intent is valid.
LEMMA QueueAdmissionJustified ==
  ASSUME NEW call, WellFormed(call), call.name = "provider_operation_queue_admission_review",
         NEW up, Counted(up), NEW w, Supplied(call, up, w),
         ~Build(call.name, ArgumentsOf(call), w, up).asks
  PROVE  Justified(call, Build(call.name, ArgumentsOf(call), w, up).review, w)
<1>1. PICK q : q = ArgumentsOf(call)
  OBVIOUS
<1>2. PICK outcome : outcome = Build(call.name, q, w, up)
  OBVIOUS
<1>3. PICK calls : calls = <<Bare("plan"), Kw("provider_operation_queue_plan", q, PAE)>>
  OBVIOUS
<1>4. \E blocked : ProviderOperationQueueAdmissionReview(q, w, up) =
                     Guarded(up, 2, {1, 2}, calls, Result("blocked", blocked, {"records"}))
  BY <1>3, Zenon DEF ProviderOperationQueueAdmissionReview
<1>5. PICK own : outcome = Guarded(up, 2, {1, 2}, calls, own) /\ own.offers = {"records"}
  <2>1. PICK blocked : ProviderOperationQueueAdmissionReview(q, w, up) =
                         Guarded(up, 2, {1, 2}, calls, Result("blocked", blocked, {"records"}))
    BY <1>4
  <2>2. Result("blocked", blocked, {"records"}).offers = {"records"}
    BY DEF Result
  <2>3. outcome = ProviderOperationQueueAdmissionReview(q, w, up)
    BY <1>2, ManifestsBuilt
  <2> QED BY <2>1, <2>2, <2>3
<1>6. Len(calls) = 2 /\ ~outcome.asks
  BY <1>1, <1>2, <1>3
<1>7. \/ outcome.review = Invalid
      \/ /\ outcome.review = own /\ 2 <= Len(up)
         /\ Len(up) >= 2 => \A i \in {1, 2} : up[i].status # "invalid"
  BY <1>5, <1>6, GuardedReturns DEF Counted
<1>8. PICK review : review = outcome.review
  OBVIOUS
<1> SUFFICES Justified(call, review, w)
  BY <1>1, <1>2, <1>8
<1>9. Seen(call, review, w)
  BY SeenElsewhere
<1>10. CASE review = Invalid
  <2>1. review.offers = {}
    BY <1>10, InvalidOffers
  <2> QED BY <1>9, <2>1, SilentGrounded DEF Justified
<1>11. CASE review = own /\ 2 <= Len(up) /\ up[1].status # "invalid"
  <2>1. \A asked : AskedFor(call, 1, asked) => asked.name = "plan"
    BY QueueAdmissionAsked
  <2>2. 1 \in 1..Len(up)
    BY <1>11 DEF Counted
  <2>3. "intent-valid" \in w
    BY <1>11, <2>1, <2>2, PlanSeen
  <2>4. "include_hardware_reservation" \notin DOMAIN call.given /\ call # Nothing
    BY DEF WellFormed, Reserving, Nothing, Bare, CallOf
  <2>6. {"gates", "completion", "auth"} \cap review.offers = {}
    BY <1>5, <1>11
  <2>5. Grounded(call, review, w)
    BY <2>3, <2>4, <2>6 DEF Grounded
  <2> QED BY <1>9, <2>5 DEF Justified
<1>12. Len(up) \in Nat
  BY DEF Counted
<1> QED BY <1>7, <1>8, <1>10, <1>11, <1>12

\* What the admission offers, and what it does not pass for.
LEMMA AdmissionReturns ==
  ASSUME NEW q, NEW w, NEW up, Counted(up), NEW outcome,
         outcome = ExecutionAdmissionReview(q, w, up), ~outcome.asks, outcome.review # Invalid
  PROVE  /\ Len(up) >= 6 /\ up[1].status # "invalid"
         /\ outcome.review.offers \subseteq {"gates", "completion", "auth"}
         /\ outcome.review.offers # {} => q.evidence_id # ""
         /\ PassExcept(outcome.review, {"execution-adapter-disabled"})
              => /\ PassExcept(up[2], {"execution-adapter-enabled"})
                 /\ PassExcept(up[4], {"execution-scheduling-disabled"})
<1>1. PICK calls : calls = <<Bare("plan"), Pos("execution_readiness", q, Phase),
                             Bare("adapter_readiness"), Bare("deployment_policy"), Binding(q),
                             Bare("execution_graph")>>
  OBVIOUS
<1> DEFINE held(gate) == q.evidence_id # "" /\ gate \in w
           blocked == Unless(PassExcept(up[2], {"execution-adapter-enabled"}),
                             "execution-readiness-reviewed")
                      \cup Unless(PassExcept(up[3], {"approval-binding-required",
                                                     "execution-switch-disabled"}),
                                  "adapter-readiness-reviewed")
                      \cup Unless(PassExcept(up[4], {"execution-scheduling-disabled"}),
                                  "deployment-policy-reviewed")
                      \cup Unless(PassExcept(up[5], {"execution-still-disabled"}),
                                  "approval-binding-reviewed")
                      \cup {gate \in SummaryFacts : ~held(gate)}
                      \cup {"execution-adapter-disabled"}
           offers == OfferIf(held("review-packet-output-export-gates-reviewed"), "gates")
                     \cup OfferIf(held("review-packet-controlled-uat-completion-gate-reviewed"),
                                  "completion")
                     \cup OfferIf(held("review-packet-auth-persistence-completion-gate-reviewed"),
                                  "auth")
<1>2. ExecutionAdmissionReview(q, w, up) =
        Guarded(up, 1, {1}, calls, Result("blocked", blocked, offers))
  BY <1>1, Zenon DEF ExecutionAdmissionReview, Review
<1>3. /\ offers \subseteq {"gates", "completion", "auth"}
      /\ offers # {} => q.evidence_id # ""
  BY DEF OfferIf
<1>4. blocked \subseteq {"execution-adapter-disabled"}
        => /\ PassExcept(up[2], {"execution-adapter-enabled"})
           /\ PassExcept(up[4], {"execution-scheduling-disabled"})
  BY DEF Unless
<1> HIDE DEF blocked, offers
<1>9. PICK own : own = Result("blocked", blocked, offers)
  OBVIOUS
<1>5. own.blocked = blocked /\ own.offers = offers
  BY <1>9 DEF Result
<1>6. outcome = Guarded(up, 1, {1}, calls, own)
  BY <1>2, <1>9
<1>7. Len(calls) = 6
  BY <1>1
<1>8. /\ outcome.review = own /\ 6 <= Len(up)
      /\ Len(up) >= 1 => \A i \in {1} : up[i].status # "invalid"
  <2>1. Len(up) \in Nat /\ Len(calls) \in Nat /\ ~Guarded(up, 1, {1}, calls, own).asks
    BY <1>6, <1>7 DEF Counted
  <2>2. \/ outcome.review = Invalid
        \/ /\ outcome.review = own /\ Len(calls) <= Len(up)
           /\ Len(up) >= 1 => \A i \in {1} : up[i].status # "invalid"
    BY <1>6, <2>1 DEF Guarded, Return, Ask
  <2> QED BY <1>7, <2>2
<1>10. Len(up) \in Nat /\ up[1].status # "invalid"
  BY <1>8 DEF Counted
<1> QED BY <1>3, <1>4, <1>5, <1>8, <1>10 DEF PassExcept

\* The admission offers the gates of the evidence it is given when the intent is
\* valid, and passes but for its switch when the readiness and the policy do.
LEMMA AdmissionJustified ==
  ASSUME NEW call, WellFormed(call), call.name = "execution_admission_review",
         NEW up, Counted(up), NEW w, Supplied(call, up, w),
         ~Build(call.name, ArgumentsOf(call), w, up).asks
  PROVE  Justified(call, Build(call.name, ArgumentsOf(call), w, up).review, w)
<1>1. PICK q : q = ArgumentsOf(call)
  OBVIOUS
<1>2. PICK outcome : outcome = ExecutionAdmissionReview(q, w, up) /\ ~outcome.asks
                     /\ outcome = Build(call.name, q, w, up)
  BY <1>1, ExecutionBuilt
<1>3. PICK review : review = outcome.review
  OBVIOUS
<1> SUFFICES Justified(call, review, w)
  BY <1>1, <1>2, <1>3
<1>4. "include_hardware_reservation" \notin DOMAIN call.given /\ call # Nothing
  BY DEF WellFormed, Reserving, Nothing, Bare, CallOf
<1>5. CASE review = Invalid
  <2>1. ~PassExcept(review, {"execution-adapter-disabled"})
    BY <1>5, InvalidOffers DEF PassExcept
  <2>2. Seen(call, review, w)
    BY <2>1 DEF Seen
  <2>3. review.offers = {}
    BY <1>5, InvalidOffers
  <2> QED BY <2>2, <2>3, SilentGrounded DEF Justified
<1>6. CASE review # Invalid
  <2>1. /\ Len(up) >= 6 /\ up[1].status # "invalid"
        /\ review.offers \subseteq {"gates", "completion", "auth"}
        /\ review.offers # {} => q.evidence_id # ""
        /\ PassExcept(review, {"execution-adapter-disabled"})
             => /\ PassExcept(up[2], {"execution-adapter-enabled"})
                /\ PassExcept(up[4], {"execution-scheduling-disabled"})
    BY <1>2, <1>3, <1>6, AdmissionReturns
  <2>7. PICK n \in Nat : n = Len(up) /\ n >= 6
    BY <2>1 DEF Counted
  <2>2. 1 \in 1..Len(up) /\ 2 \in 1..Len(up) /\ 4 \in 1..Len(up)
    BY <2>7
  <2>3. "intent-valid" \in w
    <3>1. \A asked : AskedFor(call, 1, asked) => asked.name = "plan"
      BY AdmissionAsked
    <3> QED BY <2>1, <2>2, <3>1, PlanSeen
  <2>4. Grounded(call, review, w)
    BY <1>1, <1>4, <2>1, <2>3 DEF Grounded
  <2>5. ASSUME PassExcept(review, {"execution-adapter-disabled"})
        PROVE  Lasting \subseteq w
    <3>1. PICK readiness : AskedFor(call, 2, readiness) /\ Justified(readiness, up[2], w)
      BY <2>2 DEF Supplied
    <3>2. PICK policy : AskedFor(call, 4, policy) /\ Justified(policy, up[4], w)
      BY <2>2 DEF Supplied
    <3>3. readiness.name = "execution_readiness" /\ policy.name = "deployment_policy"
      BY <3>1, <3>2, AdmissionAsked
    <3>4. ReadinessFacts \subseteq w
      BY <2>1, <2>5, <3>1, <3>3 DEF Justified, Seen
    <3>5. PolicyFacts \subseteq w
      BY <2>1, <2>5, <3>2, <3>3 DEF Justified, Seen
    <3> QED BY <2>3, <3>4, <3>5 DEF Lasting
  <2>6. Seen(call, review, w)
    BY <2>5 DEF Seen
  <2> QED BY <2>4, <2>6 DEF Justified
<1> QED BY <1>5, <1>6

\* A guarded builder returns its own review or the invalid one.
LEMMA GuardedBlocked ==
  ASSUME NEW up, NEW m, NEW of, NEW calls, NEW status, NEW blocked, NEW offers, NEW outcome,
         outcome = Guarded(up, m, of, calls, Result(status, blocked, offers)), ~outcome.asks
  PROVE  outcome.review.blocked = {"valid"} \/ outcome.review.blocked = blocked
<1>1. PICK own : own = Result(status, blocked, offers)
  OBVIOUS
<1>2. own.blocked = blocked
  BY <1>1 DEF Result
<1>3. outcome = Guarded(up, m, of, calls, own)
  BY <1>1
<1>4. outcome.review \in {Invalid, own}
  BY <1>3 DEF Guarded, Return, Ask
<1> QED BY <1>2, <1>4, InvalidOffers

\* A plan that is not invalid is that of a valid intent.
LEMMA PlanSees ==
  ASSUME NEW call, call.name = "plan", NEW q, NEW w, NEW up
  PROVE  Seen(call, Plan(q, w, up).review, w)
<1>1. Plan(q, w, up).review.status # "invalid" => "intent-valid" \in w
  BY DEF Plan, Return, Invalid, Result
<1> QED BY <1>1 DEF Seen

\* A readiness that only its switch holds back has its evidence accepted.
LEMMA ReadinessSees ==
  ASSUME NEW call, call.name = "execution_readiness", NEW q, NEW w, NEW up,
         ~ExecutionReadiness(q, w, up).asks
  PROVE  Seen(call, ExecutionReadiness(q, w, up).review, w)
<1>1. PICK blocked : blocked = Unless(up[1].status = "valid", "plan-valid")
                               \cup (ReadinessFacts \ w)
                               \cup {"execution-adapter-enabled"}
  OBVIOUS
<1>2. \E calls, status, offers :
        ExecutionReadiness(q, w, up) = Guarded(up, 0, {}, calls, Result(status, blocked, offers))
  BY <1>1, Zenon DEF ExecutionReadiness, Unguarded
<1>3. \/ ExecutionReadiness(q, w, up).review.blocked = {"valid"}
      \/ ExecutionReadiness(q, w, up).review.blocked = blocked
  BY <1>2, GuardedBlocked
<1>4. "execution-adapter-enabled" \notin ReadinessFacts
  BY DEF ReadinessFacts
<1>5. PassExcept(ExecutionReadiness(q, w, up).review, {"execution-adapter-enabled"})
        => ReadinessFacts \subseteq w
  BY <1>1, <1>3, <1>4 DEF PassExcept
<1> QED BY <1>5 DEF Seen

\* A policy that only its switch holds back has everything the intent needs.
LEMMA PolicySees ==
  ASSUME NEW call, call.name = "deployment_policy", NEW q, NEW w, NEW up,
         ~DeploymentPolicy(q, w, up).asks
  PROVE  Seen(call, DeploymentPolicy(q, w, up).review, w)
<1>1. PICK blocked : blocked = (PolicyFacts \ w) \cup {"execution-scheduling-disabled"}
  OBVIOUS
<1>2. \E calls, status, offers :
        DeploymentPolicy(q, w, up) = Guarded(up, 1, {1}, calls, Result(status, blocked, offers))
  BY <1>1, Zenon DEF DeploymentPolicy, Review, Blocked
<1>3. \/ DeploymentPolicy(q, w, up).review.blocked = {"valid"}
      \/ DeploymentPolicy(q, w, up).review.blocked = blocked
  BY <1>2, GuardedBlocked
<1>4. "execution-scheduling-disabled" \notin PolicyFacts
  BY DEF PolicyFacts
<1>5. PassExcept(DeploymentPolicy(q, w, up).review, {"execution-scheduling-disabled"})
        => PolicyFacts \subseteq w
  BY <1>1, <1>3, <1>4 DEF PassExcept
<1> QED BY <1>5 DEF Seen

\* A builder whose reviews are justified returns a justified review.
LEMMA AnswerJustified ==
  ASSUME NEW call, WellFormed(call), NEW up, Counted(up), NEW w, Supplied(call, up, w),
         ~Build(call.name, ArgumentsOf(call), w, up).asks
  PROVE  Justified(call, Build(call.name, ArgumentsOf(call), w, up).review, w)
<1>1. PICK q : q = ArgumentsOf(call) /\ Legal(q)
  BY ArgumentsLegal
<1>2. PICK name \in Builders : name = call.name
  BY DEF WellFormed
<1>3. PICK outcome : outcome = Build(name, q, w, up) /\ ~outcome.asks
  BY <1>1, <1>2
<1>4. PICK review : review = outcome.review
  OBVIOUS
<1>5. CASE name \in Source
  <2>1. name = "execution_admission_review" \/ name = "provider_operation_queue_admission_review"
    BY <1>5 DEF Source
  <2> QED BY <1>2, <2>1, AdmissionJustified, QueueAdmissionJustified
<1>6. CASE name \in Carrying
  <2>1. Grounded(call, review, w)
    BY <1>1, <1>2, <1>3, <1>4, <1>6, CarryingGrounded
  <2>2. Seen(call, review, w)
    BY <1>2, <1>6, SeenElsewhere DEF Carrying
  <2> QED BY <1>1, <1>2, <1>3, <1>4, <2>1, <2>2 DEF Justified
<1>7. CASE name \notin Carrying \cup Source
  <2>1. OffersNothing(outcome)
    BY <1>1, <1>3, <1>7, Offering
  <2>2. Grounded(call, review, w)
    BY <1>3, <1>4, <2>1, SilentGrounded DEF OffersNothing
  <2>3. Seen(call, review, w)
    <3>1. CASE name = "plan"
      <4>1. outcome = Plan(q, w, up) /\ call.name = "plan"
        BY <1>2, <1>3, <3>1, ManifestsBuilt
      <4>2. ~Plan(q, w, up).asks
        BY <1>3, <4>1, Zenon
      <4>3. Seen(call, Plan(q, w, up).review, w)
        BY <4>1, <4>2, PlanSees
      <4> QED BY <1>4, <4>1, <4>3
    <3>2. CASE name = "execution_readiness"
      <4>1. outcome = ExecutionReadiness(q, w, up) /\ call.name = "execution_readiness"
        BY <1>2, <1>3, <3>2, ManifestsBuilt
      <4>2. ~ExecutionReadiness(q, w, up).asks
        BY <1>3, <4>1, Zenon
      <4>3. Seen(call, ExecutionReadiness(q, w, up).review, w)
        BY <4>1, <4>2, ReadinessSees
      <4> QED BY <1>4, <4>1, <4>3
    <3>3. CASE name = "deployment_policy"
      <4>1. outcome = DeploymentPolicy(q, w, up) /\ call.name = "deployment_policy"
        BY <1>2, <1>3, <3>3, DeploymentBuilt
      <4>2. ~DeploymentPolicy(q, w, up).asks
        BY <1>3, <4>1, Zenon
      <4>3. Seen(call, DeploymentPolicy(q, w, up).review, w)
        BY <4>1, <4>2, PolicySees
      <4> QED BY <1>4, <4>1, <4>3
    <3>4. CASE name \notin {"plan", "execution_readiness", "deployment_policy"}
      BY <1>2, <1>7, <3>4, SeenElsewhere DEF Source
    <3> QED BY <3>1, <3>2, <3>3, <3>4
  <2> QED BY <1>1, <1>2, <1>3, <1>4, <2>2, <2>3 DEF Justified
<1> QED BY <1>5, <1>6, <1>7

(***************************************************************************)
(* What the builders at work have a source for.                            *)
(***************************************************************************)

\* Every review a builder at work has is one it asked for, and justified.
SuppliedAll(frames, w) ==
  \A i \in 1..Len(frames) : Supplied(frames[i].call, frames[i].up, w)

\* Every builder at work but the first builds what the one below asked for.
Chained(frames) ==
  \A i \in 1..(Len(frames) - 1) :
    AskedFor(frames[i].call, Len(frames[i].up) + 1, frames[i + 1].call)

\* The cache keeps justified reviews, and never the approval binding.
Cached(kept, w) ==
  \A call \in DOMAIN kept : Memoised(call) /\ Justified(call, kept[call], w)

\* The builder at place n has seen an approval and an evidence that are good, both of
\* them named in the call.
Approved(call, n, seen) ==
  (\A record \in Records : n \in seen[record]) /\ BothIds(ArgumentsOf(call))

\* A permit that has its eighth review, the binding, has it from facts that were good
\* while it was under way.
Fresh(call, up, n, seen) ==
  /\ call.name = "execution_permit_review" /\ Len(up) = 8
  /\ PassExcept(up[8], {"execution-still-disabled"})
  => Approved(call, n, seen)

\* The review a permit is given as its eighth is such a binding.
BindingFresh(call, up, review, n, seen) ==
  /\ call.name = "execution_permit_review" /\ Len(up) + 1 = 8
  /\ PassExcept(review, {"execution-still-disabled"})
  => Approved(call, n, seen)

JustifiedInv ==
  /\ StackInv
  /\ SuppliedAll(stack, facts)
  /\ Chained(stack)
  /\ Cached(cache, facts)
  /\ ~Idle => Fresh(Current.call, Current.up, Len(stack), good)

\* A builder that starts has no review yet.
LEMMA SuppliedPush ==
  ASSUME NEW frames, Piled(frames), frames # <<>>, NEW w, SuppliedAll(frames, w), Chained(frames),
         NEW call, WellFormed(call), NEW pushed, pushed = Append(frames, Frame(call)),
         AskedFor(frames[Len(frames)].call, Len(frames[Len(frames)].up) + 1, call)
  PROVE  /\ SuppliedAll(pushed, w) /\ Chained(pushed)
         /\ \A seen : Fresh(pushed[Len(pushed)].call, pushed[Len(pushed)].up, Len(pushed), seen)
<1>1. /\ Len(pushed) = Len(frames) + 1
      /\ \A i \in 1..Len(frames) : pushed[i] = frames[i]
      /\ pushed[Len(frames) + 1] = Frame(call)
  BY Pushed
<1>2. PICK n \in Nat : n = Len(frames) /\ n > 0
  BY DEF Piled
<1>3. /\ Len(pushed) = n + 1 /\ \A i \in 1..n : pushed[i] = frames[i]
      /\ pushed[n + 1].call = call /\ pushed[n + 1].up = <<>>
  BY <1>1, <1>2 DEF Frame
<1>4. Supplied(call, <<>>, w)
  BY DEF Supplied
<1>5. SuppliedAll(pushed, w)
  <2> SUFFICES ASSUME NEW i \in 1..(n + 1) PROVE Supplied(pushed[i].call, pushed[i].up, w)
    BY <1>3 DEF SuppliedAll
  <2>1. CASE i \in 1..n
    BY <1>2, <1>3, <2>1 DEF SuppliedAll
  <2>2. CASE i = n + 1
    BY <1>3, <1>4, <2>2
  <2> QED BY <1>2, <2>1, <2>2
<1>6. Chained(pushed)
  <2> SUFFICES ASSUME NEW i \in 1..n
               PROVE  AskedFor(pushed[i].call, Len(pushed[i].up) + 1, pushed[i + 1].call)
    BY <1>2, <1>3 DEF Chained
  <2>1. pushed[i] = frames[i]
    BY <1>3
  <2>2. CASE i \in 1..(n - 1)
    <3>1. i + 1 \in 1..n
      BY <1>2, <2>2
    <3>2. pushed[i + 1] = frames[i + 1]
      BY <1>3, <3>1
    <3> QED BY <1>2, <2>1, <2>2, <3>2 DEF Chained
  <2>3. CASE i = n
    BY <1>2, <1>3, <2>1, <2>3
  <2> QED BY <1>2, <2>2, <2>3
<1>7. \A seen : Fresh(pushed[n + 1].call, pushed[n + 1].up, n + 1, seen)
  <2>1. Len(<<>>) # 8
    OBVIOUS
  <2> QED BY <1>3, <2>1 DEF Fresh
<1> QED BY <1>3, <1>5, <1>6, <1>7

\* A builder that is given a justified review it asked for.
LEMMA SuppliedGive ==
  ASSUME NEW frames, Piled(frames), NEW n \in Nat, Len(frames) = n, n > 0, NEW w,
         SuppliedAll(frames, w), Chained(frames),
         NEW asked, AskedFor(frames[n].call, Len(frames[n].up) + 1, asked),
         NEW review, Justified(asked, review, w),
         NEW seen, BindingFresh(frames[n].call, frames[n].up, review, n, seen),
         NEW given, Len(given) = n, given[n].up = Append(frames[n].up, review),
         \A i \in 1..n : given[i].call = frames[i].call,
         \A i \in 1..n : i # n => given[i].up = frames[i].up
  PROVE  /\ SuppliedAll(given, w) /\ Chained(given)
         /\ Fresh(given[n].call, given[n].up, n, seen)
<1>1. n \in 1..n
  OBVIOUS
<1>12. PICK call, up : call = frames[n].call /\ up = frames[n].up
  OBVIOUS
<1>13. AskedFor(call, Len(up) + 1, asked) /\ BindingFresh(call, up, review, n, seen)
  BY <1>12
<1>2. /\ Len(given) = n /\ given[n].up = Append(up, review)
      /\ \A i \in 1..n : given[i].call = frames[i].call
      /\ \A i \in 1..n : i # n => given[i].up = frames[i].up
  BY <1>12
<1>3. Obtained(up) /\ Supplied(call, up, w) /\ up = frames[n].up /\ call = frames[n].call
  <2>1. n \in 1..Len(frames)
    BY <1>1
  <2>2. Obtained(frames[n].up)
    BY <2>1 DEF Piled
  <2> QED BY <1>12, <2>1, <2>2 DEF SuppliedAll
<1>4. PICK grown : grown = Append(up, review)
  OBVIOUS
<1>5. /\ Counted(up) /\ Len(grown) = Len(up) + 1
      /\ \A k \in 1..Len(up) : grown[k] = up[k]
      /\ grown[Len(up) + 1] = review
  <2>1. Obtained(up)
    BY <1>3
  <2> QED BY <1>4, <2>1, ObtainedGrows
<1>6. PICK m \in Nat : m = Len(up)
  BY <1>5 DEF Counted
<1>7. given[n].call = call /\ given[n].up = grown
  BY <1>1, <1>2, <1>3, <1>4
<1>8. Supplied(call, grown, w)
  <2> SUFFICES ASSUME NEW k \in 1..(m + 1)
               PROVE  \E d : AskedFor(call, k, d) /\ Justified(d, grown[k], w)
    BY <1>5, <1>6 DEF Supplied
  <2>1. CASE k \in 1..m
    BY <1>3, <1>5, <1>6, <2>1 DEF Supplied
  <2>2. CASE k = m + 1
    BY <1>5, <1>6, <1>13, <2>2
  <2> QED BY <1>6, <2>1, <2>2
<1>9. SuppliedAll(given, w)
  <2> SUFFICES ASSUME NEW i \in 1..n PROVE Supplied(given[i].call, given[i].up, w)
    BY <1>2 DEF SuppliedAll
  <2>1. CASE i # n
    BY <1>1, <1>2, <2>1 DEF SuppliedAll
  <2>2. CASE i = n
    BY <1>7, <1>8, <2>2
  <2> QED BY <2>1, <2>2
<1>10. Chained(given)
  <2> SUFFICES ASSUME NEW i \in 1..(n - 1)
               PROVE  AskedFor(given[i].call, Len(given[i].up) + 1, given[i + 1].call)
    BY <1>2 DEF Chained
  <2>1. i \in 1..n /\ i # n /\ i + 1 \in 1..n
    BY <1>1
  <2>2. /\ given[i].call = frames[i].call /\ given[i].up = frames[i].up
        /\ given[i + 1].call = frames[i + 1].call
    BY <1>2, <2>1
  <2>3. AskedFor(frames[i].call, Len(frames[i].up) + 1, frames[i + 1].call)
    BY <1>1 DEF Chained
  <2> QED BY <2>2, <2>3
<1>11. Fresh(given[n].call, given[n].up, n, seen)
  <2>1. call.name = "execution_permit_review" /\ Len(grown) = 8
          /\ PassExcept(grown[8], {"execution-still-disabled"})
          => Approved(call, n, seen)
    <3>1. m + 1 = 8 => grown[8] = review
      BY <1>5, <1>6
    <3> QED BY <1>5, <1>6, <1>13, <3>1 DEF BindingFresh
  <2> QED BY <1>7, <2>1 DEF Fresh
<1> QED BY <1>2, <1>9, <1>10, <1>11

\* The builders that stay when the one on top leaves, the last of which waits for it.
LEMMA SuppliedPop ==
  ASSUME NEW frames, Piled(frames), NEW n \in Nat, n = Len(frames), n > 1, NEW w,
         SuppliedAll(frames, w), Chained(frames),
         NEW popped, Len(popped) = n - 1, \A i \in 1..(n - 1) : popped[i] = frames[i]
  PROVE  /\ SuppliedAll(popped, w) /\ Chained(popped)
         /\ AskedFor(popped[n - 1].call, Len(popped[n - 1].up) + 1, frames[n].call)
<1>1. SuppliedAll(popped, w)
  BY DEF SuppliedAll
<1>2. Chained(popped)
  <2> SUFFICES ASSUME NEW i \in 1..(n - 2)
               PROVE  AskedFor(popped[i].call, Len(popped[i].up) + 1, popped[i + 1].call)
    BY DEF Chained
  <2>1. i \in 1..(n - 1) /\ i + 1 \in 1..(n - 1)
    OBVIOUS
  <2>2. popped[i] = frames[i] /\ popped[i + 1] = frames[i + 1]
    BY <2>1
  <2> QED BY <2>1, <2>2 DEF Chained
<1>3. PICK m \in Nat : m = n - 1 /\ m \in 1..(n - 1) /\ m + 1 = n
  OBVIOUS
<1>4. AskedFor(frames[m].call, Len(frames[m].up) + 1, frames[m + 1].call)
  BY <1>3 DEF Chained
<1>5. popped[m] = frames[m]
  BY <1>3
<1> QED BY <1>1, <1>2, <1>3, <1>4, <1>5

(***************************************************************************)
(* Every step keeps what the builders at work have justified.              *)
(***************************************************************************)

\* A binding that only its switch holds back is of a good approval and evidence, both
\* of them named.
LEMMA BindingSees ==
  ASSUME NEW q, NEW w, NEW up, ~ApprovalBindingReview(q, w, up).asks,
         PassExcept(ApprovalBindingReview(q, w, up).review, {"execution-still-disabled"})
  PROVE  ApprovalFacts \cup EvidenceFacts \subseteq w /\ BothIds(q)
<1>1. PICK approval : approval = IF q.approval_id = "" THEN ApprovalFacts ELSE ApprovalFacts \ w
  OBVIOUS
<1>2. PICK evidence : evidence = IF q.evidence_id = "" THEN EvidenceFacts ELSE EvidenceFacts \ w
  OBVIOUS
<1>3. PICK blocked : blocked = approval \cup evidence \cup {"execution-still-disabled"}
  OBVIOUS
<1>4. \E calls, status, offers :
        ApprovalBindingReview(q, w, up) =
          Guarded(up, 1, {1}, calls, Result(status, blocked, offers))
  BY <1>1, <1>2, <1>3, Zenon DEF ApprovalBindingReview, Review, Blocked
<1>5. \/ ApprovalBindingReview(q, w, up).review.blocked = {"valid"}
      \/ ApprovalBindingReview(q, w, up).review.blocked = blocked
  BY <1>4, GuardedBlocked
<1>6. blocked \subseteq {"execution-still-disabled"}
  BY <1>5 DEF PassExcept
<1>7. /\ "execution-still-disabled" \notin ApprovalFacts \cup EvidenceFacts
      /\ ApprovalFacts # {} /\ EvidenceFacts # {}
  BY DEF ApprovalFacts, EvidenceFacts
<1>8. approval = {} /\ evidence = {}
  BY <1>1, <1>2, <1>3, <1>6, <1>7
<1>9. q.approval_id # "" /\ ApprovalFacts \subseteq w
  BY <1>1, <1>7, <1>8
<1>10. q.evidence_id # "" /\ EvidenceFacts \subseteq w
  BY <1>2, <1>7, <1>8
<1> QED BY <1>9, <1>10 DEF BothIds

\* The binding a permit asks for is not asked for, or that of its own identifiers.
LEMMA BindingAsked ==
  ASSUME NEW q, Binding(q) # Nothing
  PROVE  /\ Binding(q).name = "approval_binding_review"
         /\ BothIds(ArgumentsOf(Binding(q))) => BothIds(q)
<1>1. PICK call : call = Pos("approval_binding_review", q, AE) /\ Binding(q) = call
  BY DEF Binding, CallIf
<1>2. PICK b : b = ArgumentsOf(call)
  OBVIOUS
<1>3. {"approval_id", "evidence_id"} \subseteq DOMAIN Defaults
  BY DEF Defaults
<1>4. \A p \in DOMAIN Defaults : p \in AE => b[p] = q[p]
  BY <1>1, <1>2, ArgumentsGiven DEF Pos
<1>5. b.approval_id = q.approval_id /\ b.evidence_id = q.evidence_id
  BY <1>3, <1>4 DEF AE
<1>6. call.name = "approval_binding_review"
  BY <1>1 DEF Pos, CallOf
<1> QED BY <1>1, <1>2, <1>5, <1>6 DEF BothIds

\* No fact that changes during a request is a lasting one.
LEMMA ChangesPass ==
  /\ "approval-status-approved" \notin Lasting
  /\ (EvidenceFacts \cup SummaryFacts) \cap Lasting = {}
BY DEF Lasting, ReadinessFacts, PolicyFacts, EvidenceFacts, SummaryFacts

\* What is justified stays so when a record changes.
LEMMA SuppliedStays ==
  ASSUME NEW frames, Piled(frames), NEW kept, NEW w, NEW v, w \cap Lasting \subseteq v,
         SuppliedAll(frames, w), Cached(kept, w)
  PROVE  SuppliedAll(frames, v) /\ Cached(kept, v)
BY JustifiedStays DEF SuppliedAll, Supplied, Cached

\* The cache keeps one more review.
LEMMA CachedMore ==
  ASSUME NEW kept, NEW w, Cached(kept, w), NEW call, Memoised(call), NEW review,
         Justified(call, review, w)
  PROVE  Cached(Keep(kept, call, review), w)
<1>1. PICK more : more = Keep(kept, call, review)
  OBVIOUS
<1>2. \A d \in DOMAIN more : d = call \/ d \in DOMAIN kept
  BY <1>1 DEF Keep
<1>3. \A d \in DOMAIN more : more[d] = IF d = call THEN review ELSE kept[d]
  BY <1>1 DEF Keep
<1> QED BY <1>1, <1>2, <1>3 DEF Cached

\* The builder on top, with what it has.
LEMMA OnTop ==
  ASSUME JustifiedInv, ~Idle, NEW n, n = Len(stack), NEW call, call = Current.call,
         NEW up, up = Current.up
  PROVE  /\ n \in Nat /\ n > 0 /\ WellFormed(call) /\ Counted(up) /\ Supplied(call, up, facts)
         /\ call = stack[n].call /\ up = stack[n].up /\ Piled(stack) /\ stack # <<>>
<1>1. n \in Nat /\ n > 0 /\ Piled(stack) /\ stack # <<>>
  BY DEF JustifiedInv, StackInv, Piled, Idle
<1>2. n \in 1..Len(stack)
  BY <1>1
<1>3. call = stack[n].call /\ up = stack[n].up
  BY DEF Current
<1>4. WellFormed(call) /\ Obtained(up)
  BY <1>1, <1>2, <1>3 DEF Piled
<1>5. Supplied(call, up, facts)
  BY <1>2, <1>3 DEF JustifiedInv, SuppliedAll
<1> QED BY <1>1, <1>3, <1>4, <1>5, ObtainedCounted

\* What the builder on top asks for is what it asked for in that place.
LEMMA TopAsks ==
  ASSUME JustifiedInv, ~Idle, Outcome.asks
  PROVE  AskedFor(Current.call, Len(Current.up) + 1, Outcome.call)
<1>1. Counted(Current.up)
  BY OnTop
<1> QED BY <1>1 DEF Outcome, AskedFor

\* A builder that starts builds what the one below it waits for.
LEMMA CallJustifies ==
  ASSUME JustifiedInv, StackInv', Call
  PROVE  JustifiedInv'
<1>1. /\ ~Idle /\ Outcome.asks /\ Outcome.call # Nothing
      /\ stack' = Append(stack, Frame(Outcome.call)) /\ facts' = facts /\ cache' = cache
  BY DEF Call
<1>2. PICK n : n = Len(stack)
  OBVIOUS
<1>3. PICK call : call = Outcome.call
  OBVIOUS
<1>4. WellFormed(call)
  BY <1>1, <1>3, AskedIsLesser DEF JustifiedInv
<1>5. AskedFor(stack[n].call, Len(stack[n].up) + 1, call)
  BY <1>1, <1>2, <1>3, TopAsks DEF Current
<1>6. Piled(stack) /\ stack # <<>> /\ SuppliedAll(stack, facts) /\ Chained(stack)
  BY <1>1 DEF JustifiedInv, StackInv, Idle
<1>7. PICK pushed : pushed = Append(stack, Frame(call))
  OBVIOUS
<1>8. /\ SuppliedAll(pushed, facts) /\ Chained(pushed)
      /\ \A seen : Fresh(pushed[Len(pushed)].call, pushed[Len(pushed)].up, Len(pushed), seen)
  BY <1>2, <1>4, <1>5, <1>6, <1>7, SuppliedPush
<1>9. stack' = pushed
  BY <1>1, <1>3, <1>7
<1> QED BY <1>1, <1>8, <1>9 DEF JustifiedInv, Current

\* A review that was left out or is in the cache does not make a permit.
LEMMA ReusedBinding ==
  ASSUME JustifiedInv, Reuse, Current.call.name = "execution_permit_review",
         Len(Current.up) + 1 = 8,
         NEW review, review = IF Outcome.call = Nothing THEN Absent ELSE cache[Outcome.call]
  PROVE  ~PassExcept(review, {"execution-still-disabled"})
<1>1. ~Idle /\ Outcome.asks /\ (Outcome.call = Nothing \/ Outcome.call \in DOMAIN cache)
  BY DEF Reuse
<1>2. Outcome.call = Binding(ArgumentsOf(Current.call))
  BY <1>1, TopAsks, PermitAsked
<1>3. CASE Outcome.call = Nothing
  BY <1>3 DEF Absent, Result, PassExcept
<1>4. CASE Outcome.call # Nothing
  <2>1. Outcome.call.name = "approval_binding_review"
    BY <1>2, <1>4, BindingAsked
  <2>2. Memoised(Outcome.call)
    BY <1>1, <1>4 DEF JustifiedInv, Cached
  <2> QED BY <2>1, <2>2 DEF Memoised, Opens
<1> QED BY <1>3, <1>4

\* What is taken from the cache is justified.
LEMMA ReuseJustifies ==
  ASSUME JustifiedInv, StackInv', Reuse
  PROVE  JustifiedInv'
<1>1. PICK asked : asked = Outcome.call
  OBVIOUS
<1>2. PICK review : review = IF asked = Nothing THEN Absent ELSE cache[asked]
  OBVIOUS
<1>3. /\ ~Idle /\ Outcome.asks /\ (asked = Nothing \/ asked \in DOMAIN cache)
      /\ stack' = Give(stack, review)
      /\ facts' = facts /\ cache' = cache /\ good' = good
  BY <1>1, <1>2 DEF Reuse
<1>4. PICK n, call, up : n = Len(stack) /\ call = Current.call /\ up = Current.up
  OBVIOUS
<1>5. /\ n \in Nat /\ n > 0 /\ call = stack[n].call /\ up = stack[n].up
      /\ Piled(stack) /\ stack # <<>>
  BY <1>3, <1>4, OnTop
<1>6. AskedFor(call, Len(up) + 1, asked)
  BY <1>1, <1>3, <1>4, TopAsks
<1>7. Justified(asked, review, facts)
  BY <1>2, <1>3, AbsentJustified DEF JustifiedInv, Cached
<1>8. BindingFresh(call, up, review, n, good)
  BY <1>1, <1>2, <1>4, ReusedBinding DEF BindingFresh
<1>9. PICK given : given = Give(stack, review)
  OBVIOUS
<1>10. /\ Len(given) = n /\ given[n].up = Append(up, review)
       /\ \A i \in 1..n : given[i].call = stack[i].call
       /\ \A i \in 1..n : i # n => given[i].up = stack[i].up
  BY <1>4, <1>5, <1>9, GivenIs
<1>11. /\ SuppliedAll(given, facts) /\ Chained(given)
       /\ Fresh(given[n].call, given[n].up, n, good)
  <2>1. /\ SuppliedAll(stack, facts) /\ Chained(stack) /\ Piled(stack) /\ n \in Nat /\ n > 0
        /\ Len(stack) = n /\ Len(given) = n /\ Justified(asked, review, facts)
    BY <1>4, <1>5, <1>7, <1>10 DEF JustifiedInv
  <2>2. /\ AskedFor(stack[n].call, Len(stack[n].up) + 1, asked)
        /\ BindingFresh(stack[n].call, stack[n].up, review, n, good)
        /\ given[n].up = Append(stack[n].up, review)
    BY <1>5, <1>6, <1>8, <1>10
  <2> QED BY <1>10, <2>1, <2>2, SuppliedGive
<1>12. stack' = given
  BY <1>3, <1>9
<1> QED BY <1>3, <1>10, <1>11, <1>12 DEF JustifiedInv, Current

\* The approval binding a permit is given has just been read from the facts.
LEMMA AnsweredBinding ==
  ASSUME JustifiedInv, ~Idle, ~Outcome.asks, NEW call, NEW up,
         AskedFor(call, Len(up) + 1, Current.call),
         call.name = "execution_permit_review", Len(up) + 1 = 8,
         PassExcept(Outcome.review, {"execution-still-disabled"})
  PROVE  ApprovalFacts \cup EvidenceFacts \subseteq facts /\ BothIds(ArgumentsOf(call))
<1>1. PICK top : top = Current.call /\ WellFormed(top)
  BY OnTop
<1>2. PICK q : q = ArgumentsOf(call)
  OBVIOUS
<1>3. top = Binding(q)
  BY <1>1, <1>2, PermitAsked
<1>4. top # Nothing
  <2>1. Nothing.name = "nothing" /\ "nothing" \notin Builders
    BY DEF Nothing, Bare, CallOf, Builders, Depth
  <2> QED BY <1>1, <2>1 DEF WellFormed
<1>5. top.name = "approval_binding_review" /\ (BothIds(ArgumentsOf(top)) => BothIds(q))
  BY <1>3, <1>4, BindingAsked
<1>6. PICK b, obtained : b = ArgumentsOf(top) /\ obtained = Current.up
  OBVIOUS
<1>7. Outcome = ApprovalBindingReview(b, facts, obtained)
  BY <1>1, <1>5, <1>6, ExecutionBuilt DEF Outcome
<1>8. ApprovalFacts \cup EvidenceFacts \subseteq facts /\ BothIds(b)
  BY <1>7, BindingSees
<1> QED BY <1>2, <1>5, <1>6, <1>8

\* A permit that is under way while the approval and the evidence are good has seen
\* both.
LEMMA SeenNow ==
  ASSUME NEW frames, Piled(frames), NEW n \in 1..Len(frames),
         frames[n].call.name = "execution_permit_review", NEW w,
         ApprovalFacts \cup EvidenceFacts \subseteq w, NEW record \in Records
  PROVE  n \in GoodSince(frames, w)[record]
<1>1. n \in DOMAIN frames
  BY DEF Piled
<1>2. FactsOf(record) \subseteq w
  BY DEF FactsOf
<1> QED BY <1>1, <1>2 DEF GoodSince, Permit

\* What a permit that is still under way has seen, it has seen.
LEMMA SeenStays ==
  ASSUME NEW frames, Piled(frames), NEW n \in 1..Len(frames),
         frames[n].call.name = "execution_permit_review", NEW w,
         NEW record \in Records, n \in good[record]
  PROVE  n \in GoodSince(frames, w)[record]
<1>1. n \in DOMAIN frames
  BY DEF Piled
<1> QED BY <1>1 DEF GoodSince, Permit

\* What is answered is justified.
LEMMA AnswerKeeps ==
  ASSUME JustifiedInv, StackInv', Answer
  PROVE  JustifiedInv'
<1>1. ~Idle /\ ~Outcome.asks /\ facts' = facts /\ good' = GoodSince(stack', facts)
  BY DEF Answer
<1>2. PICK n, top, up : n = Len(stack) /\ top = Current.call /\ up = Current.up
  OBVIOUS
<1>3. /\ n \in Nat /\ n > 0 /\ WellFormed(top) /\ Counted(up) /\ Supplied(top, up, facts)
      /\ top = stack[n].call /\ Piled(stack) /\ stack # <<>>
  BY <1>1, <1>2, OnTop
<1>4. PICK review : review = Outcome.review
  OBVIOUS
<1>5. Justified(top, review, facts)
  <2>1. Outcome = Build(top.name, ArgumentsOf(top), facts, up)
    BY <1>2 DEF Outcome
  <2> QED BY <1>1, <1>3, <1>4, <2>1, AnswerJustified
<1>6. CASE n = 1
  <2>1. stack' = <<>> /\ cache' = NoReviews
    <3>1. 1..Len(stack) - 1 = {}
      BY <1>2, <1>6
    <3> QED BY <1>2, <1>6, <3>1 DEF Answer
  <2>2. SuppliedAll(<<>>, facts) /\ Chained(<<>>)
    BY DEF SuppliedAll, Chained
  <2>3. Cached(NoReviews, facts)
    BY DEF Cached, NoReviews
  <2>4. Idle'
    BY <2>1 DEF Idle
  <2> QED BY <1>1, <2>1, <2>2, <2>3, <2>4 DEF JustifiedInv
<1>7. CASE n # 1
  <2>1. /\ stack' = Give(SubSeq(stack, 1, Len(stack) - 1), review)
        /\ \/ cache' = NoReviews
           \/ cache' = IF Memoised(top) THEN Keep(cache, top, review) ELSE cache
    BY <1>2, <1>4, <1>7 DEF Answer
  <2>2. PICK popped : popped = SubSeq(stack, 1, Len(stack) - 1)
    OBVIOUS
  <2>3. /\ Piled(SubSeq(stack, 1, Len(stack) - 1))
        /\ Len(SubSeq(stack, 1, Len(stack) - 1)) = Len(stack) - 1
        /\ SubSeq(stack, 1, Len(stack) - 1) # <<>>
        /\ \A i \in 1..(Len(stack) - 1) : SubSeq(stack, 1, Len(stack) - 1)[i] = stack[i]
    BY <1>2, <1>3, <1>7, Popped
  <2>4. PICK m \in Nat : m = n - 1 /\ m > 0 /\ n = m + 1
    BY <1>3, <1>7
  <2>5. /\ Piled(popped) /\ popped # <<>> /\ Len(popped) = m
        /\ \A i \in 1..m : popped[i] = stack[i]
    BY <1>2, <2>2, <2>3, <2>4, Zenon
  <2>6. /\ SuppliedAll(popped, facts) /\ Chained(popped)
        /\ AskedFor(popped[m].call, Len(popped[m].up) + 1, top)
    <3>1. SuppliedAll(stack, facts) /\ Chained(stack) /\ n > 1 /\ n = Len(stack)
      BY <1>2, <2>4 DEF JustifiedInv
    <3> QED BY <1>3, <2>4, <2>5, <3>1, SuppliedPop
  <2>8. PICK given : given = Give(popped, review)
    OBVIOUS
  <2>9. /\ Len(given) = m /\ given[m].up = Append(popped[m].up, review)
        /\ \A i \in 1..m : given[i].call = popped[i].call
        /\ \A i \in 1..m : i # m => given[i].up = popped[i].up
    <3>1. Piled(popped) /\ popped # <<>> /\ Len(popped) = m
      BY <2>5
    <3>2. /\ Piled(Give(popped, review)) /\ Len(Give(popped, review)) = Len(popped)
          /\ \A i \in 1..Len(popped) : Give(popped, review)[i].call = popped[i].call
          /\ \A i \in 1..Len(popped) :
               i # Len(popped) => Give(popped, review)[i].up = popped[i].up
          /\ Give(popped, review)[Len(popped)].up = Append(popped[Len(popped)].up, review)
      BY <3>1, Given
    <3> QED BY <2>8, <3>1, <3>2, Zenon
  <2>11. stack' = given
    BY <2>1, <2>2, <2>8
  <2>7. BindingFresh(popped[m].call, popped[m].up, review, m, good')
    <3> SUFFICES ASSUME popped[m].call.name = "execution_permit_review",
                        Len(popped[m].up) + 1 = 8,
                        PassExcept(review, {"execution-still-disabled"})
                 PROVE  Approved(popped[m].call, m, good')
      BY DEF BindingFresh
    <3>1. ApprovalFacts \cup EvidenceFacts \subseteq facts
          /\ BothIds(ArgumentsOf(popped[m].call))
      BY <1>1, <1>2, <1>4, <2>6, AnsweredBinding
    <3>2. Piled(given) /\ m \in 1..Len(given) /\ given[m].call.name = "execution_permit_review"
      <4>1. Piled(given)
        BY <2>11 DEF StackInv
      <4> QED BY <2>4, <2>9, <4>1
    <3>3. \A record \in Records : m \in GoodSince(given, facts)[record]
      BY <3>1, <3>2, SeenNow
    <3>4. good' = GoodSince(given, facts)
      BY <1>1, <2>11
    <3> QED BY <3>1, <3>3, <3>4 DEF Approved
  <2>10. /\ SuppliedAll(given, facts) /\ Chained(given)
         /\ Fresh(given[m].call, given[m].up, m, good')
    <3>1. /\ Piled(popped) /\ m \in Nat /\ m > 0 /\ Len(popped) = m /\ Len(given) = m
          /\ SuppliedAll(popped, facts) /\ Chained(popped) /\ Justified(top, review, facts)
      BY <1>5, <2>4, <2>5, <2>6, <2>9
    <3>2. /\ AskedFor(popped[m].call, Len(popped[m].up) + 1, top)
          /\ BindingFresh(popped[m].call, popped[m].up, review, m, good')
          /\ given[m].up = Append(popped[m].up, review)
      BY <2>6, <2>7, <2>9
    <3> QED BY <2>9, <3>1, <3>2, SuppliedGive
  <2>12. Cached(cache', facts)
    <3>1. Cached(cache, facts)
      BY DEF JustifiedInv
    <3>4. Cached(NoReviews, facts)
      BY DEF Cached, NoReviews
    <3>2. CASE Memoised(top)
      <4>1. Cached(Keep(cache, top, review), facts)
        BY <1>5, <3>1, <3>2, CachedMore
      <4> QED BY <2>1, <3>2, <3>4, <4>1
    <3>3. CASE ~Memoised(top)
      BY <2>1, <3>1, <3>3, <3>4
    <3> QED BY <3>2, <3>3
  <2> QED BY <1>1, <2>9, <2>10, <2>11, <2>12 DEF JustifiedInv, Current
<1> QED BY <1>6, <1>7

\* A change of the approval or the evidence touches no lasting fact, and a permit that
\* has seen them good has seen them good before it.
LEMMA ChangeKeeps ==
  ASSUME JustifiedInv, StackInv', Decide \/ ImportOrDelete
  PROVE  JustifiedInv'
<1>1. PICK record : Change(record) /\ record \cap Lasting = {}
  BY ChangesPass DEF Decide, ImportOrDelete
<1>2. /\ ~Idle /\ stack' = stack /\ cache' = cache
      /\ facts' = IF record \subseteq facts THEN facts \ record ELSE facts \cup record
      /\ good' = GoodSince(stack', facts')
  BY <1>1 DEF Change
<1>3. facts \cap Lasting \subseteq facts'
  BY <1>1, <1>2
<1>4. PICK v : v = facts'
  OBVIOUS
<1>5. SuppliedAll(stack, v) /\ Cached(cache, v)
  BY <1>3, <1>4, SuppliedStays DEF JustifiedInv, StackInv
<1>6. PICK n, call, up : n = Len(stack) /\ call = Current.call /\ up = Current.up
  OBVIOUS
<1>7. Fresh(call, up, n, good')
  <2>1. Fresh(call, up, n, good)
    BY <1>2, <1>6 DEF JustifiedInv
  <2>2. n \in Nat /\ n > 0 /\ call = stack[n].call /\ Piled(stack)
    BY <1>2, <1>6, OnTop
  <2>3. ASSUME call.name = "execution_permit_review", NEW r \in Records, n \in good[r]
        PROVE  n \in good'[r]
    <3>1. n \in 1..Len(stack)
      BY <1>6, <2>2
    <3>2. n \in GoodSince(stack, v)[r]
      BY <2>2, <2>3, <3>1, SeenStays
    <3> QED BY <1>2, <1>4, <3>2
  <2> QED BY <2>1, <2>3 DEF Fresh, Approved
<1> QED BY <1>2, <1>4, <1>5, <1>6, <1>7 DEF JustifiedInv, Current

\* Every step keeps what the builders have, and what the cache keeps, justified.
LEMMA JustifiedKeeps ==
  ASSUME JustifiedInv, [Next]_vars
  PROVE  JustifiedInv'
<1>1. StackInv'
  BY StackKeeps DEF JustifiedInv
<1>2. ASSUME NEW request \in Requests, Request(request) PROVE JustifiedInv'
  <2>1. stack' = <<Frame(request.call)>> /\ cache' = NoReviews
    BY <1>2 DEF Request
  <2>10. PICK frame : frame = Frame(request.call)
    OBVIOUS
  <2>2. frame = Frame(request.call) /\ frame.up = <<>>
    BY <2>10 DEF Frame
  <2>3. stack' = <<frame>>
    BY <2>1, <2>2
  <2>4. Len(stack') = 1 /\ stack'[1] = frame
    BY <2>3
  <2>5. PICK v : v = facts'
    OBVIOUS
  <2>6. Supplied(frame.call, <<>>, v)
    BY DEF Supplied
  <2>7. SuppliedAll(stack', v) /\ Chained(stack')
    BY <2>2, <2>4, <2>6 DEF SuppliedAll, Chained
  <2>8. Cached(NoReviews, v)
    BY DEF Cached, NoReviews
  <2>9. \A seen : Fresh(frame.call, frame.up, 1, seen)
    <3>1. Len(<<>>) # 8
      OBVIOUS
    <3> QED BY <2>2, <3>1 DEF Fresh
  <2> QED BY <1>1, <2>1, <2>4, <2>5, <2>7, <2>8, <2>9 DEF JustifiedInv, Current
<1>3. CASE Call
  BY <1>1, <1>3, CallJustifies
<1>4. CASE Reuse
  BY <1>1, <1>4, ReuseJustifies
<1>5. CASE Answer
  BY <1>1, <1>5, AnswerKeeps
<1>6. CASE Decide \/ ImportOrDelete
  BY <1>1, <1>6, ChangeKeeps
<1>7. CASE UNCHANGED vars
  <2>1. stack' = stack /\ cache' = cache /\ facts' = facts /\ good' = good
    BY <1>7 DEF vars
  <2> QED BY <1>1, <2>1 DEF JustifiedInv, Idle, Current
<1> QED BY <1>2, <1>3, <1>4, <1>5, <1>6, <1>7 DEF Next

\* What the builders at work have is justified, in every state.
LEMMA JustifiedAlways == Spec => []JustifiedInv
<1>1. Init => JustifiedInv
  <2> SUFFICES ASSUME Init PROVE JustifiedInv
    OBVIOUS
  <2>1. stack = <<>> /\ cache = NoReviews /\ Idle
    BY DEF Init, Idle
  <2>2. StackInv
    BY <2>1 DEF StackInv, Piled, Falling
  <2>3. SuppliedAll(<<>>, facts) /\ Chained(<<>>)
    BY DEF SuppliedAll, Chained
  <2>4. Cached(NoReviews, facts)
    BY DEF Cached, NoReviews
  <2> QED BY <2>1, <2>2, <2>3, <2>4 DEF JustifiedInv
<1>2. JustifiedInv /\ [Next]_vars => JustifiedInv'
  BY JustifiedKeeps
<1> QED BY <1>1, <1>2, PTL DEF Spec

(***************************************************************************)
(* The permit and the offers.                                              *)
(***************************************************************************)

\* A permit that only its switch holds back has an admission and a binding that only
\* theirs hold back.
LEMMA PermitReturns ==
  ASSUME NEW q, NEW w, NEW up, Counted(up), NEW outcome,
         outcome = ExecutionPermitReview(q, w, up), ~outcome.asks,
         PassExcept(outcome.review, {"execution-permit-disabled"})
  PROVE  /\ Len(up) >= 8
         /\ PassExcept(up[2], {"execution-adapter-disabled"})
         /\ PassExcept(up[8], {"execution-still-disabled"})
<1>1. PICK calls : calls = <<Bare("plan"), Pos("execution_admission_review", q, PAE),
                             Pos("execution_request_review", q, PAE),
                             Kw("dry_run_execution_ledger", q, PAE),
                             Mixed("recovery_plan", q, PAE), Pos("job_state_plan", q, PAE),
                             Kw("adapter_enablement_review", q, AE), Binding(q)>>
  OBVIOUS
<1> DEFINE blocked == Unless(PassExcept(up[2], {"execution-adapter-disabled"}),
                             "admission-reviewed")
                      \cup Unless(PassExcept(up[3], {"job-submission-disabled"}),
                                  "execution-request-reviewed")
                      \cup Unless(PassExcept(up[4], {"adapter-execution-disabled"}),
                                  "dry-run-ledger-reviewed")
                      \cup Unoffered(up[3], "gates", "packet-gate-summary-bound")
                      \cup Unless(PassExcept(up[5], {"recovery-execution-disabled"}),
                                  "recovery-plan-reviewed")
                      \cup Unless(PassExcept(up[6], {"job-state-persistence-disabled"}),
                                  "job-state-reviewed")
                      \cup Unless(PassExcept(up[7], {"adapter-registry-mutation-disabled"}),
                                  "adapter-enablements-reviewed")
                      \cup Unless(PassExcept(up[8], {"execution-still-disabled"}),
                                  "approval-binding-reviewed")
                      \cup {"execution-permit-disabled"}
           offers == Carried(up[3], {"gates"})
<1>2. ExecutionPermitReview(q, w, up) =
        Guarded(up, 1, {1}, calls, Result("blocked", blocked, offers))
  BY <1>1, Zenon DEF ExecutionPermitReview, Review
<1>3. blocked \subseteq {"execution-permit-disabled"}
        => /\ PassExcept(up[2], {"execution-adapter-disabled"})
           /\ PassExcept(up[8], {"execution-still-disabled"})
  BY DEF Unless
<1> HIDE DEF blocked, offers
<1>4. PICK own : own = Result("blocked", blocked, offers)
  OBVIOUS
<1>5. own.blocked = blocked
  BY <1>4 DEF Result
<1>6. outcome = Guarded(up, 1, {1}, calls, own)
  BY <1>2, <1>4
<1>7. Len(calls) = 8
  BY <1>1
<1>8. outcome.review # Invalid
  BY InvalidOffers DEF PassExcept
<1>9. outcome.review = own /\ Len(calls) <= Len(up)
  <2>1. Len(up) \in Nat /\ Len(calls) \in Nat
    BY <1>7 DEF Counted
  <2> QED BY <1>6, <1>8, <2>1 DEF Guarded, Return, Ask
<1>10. blocked \subseteq {"execution-permit-disabled"}
  BY <1>5, <1>9 DEF PassExcept
<1>11. Len(up) \in Nat
  BY DEF Counted
<1> QED BY <1>3, <1>7, <1>9, <1>10, <1>11

\* What a builder that answers hands on is justified.
LEMMA AnswerGrounded ==
  ASSUME JustifiedInv, ~Idle, ~Outcome.asks
  PROVE  Grounded(Current.call, Outcome.review, facts)
<1>1. PICK call : call = Current.call
  OBVIOUS
<1>2. PICK up : up = Current.up
  OBVIOUS
<1>3. WellFormed(call) /\ Counted(up) /\ Supplied(call, up, facts)
  BY <1>1, <1>2, OnTop
<1>4. Outcome = Build(call.name, ArgumentsOf(call), facts, up)
  BY <1>1, <1>2 DEF Outcome
<1>5. Justified(call, Outcome.review, facts)
  BY <1>3, <1>4, AnswerJustified
<1> QED BY <1>1, <1>5 DEF Justified

\* A permit that only its switch holds back stands on the lasting facts, and has seen
\* the approval and the evidence good.
LEMMA PermitGrounded ==
  ASSUME JustifiedInv, Answering("execution_permit_review"),
         PassExcept(Outcome.review, {"execution-permit-disabled"})
  PROVE  Lasting \subseteq facts /\ Approved(Current.call, Len(stack), good)
<1>1. ~Idle /\ ~Outcome.asks /\ Current.call.name = "execution_permit_review"
  BY DEF Answering
<1>2. PICK call : call = Current.call
  OBVIOUS
<1>3. PICK up : up = Current.up
  OBVIOUS
<1>4. Counted(up) /\ Supplied(call, up, facts)
  BY <1>1, <1>2, <1>3, OnTop
<1>5. PICK q : q = ArgumentsOf(call)
  OBVIOUS
<1>6. Outcome = ExecutionPermitReview(q, facts, up)
  BY <1>1, <1>2, <1>3, <1>5, ExecutionBuilt DEF Outcome
<1>7. PICK outcome : outcome = Outcome
  OBVIOUS
<1>8. /\ Len(up) >= 8
      /\ PassExcept(up[2], {"execution-adapter-disabled"})
      /\ PassExcept(up[8], {"execution-still-disabled"})
  BY <1>1, <1>4, <1>6, <1>7, PermitReturns
<1>9. PICK n \in Nat : n = Len(up) /\ n >= 8
  BY <1>4, <1>8 DEF Counted
<1>10. n = 8
  <2>1. PICK asked : AskedFor(call, n, asked)
    BY <1>4, <1>9 DEF Supplied
  <2>2. n <= 8
    BY <1>1, <1>2, <2>1, PermitAsked
  <2> QED BY <1>9, <2>2
<1>11. Lasting \subseteq facts
  <2>1. PICK admission : AskedFor(call, 2, admission) /\ Justified(admission, up[2], facts)
    BY <1>4, <1>9 DEF Supplied
  <2>2. admission.name = "execution_admission_review"
    BY <1>1, <1>2, <2>1, PermitAsked
  <2> QED BY <1>8, <2>1, <2>2 DEF Justified, Seen
<1>12. Approved(call, Len(stack), good)
  <2>1. Fresh(call, up, Len(stack), good)
    BY <1>1, <1>2, <1>3 DEF JustifiedInv
  <2> QED BY <1>1, <1>2, <1>8, <1>9, <1>10, <2>1 DEF Fresh
<1> QED BY <1>2, <1>11, <1>12

\* The permit review answers that nothing but its own switch is missing only when the
\* readiness and the policy hold, the intent is valid, the request names an approval and
\* an evidence, and each of these was good at a moment since the permit was asked for,
\* however often they changed before, between and after their reads: the binding is the
\* last review the permit asks for and is not kept in the cache.
THEOREM PermitJustifiedHolds == Spec => []PermitJustified
<1>1. JustifiedInv => PermitJustified
  <2> SUFFICES ASSUME JustifiedInv, Answering(Permit),
                      PassExcept(Outcome.review, {"execution-permit-disabled"})
               PROVE  /\ {"intent-valid"} \cup ReadinessFacts \cup PolicyFacts \subseteq facts
                      /\ \A record \in Records : Len(stack) \in good[record]
                      /\ BothIds(ArgumentsOf(Current.call))
    BY DEF PermitJustified
  <2>1. Answering("execution_permit_review")
    BY DEF Permit
  <2> QED BY <2>1, PermitGrounded DEF Lasting, Approved
<1> QED BY <1>1, JustifiedAlways, PTL

\* A builder that returns a review hands on gates only when the intent is valid and the
\* evidence is named, and the record of an entry, a start, a runner or an authorization
\* only when it was asked to look at the hardware reservation, whatever the cache and the
\* builders below gave it.
THEOREM OffersJustifiedHolds == Spec => []OffersJustified
<1>1. JustifiedInv => OffersJustified
  <2> SUFFICES ASSUME JustifiedInv, ~Idle, ~Outcome.asks
               PROVE  LET q == ArgumentsOf(Current.call)
                          offers == Outcome.review.offers
                      IN  /\ offers # {} => "intent-valid" \in facts
                          /\ {"gates", "completion", "auth"} \cap offers # {}
                               => q.evidence_id # ""
                          /\ ("records" \in offers
                               /\ "include_hardware_reservation" \in DOMAIN Current.call.given)
                               => q.include_hardware_reservation
    BY DEF OffersJustified
  <2>1. Grounded(Current.call, Outcome.review, facts)
    BY AnswerGrounded
  <2> QED BY <2>1 DEF Grounded
<1> QED BY <1>1, JustifiedAlways, PTL
===============================================================================
