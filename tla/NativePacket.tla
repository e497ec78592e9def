---------------------------- MODULE NativePacket ----------------------------
(***************************************************************************)
(* How a native Foundation review is built: the packet, which asks every   *)
(* builder for its review, and the calls among the builders with the cache *)
(* that one request keeps.  A step is one call, one answer out of the cache *)
(* or one return.  Between two steps of a request other users may decide on *)
(* the approval it names or import and delete the evidence.                 *)
(***************************************************************************)
EXTENDS NativeManifests, NativeDeployment, NativeExecution, NativeUat, NativeAdapters

CONSTANTS Requests,     \* the requests: the builder asked for, its arguments and the facts
          MaxChanges    \* how often the approval or the evidence changes during a request

(***************************************************************************)
(* The packet, in the order in which it asks.                               *)
(***************************************************************************)
PlanningReviews(q) ==
  <<Bare("plan"), Pos("execution_readiness", [q EXCEPT !.phase = "imaging_only"], Phase),
    Bare("image_source_manifest"), Bare("network_manifest"),
    Bare("secret_reference_manifest"), Kw("secret_resolution_plan", q, Phase),
    Kw("secret_store_binding_review", q, Phase),
    Kw("secret_store_provider_contract_review", q, Phase),
    Kw("secret_lease_execution_review", q, Phase),
    Kw("secret_audit_persistence_review", q, Phase), Bare("provider_preflight_manifest"),
    Bare("discovery_contract_manifest"), Bare("discovery_reconciliation_manifest"),
    Bare("imaging_plan_manifest"), Bare("cluster_formation_plan_manifest"),
    Bare("post_create_validation_manifest"), Bare("execution_graph"),
    Bare("adapter_contracts"), Bare("provider_adapter_manifest"), Bare("adapter_readiness"),
    Bare("deployment_policy"), Kw("deployment_wave_gate_review", q, PAE),
    Kw("deployment_wave_rehearsal_plan", q, PAE), Bare("cluster_evidence_packs"),
    Kw("evidence_pack_approval_review", q, PAE),
    Kw("deployment_wave_authorization_review", q, PAE),
    Kw("deployment_window_reservation_review", q, PAE),
    Kw("deployment_scheduler_review", q, PAE), Kw("deployment_type_support_review", q, AE),
    Bare("provider_topology_matrix"), Bare("provider_operation_catalog"),
    Kw("provider_operation_admission_review", q, PAE),
    Kw("provider_operation_queue_plan", q, PAE),
    Kw("provider_operation_queue_admission_review", q, PAE), Bare("resume_checkpoint")>>

ExecutionReviews(q) ==
  <<Mixed("execution_admission_review", q, PAE),
    Mixed("execution_adapter_contract", q, PAE), Mixed("execution_request_review", q, PAE),
    Kw("execution_request_persistence_admission_review", q, PAE),
    Kw("dry_run_execution_ledger", q, PAE), Kw("execution_permit_review", q, PAE),
    Kw("execution_lock_plan", q, PAE), Kw("execution_audit_plan", q, PAE),
    Kw("execution_retention_plan", q, PAE), Kw("execution_runner_readiness", q, PAE),
    Kw("uat_evidence_acceptance_review", q, AE), Kw("controlled_uat_entry_review", q, PAE),
    Kw("controlled_uat_scope_review", q, PAE), Kw("controlled_uat_runbook_review", q, PAE),
    Kw("controlled_uat_security_review", q, PAE),
    Kw("controlled_uat_operations_review", q, PAE),
    Kw("controlled_uat_signoff_review", q, PAE), Kw("recovery_plan", q, PAE),
    Kw("job_state_plan", q, PAE), Kw("restart_resume_review", q, PAE),
    Kw("backup_restore_review", q, PAE), Kw("mutating_enablement_review", q, PAE),
    Kw("execution_submission_review", q, PAE),
    Kw("execution_submission_persistence_admission_review", q, PAE),
    Kw("queue_persistence_review", q, PAE),
    Kw("queue_persistence_admission_review", q, PAE),
    Kw("job_persistence_admission_review", q, PAE),
    Kw("mutating_adapter_binding_review", q, PAE)>>

AcceptanceReviews(q) ==
  <<Kw("controlled_uat_lane_selection_review", q, PAE),
    Kw("controlled_uat_lane_persistence_admission_review", q, PAE),
    Kw("controlled_uat_hardware_reservation_review", q, PAE),
    Kw("controlled_uat_reservation_persistence_admission_review", q, PAE),
    Kw("controlled_uat_entry_issuance_review", q, PAE),
    Kw("controlled_uat_entry_persistence_admission_review", q, PAE),
    Kw("controlled_uat_start_readiness_review", q, PAE),
    Kw("controlled_uat_start_persistence_admission_review", q, PAE),
    Kw("controlled_uat_runner_admission_review", q, PAE),
    Kw("controlled_uat_runner_persistence_admission_review", q, PAE),
    Kw("controlled_uat_execution_authorization_review", q, PAE),
    Kw("controlled_uat_completion_review", q, PAE),
    Kw("execution_authorization_persistence_admission_review", q, PAE)>>

AdapterReviews(q) ==
  <<Bare("adapter_uat_rehearsal_plan"), Bare("adapter_activation_review"),
    Bare("adapter_enablement_review"), Bare("adapter_allowlist_review"),
    Kw("adapter_load_plan_review", q, PAE), Kw("adapter_package_provenance_review", q, PAE),
    Kw("adapter_sbom_review", q, PAE), Kw("adapter_runtime_isolation_review", q, PAE),
    Kw("adapter_runtime_admission_review", q, PAE),
    Kw("adapter_execution_preflight_review", q, PAE),
    Kw("adapter_target_connectivity_review", q, PAE),
    Kw("adapter_credential_handoff_review", q, PAE),
    Kw("adapter_command_invocation_review", q, PAE),
    Kw("adapter_output_evidence_review", q, PAE),
    Kw("retained_evidence_export_review", q, PAE), Bare("uat_checklist"),
    Bare("adapter_promotion_review")>>

ReviewPacketManifest(q, w, up) ==
  Review(up, PlanningReviews(q) \o ExecutionReviews(q) \o AcceptanceReviews(q) \o AdapterReviews(q),
         Blocked({}))

Build(name, q, w, up) ==
  CASE name = "review_packet_manifest" -> ReviewPacketManifest(q, w, up)
    [] name = "plan" -> Plan(q, w, up)
    [] name = "image_source_manifest" -> ImageSourceManifest(q, w, up)
    [] name = "network_manifest" -> NetworkManifest(q, w, up)
    [] name = "secret_reference_manifest" -> SecretReferenceManifest(q, w, up)
    [] name = "secret_resolution_plan" -> SecretResolutionPlan(q, w, up)
    [] name = "secret_store_binding_review" -> SecretStoreBindingReview(q, w, up)
    [] name = "secret_store_provider_contract_review" -> SecretStoreProviderContractReview(q, w, up)
    [] name = "secret_lease_execution_review" -> SecretLeaseExecutionReview(q, w, up)
    [] name = "secret_audit_persistence_review" -> SecretAuditPersistenceReview(q, w, up)
    [] name = "execution_readiness" -> ExecutionReadiness(q, w, up)
    [] name = "execution_graph" -> ExecutionGraph(q, w, up)
    [] name = "adapter_contracts" -> AdapterContracts(q, w, up)
    [] name = "provider_adapter_manifest" -> ProviderAdapterManifest(q, w, up)
    [] name = "cluster_evidence_packs" -> ClusterEvidencePacks(q, w, up)
    [] name = "provider_topology_matrix" -> ProviderTopologyMatrix(q, w, up)
    [] name = "provider_operation_catalog" -> ProviderOperationCatalog(q, w, up)
    [] name = "provider_operation_admission_review" -> ProviderOperationAdmissionReview(q, w, up)
    [] name = "provider_operation_queue_plan" -> ProviderOperationQueuePlan(q, w, up)
    [] name = "provider_operation_queue_admission_review" -> ProviderOperationQueueAdmissionReview(q, w, up)
    [] name = "uat_evidence_acceptance_review" -> UatEvidenceAcceptanceReview(q, w, up)
    [] name = "adapter_readiness" -> AdapterReadiness(q, w, up)
    [] name = "provider_preflight_manifest" -> ProviderPreflightManifest(q, w, up)
    [] name = "discovery_contract_manifest" -> DiscoveryContractManifest(q, w, up)
    [] name = "discovery_reconciliation_manifest" -> DiscoveryReconciliationManifest(q, w, up)
    [] name = "imaging_plan_manifest" -> ImagingPlanManifest(q, w, up)
    [] name = "cluster_formation_plan_manifest" -> ClusterFormationPlanManifest(q, w, up)
    [] name = "post_create_validation_manifest" -> PostCreateValidationManifest(q, w, up)
    [] name = "deployment_policy" -> DeploymentPolicy(q, w, up)
    [] name = "deployment_wave_gate_review" -> DeploymentWaveGateReview(q, w, up)
    [] name = "deployment_wave_rehearsal_plan" -> DeploymentWaveRehearsalPlan(q, w, up)
    [] name = "evidence_pack_approval_review" -> EvidencePackApprovalReview(q, w, up)
    [] name = "deployment_wave_authorization_review" -> DeploymentWaveAuthorizationReview(q, w, up)
    [] name = "deployment_window_reservation_review" -> DeploymentWindowReservationReview(q, w, up)
    [] name = "deployment_scheduler_review" -> DeploymentSchedulerReview(q, w, up)
    [] name = "deployment_type_support_review" -> DeploymentTypeSupportReview(q, w, up)
    [] name = "resume_checkpoint" -> ResumeCheckpoint(q, w, up)
    [] name = "adapter_promotion_review" -> AdapterPromotionReview(q, w, up)
    [] name = "uat_checklist" -> UatChecklist(q, w, up)
    [] name = "adapter_uat_rehearsal_plan" -> AdapterUatRehearsalPlan(q, w, up)
    [] name = "adapter_activation_review" -> AdapterActivationReview(q, w, up)
    [] name = "adapter_enablement_review" -> AdapterEnablementReview(q, w, up)
    [] name = "adapter_allowlist_review" -> AdapterAllowlistReview(q, w, up)
    [] name = "approval_binding_review" -> ApprovalBindingReview(q, w, up)
    [] name = "execution_admission_review" -> ExecutionAdmissionReview(q, w, up)
    [] name = "execution_adapter_contract" -> ExecutionAdapterContract(q, w, up)
    [] name = "execution_request_review" -> ExecutionRequestReview(q, w, up)
    [] name = "execution_request_persistence_admission_review" -> ExecutionRequestPersistenceAdmissionReview(q, w, up)
    [] name = "dry_run_execution_ledger" -> DryRunExecutionLedger(q, w, up)
    [] name = "execution_permit_review" -> ExecutionPermitReview(q, w, up)
    [] name = "execution_lock_plan" -> ExecutionLockPlan(q, w, up)
    [] name = "execution_audit_plan" -> ExecutionAuditPlan(q, w, up)
    [] name = "execution_retention_plan" -> ExecutionRetentionPlan(q, w, up)
    [] name = "execution_runner_readiness" -> ExecutionRunnerReadiness(q, w, up)
    [] name = "controlled_uat_entry_review" -> ControlledUatEntryReview(q, w, up)
    [] name = "controlled_uat_scope_review" -> ControlledUatScopeReview(q, w, up)
    [] name = "controlled_uat_runbook_review" -> ControlledUatRunbookReview(q, w, up)
    [] name = "controlled_uat_security_review" -> ControlledUatSecurityReview(q, w, up)
    [] name = "controlled_uat_operations_review" -> ControlledUatOperationsReview(q, w, up)
    [] name = "controlled_uat_signoff_review" -> ControlledUatSignoffReview(q, w, up)
    [] name = "adapter_load_plan_review" -> AdapterLoadPlanReview(q, w, up)
    [] name = "adapter_package_provenance_review" -> AdapterPackageProvenanceReview(q, w, up)
    [] name = "adapter_sbom_review" -> AdapterSbomReview(q, w, up)
    [] name = "adapter_runtime_isolation_review" -> AdapterRuntimeIsolationReview(q, w, up)
    [] name = "adapter_runtime_admission_review" -> AdapterRuntimeAdmissionReview(q, w, up)
    [] name = "adapter_execution_preflight_review" -> AdapterExecutionPreflightReview(q, w, up)
    [] name = "adapter_target_connectivity_review" -> AdapterTargetConnectivityReview(q, w, up)
    [] name = "adapter_credential_handoff_review" -> AdapterCredentialHandoffReview(q, w, up)
    [] name = "adapter_command_invocation_review" -> AdapterCommandInvocationReview(q, w, up)
    [] name = "adapter_output_evidence_review" -> AdapterOutputEvidenceReview(q, w, up)
    [] name = "retained_evidence_export_review" -> RetainedEvidenceExportReview(q, w, up)
    [] name = "recovery_plan" -> RecoveryPlan(q, w, up)
    [] name = "job_state_plan" -> JobStatePlan(q, w, up)
    [] name = "restart_resume_review" -> RestartResumeReview(q, w, up)
    [] name = "backup_restore_review" -> BackupRestoreReview(q, w, up)
    [] name = "mutating_enablement_review" -> MutatingEnablementReview(q, w, up)
    [] name = "execution_submission_review" -> ExecutionSubmissionReview(q, w, up)
    [] name = "execution_submission_persistence_admission_review" -> ExecutionSubmissionPersistenceAdmissionReview(q, w, up)
    [] name = "queue_persistence_review" -> QueuePersistenceReview(q, w, up)
    [] name = "queue_persistence_admission_review" -> QueuePersistenceAdmissionReview(q, w, up)
    [] name = "execution_authorization_persistence_admission_review" -> ExecutionAuthorizationPersistenceAdmissionReview(q, w, up)
    [] name = "job_persistence_admission_review" -> JobPersistenceAdmissionReview(q, w, up)
    [] name = "mutating_adapter_binding_review" -> MutatingAdapterBindingReview(q, w, up)
    [] name = "controlled_uat_lane_selection_review" -> ControlledUatLaneSelectionReview(q, w, up)
    [] name = "controlled_uat_lane_persistence_admission_review" -> ControlledUatLanePersistenceAdmissionReview(q, w, up)
    [] name = "controlled_uat_hardware_reservation_review" -> ControlledUatHardwareReservationReview(q, w, up)
    [] name = "controlled_uat_reservation_persistence_admission_review" -> ControlledUatReservationPersistenceAdmissionReview(q, w, up)
    [] name = "controlled_uat_entry_issuance_review" -> ControlledUatEntryIssuanceReview(q, w, up)
    [] name = "controlled_uat_entry_persistence_admission_review" -> ControlledUatEntryPersistenceAdmissionReview(q, w, up)
    [] name = "controlled_uat_start_readiness_review" -> ControlledUatStartReadinessReview(q, w, up)
    [] name = "controlled_uat_start_persistence_admission_review" -> ControlledUatStartPersistenceAdmissionReview(q, w, up)
    [] name = "controlled_uat_runner_admission_review" -> ControlledUatRunnerAdmissionReview(q, w, up)
    [] name = "controlled_uat_runner_persistence_admission_review" -> ControlledUatRunnerPersistenceAdmissionReview(q, w, up)
    [] name = "controlled_uat_execution_authorization_review" -> ControlledUatExecutionAuthorizationReview(q, w, up)
    [] name = "controlled_uat_completion_review" -> ControlledUatCompletionReview(q, w, up)

(***************************************************************************)
(* How many reviews wait for one another at most below a review, when those *)
(* that may leave out the scheduler or the hardware reservation do so.      *)
(***************************************************************************)
Depth ==
  [plan |-> 0, adapter_contracts |-> 0, provider_adapter_manifest |-> 0,
   image_source_manifest |-> 1, network_manifest |-> 1, secret_reference_manifest |-> 1,
   execution_readiness |-> 1, execution_graph |-> 1, provider_topology_matrix |-> 1,
   approval_binding_review |-> 1, cluster_evidence_packs |-> 2,
   provider_operation_catalog |-> 2, provider_preflight_manifest |-> 2,
   deployment_policy |-> 2, provider_operation_admission_review |-> 3,
   uat_evidence_acceptance_review |-> 3, adapter_readiness |-> 3,
   discovery_contract_manifest |-> 3, deployment_wave_gate_review |-> 3,
   evidence_pack_approval_review |-> 3, resume_checkpoint |-> 3,
   provider_operation_queue_plan |-> 4, discovery_reconciliation_manifest |-> 4,
   adapter_promotion_review |-> 4, execution_admission_review |-> 4,
   secret_resolution_plan |-> 5, provider_operation_queue_admission_review |-> 5,
   imaging_plan_manifest |-> 5, uat_checklist |-> 5, secret_store_binding_review |-> 6,
   cluster_formation_plan_manifest |-> 6, execution_adapter_contract |-> 6,
   secret_store_provider_contract_review |-> 7, post_create_validation_manifest |-> 7,
   execution_request_review |-> 7, secret_lease_execution_review |-> 8,
   deployment_type_support_review |-> 8,
   execution_request_persistence_admission_review |-> 8,
   secret_audit_persistence_review |-> 9, recovery_plan |-> 10, job_state_plan |-> 11,
   adapter_uat_rehearsal_plan |-> 12, dry_run_execution_ledger |-> 12,
   adapter_activation_review |-> 13, adapter_enablement_review |-> 14,
   execution_permit_review |-> 15, execution_lock_plan |-> 16, execution_audit_plan |-> 17,
   execution_retention_plan |-> 18, restart_resume_review |-> 19,
   backup_restore_review |-> 20, execution_runner_readiness |-> 21,
   deployment_wave_rehearsal_plan |-> 22, controlled_uat_entry_review |-> 22,
   deployment_wave_authorization_review |-> 23, controlled_uat_scope_review |-> 23,
   deployment_window_reservation_review |-> 24, controlled_uat_runbook_review |-> 24,
   deployment_scheduler_review |-> 25, controlled_uat_security_review |-> 25,
   controlled_uat_operations_review |-> 26, adapter_allowlist_review |-> 27,
   controlled_uat_signoff_review |-> 28, adapter_load_plan_review |-> 29,
   controlled_uat_entry_issuance_review |-> 29, adapter_package_provenance_review |-> 30,
   controlled_uat_entry_persistence_admission_review |-> 30, adapter_sbom_review |-> 31,
   controlled_uat_start_readiness_review |-> 31, adapter_runtime_isolation_review |-> 32,
   controlled_uat_start_persistence_admission_review |-> 32,
   adapter_runtime_admission_review |-> 33, adapter_execution_preflight_review |-> 34,
   controlled_uat_runner_admission_review |-> 34,
   adapter_target_connectivity_review |-> 35,
   controlled_uat_runner_persistence_admission_review |-> 35,
   adapter_credential_handoff_review |-> 36, adapter_command_invocation_review |-> 37,
   adapter_output_evidence_review |-> 38, retained_evidence_export_review |-> 39,
   controlled_uat_execution_authorization_review |-> 39, mutating_enablement_review |-> 40,
   execution_authorization_persistence_admission_review |-> 40,
   execution_submission_review |-> 41,
   execution_submission_persistence_admission_review |-> 42,
   queue_persistence_review |-> 43, queue_persistence_admission_review |-> 44,
   job_persistence_admission_review |-> 45, mutating_adapter_binding_review |-> 46,
   controlled_uat_lane_selection_review |-> 47,
   controlled_uat_lane_persistence_admission_review |-> 48,
   controlled_uat_hardware_reservation_review |-> 49,
   controlled_uat_reservation_persistence_admission_review |-> 50,
   controlled_uat_completion_review |-> 68, review_packet_manifest |-> 69]
Builders == DOMAIN Depth

\* The builders that take include_hardware_reservation.
Reserving ==
  {"controlled_uat_entry_review", "controlled_uat_entry_issuance_review",
   "controlled_uat_entry_persistence_admission_review", "controlled_uat_start_readiness_review",
   "controlled_uat_start_persistence_admission_review", "controlled_uat_runner_admission_review",
   "controlled_uat_runner_persistence_admission_review",
   "controlled_uat_execution_authorization_review"}

\* A call of a builder, with what it takes.
WellFormed(call) ==
  /\ call.name \in Builders
  /\ ArgumentsOf(call).include_scheduler \in BOOLEAN
  /\ ArgumentsOf(call).include_hardware_reservation \in BOOLEAN
  /\ "include_hardware_reservation" \in DOMAIN call.given => call.name \in Reserving

ASSUME RequestsAssumption == \A request \in Requests : WellFormed(request.call)

(***************************************************************************)
(* One request.                                                             *)
(***************************************************************************)
VARIABLES facts,     \* what holds of the intent, the approval and the evidence
          stack,     \* the builders at work, the outermost first, with the reviews each has
          cache,     \* _NATIVE_FOUNDATION_PACKET_CACHE: the reviews of this request by call
          changes,   \* the changes of the approval and the evidence in this request
          good       \* history: the permits under way, by their place on the stack, that
                     \* have seen the approval, and the evidence, good since asked for

vars == <<facts, stack, cache, changes, good>>

Records == {"approval", "evidence"}
FactsOf(record) == IF record = "approval" THEN ApprovalFacts ELSE EvidenceFacts
Permit == "execution_permit_review"

NoReviews == [call \in {} |-> Absent]

Init ==
  /\ facts = {}
  /\ stack = <<>>
  /\ cache = NoReviews
  /\ changes = 0
  /\ good = [record \in Records |-> {}]

Idle == stack = <<>>
Frame(call) == [call |-> call, up |-> <<>>]
Current == stack[Len(stack)]
Outcome == Build(Current.call.name, ArgumentsOf(Current.call), facts, Current.up)

\* Faulty variant of Memoised: the approval is looked up once in a request.
MemoisedBinding(call) == call.name # "review_packet_manifest"

\* Two builders are not in the list of the cache wrappers, and the packet, which
\* is not there either, opens the cache for the others but is not kept in it.
Opens(call) ==
  call.name \notin {"approval_binding_review", "controlled_uat_completion_review"}
Memoised(call) == Opens(call) /\ call.name # "review_packet_manifest"

\* Faulty variant of Give: an invalid review is asked for again.
GiveValid(frames, review) ==
  IF review.status = "invalid" THEN frames
  ELSE [frames EXCEPT ![Len(frames)].up = Append(@, review)]

Give(frames, review) ==
  [frames EXCEPT ![Len(frames)].up = Append(@, review)]

\* The cache with one more review.
Keep(kept, call, review) ==
  [asked \in DOMAIN kept \cup {call} |-> IF asked = call THEN review ELSE kept[asked]]

\* The permits among the frames that were under way when a record was good, now
\* that the facts are w.
GoodSince(frames, w) ==
  [record \in Records |->
     {i \in DOMAIN frames : /\ frames[i].call.name = Permit
                            /\ FactsOf(record) \subseteq w \/ i \in good[record]}]

Request(request) ==
  /\ Idle
  /\ facts' = request.facts
  /\ stack' = <<Frame(request.call)>>
  /\ cache' = NoReviews
  /\ changes' = 0
  /\ good' = GoodSince(stack', facts')

Call ==
  /\ ~Idle
  /\ LET outcome == Outcome
     IN  /\ outcome.asks
         /\ outcome.call # Nothing
         /\ outcome.call \notin DOMAIN cache
         /\ stack' = Append(stack, Frame(outcome.call))
  /\ good' = GoodSince(stack', facts)
  /\ UNCHANGED <<facts, cache, changes>>

Reuse ==
  /\ ~Idle
  /\ LET outcome == Outcome
     IN  /\ outcome.asks
         /\ outcome.call = Nothing \/ outcome.call \in DOMAIN cache
         /\ stack' = Give(stack, IF outcome.call = Nothing THEN Absent ELSE cache[outcome.call])
  /\ UNCHANGED <<facts, cache, changes, good>>

\* The outermost call that opened the cache releases it, whatever it returns.
Answer ==
  /\ ~Idle
  /\ LET outcome == Outcome
     IN  /\ ~outcome.asks
         /\ stack' = IF Len(stack) = 1 THEN <<>>
                     ELSE Give(SubSeq(stack, 1, Len(stack) - 1), outcome.review)
         /\ cache' = IF \A i \in 1..Len(stack) - 1 : ~Opens(stack[i].call) THEN NoReviews
                     ELSE IF Memoised(Current.call) THEN Keep(cache, Current.call, outcome.review)
                     ELSE cache
  /\ good' = GoodSince(stack', facts)
  /\ UNCHANGED <<facts, changes>>

(***************************************************************************)
(* The approval is decided, the evidence imported or deleted, at any moment *)
(* of a request.  Two builders look at them: the binding, which reads both  *)
(* after the plan it asks for, and the admission, which reads the evidence  *)
(* again after the binding.  What either reads is read with its answer: the *)
(* graph that the admission still asks for reads neither.                   *)
(***************************************************************************)
Change(record) ==
  /\ ~Idle
  /\ changes < MaxChanges
  /\ facts' = IF record \subseteq facts THEN facts \ record ELSE facts \cup record
  /\ changes' = changes + 1
  /\ good' = GoodSince(stack, facts')
  /\ UNCHANGED <<stack, cache>>

Decide == Change({"approval-status-approved"})
ImportOrDelete == Change(EvidenceFacts \cup SummaryFacts)

Step == Call \/ Reuse \/ Answer
Next ==
  \/ \E request \in Requests : Request(request)
  \/ Call
  \/ Reuse
  \/ Answer
  \/ Decide
  \/ ImportOrDelete

\* The thread of a request goes on as long as it has something to do.
Spec == Init /\ [][Next]_vars /\ WF_vars(Step)

(***************************************************************************)
(* Properties.                                                              *)
(***************************************************************************)

\* No review waits for itself.  The reviews ask for one another in circles
\* (scheduler and restart, entry and hardware reservation), and a circle is
\* only left because one of the calls in it says what to leave out.
NoReentry == \A i, j \in DOMAIN stack : stack[i].call = stack[j].call => i = j

\* A permit that only its own switch holds back stands on the readiness, the
\* policy and a valid intent, and on an approval and an evidence each of which
\* was good at some moment since the permit was asked for: a decision or a
\* deletion may come after they were read, and not before the permit was begun.
Answering(name) == ~Idle /\ Current.call.name = name /\ ~Outcome.asks
PermitJustified ==
  (Answering(Permit) /\ PassExcept(Outcome.review, {"execution-permit-disabled"}))
    => /\ {"intent-valid"} \cup ReadinessFacts \cup PolicyFacts \subseteq facts
       /\ \A record \in Records : Len(stack) \in good[record]
       /\ BothIds(ArgumentsOf(Current.call))

\* What a review hands on has a source: no gates without a valid intent and the
\* identifier of the evidence that holds them, and no record of an entry, a
\* start, a runner or an authorization without a hardware reservation.
OffersJustified ==
  (~Idle /\ ~Outcome.asks)
    => LET q == ArgumentsOf(Current.call)
           offers == Outcome.review.offers
       IN  /\ offers # {} => "intent-valid" \in facts
           /\ {"gates", "completion", "auth"} \cap offers # {} => q.evidence_id # ""
           /\ ("records" \in offers /\ "include_hardware_reservation" \in DOMAIN Current.call.given)
                => q.include_hardware_reservation

\* Every request is answered: the circles end, and no review is asked for for ever.
RequestAnswered == ~Idle ~> Idle
=============================================================================
