-------------------------- MODULE NativeDeployment --------------------------
(***************************************************************************)
(* Waves, windows and the scheduler of a native Foundation deployment, and *)
(* the road of a hardware adapter from its promotion to the allow list.    *)
(***************************************************************************)
EXTENDS NativeReview

(***************************************************************************)
(* Waves.                                                                   *)
(***************************************************************************)
DeploymentPolicy(q, w, up) ==
  Review(up, <<Bare("execution_graph")>>,
         Blocked((PolicyFacts \ w) \cup {"execution-scheduling-disabled"}))

DeploymentWaveGateReview(q, w, up) ==
  Review(up, <<Bare("deployment_policy"), Bare("execution_graph"), Binding(q)>>,
         Blocked(Unless(PassExcept(up[1], {"execution-scheduling-disabled"}),
                        "deployment-policy-reviewed")
                 \cup Unless(PassExcept(up[3], {"execution-still-disabled"}),
                             "approval-evidence-binding-reviewed")
                 \cup {"deployment-wave-opening-disabled"}))

DeploymentWaveRehearsalPlan(q, w, up) ==
  Review(up, <<Kw("deployment_wave_gate_review", q, PAE), Bare("cluster_evidence_packs"),
               Kw("recovery_plan", q, PAE), Kw("execution_runner_readiness", q, PAE),
               Bare("deployment_policy")>>,
         Blocked(Unless(PassExcept(up[1], {"deployment-wave-opening-disabled"}),
                        "deployment-wave-gates-reviewed")
                 \cup {"wave-execution-disabled"}))

EvidencePackApprovalReview(q, w, up) ==
  Review(up, <<Bare("cluster_evidence_packs"), Binding(q)>>,
         Blocked(Unless(PassExcept(up[2], {"execution-still-disabled"}),
                        "approval-evidence-binding-reviewed")
                 \cup Unless(UatFacts \subseteq w, "evidence-requirements-reviewed")
                 \cup {"pack-approval-persistence-disabled"}))

DeploymentWaveAuthorizationReview(q, w, up) ==
  Review(up, <<Kw("deployment_wave_rehearsal_plan", q, PAE),
               Kw("evidence_pack_approval_review", q, PAE), Kw("execution_permit_review", q, PAE),
               Kw("execution_lock_plan", q, PAE), Kw("execution_runner_readiness", q, PAE)>>,
         Blocked(Unless(PassExcept(up[2], {"pack-approval-persistence-disabled"}),
                        "evidence-pack-approvals-ready")
                 \cup {"wave-authorization-persistence-disabled"}))

DeploymentWindowReservationReview(q, w, up) ==
  Review(up, <<Kw("deployment_wave_authorization_review", q, PAE), Bare("deployment_policy"),
               Kw("execution_lock_plan", q, PAE)>>,
         Blocked(Unless("deployment-windows-present" \in w, "deployment-windows-ready")
                 \cup {"window-reservation-disabled"}))

DeploymentSchedulerReview(q, w, up) ==
  Review(up, <<Kw("deployment_window_reservation_review", q, PAE),
               Mixed("execution_request_review", q, PAE), Kw("dry_run_execution_ledger", q, PAE),
               Mixed("execution_permit_review", q, PAE), Kw("execution_lock_plan", q, PAE),
               Kw("recovery_plan", q, PAE), Kw("job_state_plan", q, PAE)>>,
         Blocked({"deployment-scheduler-disabled"}))

DeploymentTypeSupportReview(q, w, up) ==
  Review(up, <<Bare("execution_graph"), Bare("plan"), Bare("adapter_contracts"),
               Bare("cluster_formation_plan_manifest"), Bare("post_create_validation_manifest"),
               Bare("adapter_readiness"), Pos("adapter_promotion_review", Inferred(q), Scope),
               Pos("uat_checklist", Inferred(q), Scope)>>,
         Blocked(Unless(UatFacts \subseteq w, "accepted-uat-evidence-present")
                 \cup {"deployment-type-support-enable-disabled"}))

\* The steps an intent reports as failed.
ResumeCheckpoint(q, w, up) ==
  Guarded(up, 2, {1, 2}, <<Bare("execution_graph"), Bare("cluster_evidence_packs")>>,
          Result(IF "no-failed-steps" \in w THEN "ready_for_review" ELSE "blocked", {}, {}))

(***************************************************************************)
(* The adapter of the hardware provider.                                    *)
(***************************************************************************)
AdapterPromotionReview(q, w, up) ==
  Guarded(up, 3, {1, 2, 3},
          <<Bare("adapter_contracts"), Bare("cluster_evidence_packs"), Bare("resume_checkpoint")>>,
          Blocked(Unless(q.provider_id # "", "provider-contract-read-only")
                  \cup Unless(q.deployment_type # "", "deployment-contract-read-only")
                  \cup Unless(up[3].status # "blocked", "checkpoint-clear")
                  \cup {"readiness-gates-accepted", "controlled-uat-required"}))

UatChecklist(q, w, up) ==
  Review(up, <<Pos("adapter_promotion_review", Inferred(q), Scope)>>, Blocked({}))

AdapterUatRehearsalPlan(q, w, up) ==
  Review(up, <<Pos("uat_checklist", Inferred(q), Scope),
               Pos("adapter_promotion_review", Inferred(q), Scope),
               Bare("provider_preflight_manifest"), Bare("job_state_plan")>>,
         Blocked({"uat-runner-disabled"}))

AdapterActivationReview(q, w, up) ==
  Review(up, <<Pos("adapter_uat_rehearsal_plan", Inferred(q), Scope),
               Pos("adapter_promotion_review", Inferred(q), Scope), Binding(q)>>,
         Blocked(Unless(UatFacts \subseteq w, "required-uat-evidence-accepted")
                 \cup Unless(PassExcept(up[2], {"readiness-gates-accepted",
                                                "controlled-uat-required"}),
                             "promotion-review-ready")
                 \cup Unless(PassExcept(up[3], {"execution-still-disabled"}),
                             "approval-binding-reviewed")
                 \cup {"controlled-uat-completion-required", "adapter-activation-disabled"}))

AdapterEnablementReview(q, w, up) ==
  Review(up, <<Bare("plan"), Pos("adapter_activation_review", Inferred(q), SAE)>>,
         Blocked({"adapter-registry-mutation-disabled"}))

AdapterAllowlistReview(q, w, up) ==
  Review(up, <<Pos("adapter_enablement_review", q, SAE),
               Pos("controlled_uat_security_review", q, Scope),
               Pos("controlled_uat_operations_review", q, Scope),
               Bare("secret_store_provider_contract_review")>>,
         Blocked(Undeclared(q, {"allow-list-owner-declared", "allow-list-reference-declared"})
                 \cup {"adapter-allow-list-persistence-disabled"}))
=============================================================================
