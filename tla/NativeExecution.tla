--------------------------- MODULE NativeExecution ---------------------------
(***************************************************************************)
(* From the approval of a native Foundation execution to its runner.  Each *)
(* review reads the ones before it and stays blocked for one reason of its *)
(* own, a switch this release does not have; what follows asks whether     *)
(* there is any other reason.                                              *)
(***************************************************************************)
EXTENDS NativeReview

ApprovalBindingReview(q, w, up) ==
  Review(up, <<Bare("plan")>>,
         Blocked((IF q.approval_id = "" THEN ApprovalFacts ELSE ApprovalFacts \ w)
                 \cup (IF q.evidence_id = "" THEN EvidenceFacts ELSE EvidenceFacts \ w)
                 \cup {"execution-still-disabled"}))

\* The admission reads the evidence itself: the gates its packet summarises are
\* what the reviews that follow hand on.
ExecutionAdmissionReview(q, w, up) ==
  LET held(gate) == q.evidence_id # "" /\ gate \in w
  IN  Review(up, <<Bare("plan"), Pos("execution_readiness", q, Phase), Bare("adapter_readiness"),
                   Bare("deployment_policy"), Binding(q), Bare("execution_graph")>>,
             Result("blocked",
                    Unless(PassExcept(up[2], {"execution-adapter-enabled"}),
                           "execution-readiness-reviewed")
                    \cup Unless(PassExcept(up[3], {"approval-binding-required",
                                                   "execution-switch-disabled"}),
                                "adapter-readiness-reviewed")
                    \cup Unless(PassExcept(up[4], {"execution-scheduling-disabled"}),
                                "deployment-policy-reviewed")
                    \cup Unless(PassExcept(up[5], {"execution-still-disabled"}),
                                "approval-binding-reviewed")
                    \cup {gate \in SummaryFacts : ~held(gate)}
                    \cup {"execution-adapter-disabled"},
                    OfferIf(held("review-packet-output-export-gates-reviewed"), "gates")
                    \cup OfferIf(held("review-packet-controlled-uat-completion-gate-reviewed"),
                                 "completion")
                    \cup OfferIf(held("review-packet-auth-persistence-completion-gate-reviewed"),
                                 "auth")))

ExecutionAdapterContract(q, w, up) ==
  Review(up, <<Bare("plan"), Pos("execution_admission_review", q, PAE),
               Pos("secret_resolution_plan", q, PAE), Bare("resume_checkpoint"),
               Bare("execution_graph")>>,
         Result("blocked",
                Unless(PassExcept(up[2], {"execution-adapter-disabled"}), "admission-reviewed")
                \cup Unoffered(up[2], "completion", "controlled-uat-completion-gate-bound")
                \cup Unoffered(up[2], "auth", "auth-persistence-completion-gate-bound")
                \cup Unless(PassExcept(up[3], {"secret-store-adapter-disabled"}),
                            "secret-resolution-reviewed")
                \cup {"adapter-loading-disabled"},
                up[2].offers))

ExecutionRequestReview(q, w, up) ==
  Review(up, <<Pos("execution_adapter_contract", q, PAE)>>,
         Result("blocked",
                Unless(PassExcept(up[1], {"adapter-loading-disabled"}),
                       "execution-adapter-contract-reviewed")
                \cup Unoffered(up[1], "completion", "controlled-uat-completion-gates-bound")
                \cup Unoffered(up[1], "auth", "auth-persistence-completion-gates-bound")
                \cup {"job-submission-disabled"},
                up[1].offers))

GatesUnbound(review) ==
  Unoffered(review, "gates", "approval-evidence-gates-bound")
  \cup Unoffered(review, "completion", "controlled-uat-completion-gates-bound")

ExecutionRequestPersistenceAdmissionReview(q, w, up) ==
  Review(up, <<Mixed("execution_request_review", q, PAE)>>,
         Result("blocked",
                GatesUnbound(up[1])
                \cup Unoffered(up[1], "auth", "auth-persistence-completion-gates-bound")
                \cup {"request-persistence-admission-disabled",
                      "execution-request-persistence-disabled", "job-submission-disabled"},
                up[1].offers))

DryRunExecutionLedger(q, w, up) ==
  Review(up, <<Mixed("execution_request_review", q, PAE), Bare("execution_graph"),
               Mixed("execution_adapter_contract", q, PAE), Pos("job_state_plan", q, PAE)>>,
         Blocked({"adapter-execution-disabled"}))

(***************************************************************************)
(* The permit and what hangs on it.                                         *)
(***************************************************************************)
ExecutionPermitReview(q, w, up) ==
  Review(up, <<Bare("plan"), Pos("execution_admission_review", q, PAE),
               Pos("execution_request_review", q, PAE), Kw("dry_run_execution_ledger", q, PAE),
               Mixed("recovery_plan", q, PAE), Pos("job_state_plan", q, PAE),
               Kw("adapter_enablement_review", q, AE), Binding(q)>>,
         Result("blocked",
                Unless(PassExcept(up[2], {"execution-adapter-disabled"}), "admission-reviewed")
                \cup Unless(PassExcept(up[3], {"job-submission-disabled"}),
                            "execution-request-reviewed")
                \cup Unless(PassExcept(up[4], {"adapter-execution-disabled"}),
                            "dry-run-ledger-reviewed")
                \cup Unoffered(up[3], "gates", "packet-gate-summary-bound")
                \cup Unless(PassExcept(up[5], {"recovery-execution-disabled"}),
                            "recovery-plan-reviewed")
                \cup Unless(PassExcept(up[6], {"job-state-persistence-disabled"}),
                            "job-state-reviewed")
                \cup Unless(PassExcept(up[7], {"adapter-registry-mutation-disabled"}),
                            "adapter-enablements-reviewed")
                \cup Unless(PassExcept(up[8], {"execution-still-disabled"}),
                            "approval-binding-reviewed")
                \cup {"execution-permit-disabled"},
                Carried(up[3], {"gates"})))

ExecutionLockPlan(q, w, up) ==
  Review(up, <<Mixed("execution_permit_review", q, PAE), Bare("deployment_policy"),
               Kw("dry_run_execution_ledger", q, PAE)>>,
         Blocked(Unless(PassExcept(up[1], {"execution-permit-disabled"}),
                        "execution-permit-reviewed")
                 \cup Unless(PassExcept(up[2], {"execution-scheduling-disabled"}),
                             "deployment-policy-reviewed")
                 \cup Unless(PassExcept(up[3], {"adapter-execution-disabled"}),
                             "dry-run-ledger-reviewed")
                 \cup Unoffered(up[1], "gates", "packet-gate-summary-bound")
                 \cup {"lock-acquisition-disabled"}))

\* The recovery and the job state in the audit and in the retention are those of
\* the phase alone, without the approval and the evidence.
ExecutionAuditPlan(q, w, up) ==
  Review(up, <<Mixed("execution_permit_review", q, PAE), Kw("dry_run_execution_ledger", q, PAE),
               Kw("execution_lock_plan", q, PAE), Pos("recovery_plan", q, Phase),
               Pos("job_state_plan", q, Phase)>>,
         Result("blocked",
                Unoffered(up[1], "gates", "packet-gate-summary-reviewed")
                \cup {"audit-persistence-disabled"},
                Carried(up[1], {"gates"})))

ExecutionRetentionPlan(q, w, up) ==
  Review(up, <<Kw("execution_audit_plan", q, PAE), Pos("job_state_plan", q, Phase),
               Pos("recovery_plan", q, Phase)>>,
         Result("blocked",
                Unoffered(up[1], "gates", "packet-gate-summary-reviewed")
                \cup {"retention-persistence-disabled"},
                Carried(up[1], {"gates"})))

\* Its backup review leaves the scheduler out: the scheduler waits for this one.
ExecutionRunnerReadiness(q, w, up) ==
  Review(up, <<Bare("plan"), Mixed("execution_permit_review", q, PAE),
               Kw("execution_lock_plan", q, PAE), Kw("execution_audit_plan", q, PAE),
               Kw("execution_retention_plan", q, PAE),
               Kw("backup_restore_review", Unscheduled(q), Scheduled),
               Bare("secret_resolution_plan"), Mixed("secret_store_binding_review", q, PAE),
               Mixed("secret_audit_persistence_review", q, PAE),
               Kw("adapter_enablement_review", q, AE), Kw("adapter_activation_review", q, AE)>>,
         Result("blocked", {"runner-start-disabled"}, Carried(up[5], {"gates"})))

(***************************************************************************)
(* Failure, restart and restore.                                            *)
(***************************************************************************)
RecoveryPlan(q, w, up) ==
  Review(up, <<Mixed("execution_request_review", q, PAE), Bare("deployment_policy"),
               Bare("resume_checkpoint"), Mixed("execution_adapter_contract", q, PAE),
               Kw("secret_audit_persistence_review", q, Phase)>>,
         Blocked(Unless(PassExcept(up[2], {"execution-scheduling-disabled"}),
                        "failure-policy-reviewed")
                 \cup Unless(up[3].status = "ready_for_review", "checkpoint-state-clear")
                 \cup Unoffered(up[1], "gates", "packet-gate-summary-reviewed")
                 \cup {"recovery-execution-disabled"}))

JobStatePlan(q, w, up) ==
  Review(up, <<Mixed("execution_request_review", q, PAE), Bare("resume_checkpoint"),
               Kw("recovery_plan", q, PAE), Mixed("execution_adapter_contract", q, PAE)>>,
         Blocked(Unoffered(up[1], "gates", "packet-gate-summary-reviewed")
                 \cup {"job-state-persistence-disabled"}))

RestartResumeReview(q, w, up) ==
  Guarded(up, 2, {1, 2},
          <<Bare("resume_checkpoint"), Kw("job_state_plan", q, PAE),
            Kw("execution_retention_plan", q, PAE), Kw("execution_audit_plan", q, PAE),
            Kw("execution_lock_plan", q, PAE),
            CallIf(q.include_scheduler, Kw("deployment_scheduler_review", q, PAE))>>,
          Blocked(Unless(up[1].status = "ready_for_review", "checkpoint-reviewed")
                  \cup Unless(q.include_scheduler, "scheduler-reviewed")
                  \cup {"job-state-not-persisted", "restart-resume-replay-disabled"}))

BackupRestoreReview(q, w, up) ==
  Guarded(up, 2, {1, 2},
          <<Kw("execution_retention_plan", q, PAE), Kw("restart_resume_review", q, Scheduled),
            Bare("resume_checkpoint"), Kw("execution_audit_plan", q, PAE),
            Kw("job_state_plan", q, PAE)>>,
          Blocked({"artifact-persistence-disabled", "backup-creation-disabled",
                   "checkpoint-restore-disabled", "restore-execution-disabled"}))

(***************************************************************************)
(* The submission of a mutating job.                                        *)
(***************************************************************************)
MutatingEnablementReview(q, w, up) ==
  Review(up, <<Kw("execution_runner_readiness", q, PAE),
               Kw("backup_restore_review", Unscheduled(q), Scheduled),
               Kw("uat_evidence_acceptance_review", q, SAE),
               Kw("controlled_uat_signoff_review", q, PSAE),
               Kw("adapter_runtime_admission_review", q, PSAE),
               Kw("adapter_execution_preflight_review", q, PSAE),
               Kw("adapter_target_connectivity_review", q, PSAE),
               Kw("adapter_credential_handoff_review", q, PSAE),
               Kw("adapter_command_invocation_review", q, PSAE),
               Kw("adapter_output_evidence_review", q, PSAE),
               Kw("retained_evidence_export_review", q, PSAE),
               Kw("controlled_uat_execution_authorization_review", Unreserved(q), Reserved)>>,
         Blocked(Unless("gates" \in up[10].offers \cup up[11].offers \cup up[1].offers,
                        "packet-gate-summary-reviewed")
                 \cup {"adapter-runtime-start-disabled", "controlled-uat-entry-disabled",
                       "execution-authorization-disabled", "mutating-job-submission-disabled",
                       "target-access-disabled"}))

ExecutionSubmissionReview(q, w, up) ==
  Review(up, <<Kw("mutating_enablement_review", q, PSAE),
               Kw("execution_request_persistence_admission_review", q, PAE),
               Kw("deployment_scheduler_review", q, PAE), Kw("execution_runner_readiness", q, PAE),
               Kw("controlled_uat_entry_review", Unreserved(q), Reserved \ Scope)>>,
         Result("blocked",
                GatesUnbound(up[2])
                \cup Unoffered(up[2], "auth", "auth-persistence-completion-gates-bound")
                \cup {"mutating-submission-disabled", "runner-start-disabled",
                      "target-mutation-disabled"},
                Carried(up[2], {"gates", "completion"})))

ExecutionSubmissionPersistenceAdmissionReview(q, w, up) ==
  Review(up, <<Kw("execution_submission_review", q, PSAE)>>,
         Result("blocked",
                GatesUnbound(up[1])
                \cup {"execution-submission-persistence-disabled", "job-submission-disabled",
                      "queue-persistence-disabled", "submission-persistence-admission-disabled"},
                up[1].offers))

QueuePersistenceReview(q, w, up) ==
  Review(up, <<Kw("execution_submission_persistence_admission_review", q, PSAE),
               Kw("job_state_plan", q, PAE), Kw("execution_audit_plan", q, PAE),
               Kw("execution_retention_plan", q, PAE),
               Kw("restart_resume_review", Rescheduled(q), Scheduled)>>,
         Result("blocked",
                GatesUnbound(up[1])
                \cup {"job-enqueue-disabled", "queue-persistence-disabled",
                      "queue-replay-disabled"},
                up[1].offers))

QueuePersistenceAdmissionReview(q, w, up) ==
  Review(up, <<Kw("queue_persistence_review", q, PSAE)>>,
         Result("blocked",
                GatesUnbound(up[1])
                \cup {"job-enqueue-disabled", "job-state-persistence-disabled",
                      "queue-persistence-admission-disabled", "queue-record-persistence-disabled"},
                up[1].offers))

\* The completion gate of the authorization or, without it, of the request.
ExecutionAuthorizationPersistenceAdmissionReview(q, w, up) ==
  Review(up, <<Kw("controlled_uat_execution_authorization_review", Unreserved(q), Reserved),
               Kw("execution_request_persistence_admission_review", q, PAE)>>,
         Blocked(Unoffered(up[1], "gates", "approval-evidence-gates-bound")
                 \cup Unless("completion" \in up[1].offers \cup up[2].offers,
                             "controlled-uat-completion-gates-bound")
                 \cup AllLinked(up)
                 \cup {"adapter-command-invocation-disabled",
                       "authorization-persistence-admission-disabled",
                       "execution-authorization-persistence-disabled", "job-persistence-disabled",
                       "mutating-job-submission-disabled"}))

JobPersistenceAdmissionReview(q, w, up) ==
  Review(up, <<Kw("queue_persistence_admission_review", q, PSAE),
               Kw("execution_authorization_persistence_admission_review", q, PSAE),
               Kw("job_state_plan", q, PAE),
               Kw("restart_resume_review", Rescheduled(q), Scheduled),
               Kw("backup_restore_review", q, PAE)>>,
         Result("blocked",
                GatesUnbound(up[1])
                \cup {"execution-authorization-persistence-disabled",
                      "job-state-persistence-disabled", "mutating-job-persistence-disabled",
                      "queue-replay-registration-disabled"},
                up[1].offers))
=============================================================================
