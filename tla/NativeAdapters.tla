--------------------------- MODULE NativeAdapters ---------------------------
(***************************************************************************)
(* The adapter that would change hardware: its load plan, its package, its *)
(* sandbox, its target and its output, and its binding to the queue.  Each *)
(* stage continues the one before it, hands on its gates and stays blocked *)
(* for its own switches, and for the references an operator declares when  *)
(* the stage is asked for alone.                                            *)
(***************************************************************************)
EXTENDS NativeReview

\* The first n reviews have to be valid; the gates come from the one at before.
StageFrom(q, up, n, before, calls, disabled, declared) ==
  Guarded(up, n, 1..n, calls,
          Result("blocked",
                 Unoffered(up[before], "gates", "packet-gate-summary-reviewed")
                 \cup disabled \cup Undeclared(q, declared),
                 Carried(up[before], {"gates"})))
Stage(q, up, calls, disabled, declared) ==
  StageFrom(q, up, 1, 1, calls, disabled, declared)

AdapterLoadPlanReview(q, w, up) ==
  Stage(q, up,
        <<Kw("controlled_uat_signoff_review", q, PSAE), Pos("adapter_allowlist_review", q, Scope),
          Kw("execution_adapter_contract", q, Phase), Kw("secret_audit_persistence_review", q, Phase),
          Bare("adapter_contracts"), Bare("provider_adapter_manifest")>>,
        {"adapter-binary-source-disabled", "adapter-import-disabled",
         "adapter-load-plan-persistence-disabled"},
        {"load-plan-owner-declared", "load-plan-reference-declared"})

AdapterPackageProvenanceReview(q, w, up) ==
  Stage(q, up, <<Kw("adapter_load_plan_review", q, PSAE)>>,
        {"adapter-package-read-disabled", "adapter-package-signature-verification-disabled",
         "adapter-package-staging-disabled"},
        {"package-owner-declared", "package-reference-declared", "package-sha256-declared",
         "package-sha256-format-valid", "signature-reference-declared",
         "signer-reference-declared"})

AdapterSbomReview(q, w, up) ==
  Stage(q, up, <<Kw("adapter_package_provenance_review", q, PSAE)>>,
        {"sbom-generation-disabled", "sbom-read-disabled", "vulnerability-scan-disabled"},
        {"sbom-format-supported", "sbom-owner-declared", "sbom-reference-declared",
         "sbom-sha256-declared", "sbom-sha256-format-valid",
         "vulnerability-scan-reference-declared"})

AdapterRuntimeIsolationReview(q, w, up) ==
  Stage(q, up, <<Kw("adapter_sbom_review", q, PSAE)>>,
        {"adapter-process-start-disabled", "runtime-policy-application-disabled",
         "sandbox-creation-disabled"},
        {"filesystem-policy-reference-declared", "isolation-profile-supported",
         "network-policy-reference-declared", "runtime-owner-declared",
         "sandbox-image-reference-declared"})

AdapterRuntimeAdmissionReview(q, w, up) ==
  Stage(q, up, <<Kw("adapter_runtime_isolation_review", q, PSAE)>>,
        {"adapter-runtime-admission-disabled", "credential-handoff-disabled",
         "mutating-job-submission-disabled"},
        {"change-ticket-reference-declared", "exception-reference-reviewed",
         "runtime-admission-owner-declared", "runtime-admission-reference-declared"})

AdapterExecutionPreflightReview(q, w, up) ==
  Stage(q, up, <<Kw("adapter_runtime_admission_review", q, PSAE)>>,
        {"adapter-preflight-execution-disabled", "mutating-job-submission-disabled",
         "secret-resolution-disabled", "target-connectivity-disabled"},
        {"adapter-command-reference-declared", "execution-preflight-owner-declared",
         "execution-preflight-reference-declared", "rollback-readiness-reference-declared",
         "target-connectivity-reference-declared"})

AdapterTargetConnectivityReview(q, w, up) ==
  Stage(q, up, <<Kw("adapter_execution_preflight_review", q, PSAE)>>,
        {"mutating-job-submission-disabled", "secret-resolution-disabled",
         "target-connection-opening-disabled", "target-reachability-probes-disabled"},
        {"maintenance-window-reference-declared", "probe-plan-reference-declared",
         "target-allowlist-reference-declared", "target-connectivity-owner-declared",
         "target-connectivity-scope-declared"})

AdapterCredentialHandoffReview(q, w, up) ==
  StageFrom(q, up, 2, 1,
        <<Kw("adapter_target_connectivity_review", q, PSAE),
          Kw("secret_store_provider_contract_review", q, Phase)>>,
        {"credential-handoff-disabled", "mutating-job-submission-disabled",
         "secret-lease-opening-disabled", "secret-resolution-disabled"},
        {"adapter-identity-reference-declared", "credential-handoff-owner-declared",
         "credential-handoff-reference-declared", "redaction-policy-reference-declared",
         "secret-lease-policy-reference-declared"})

AdapterCommandInvocationReview(q, w, up) ==
  Stage(q, up, <<Kw("adapter_credential_handoff_review", q, PSAE)>>,
        {"adapter-command-assembly-disabled", "adapter-command-invocation-disabled",
         "live-output-capture-disabled", "mutating-job-submission-disabled"},
        {"adapter-command-catalog-reference-declared", "adapter-command-owner-declared",
         "adapter-execution-identity-reference-declared",
         "adapter-invocation-policy-reference-declared",
         "adapter-output-capture-reference-declared"})

AdapterOutputEvidenceReview(q, w, up) ==
  Stage(q, up, <<Mixed("adapter_command_invocation_review", q, PSAE)>>,
        {"evidence-persistence-disabled", "live-failure-classification-disabled",
         "live-output-capture-disabled", "mutating-job-submission-disabled"},
        {"adapter-artifact-redaction-reference-declared",
         "adapter-evidence-store-reference-declared",
         "adapter-failure-classification-reference-declared",
         "adapter-output-evidence-owner-declared",
         "adapter-output-retention-reference-declared"})

RetainedEvidenceExportReview(q, w, up) ==
  StageFrom(q, up, 2, 2,
        <<Pos("execution_retention_plan", q, Phase),
          Mixed("adapter_output_evidence_review", q, PSAE)>>,
        {"mutating-job-submission-disabled", "retained-artifact-read-disabled",
         "retained-evidence-export-disabled"},
        {"checksum-manifest-reference-declared", "export-rbac-review-reference-declared",
         "retained-export-owner-declared", "retained-export-request-reference-declared",
         "retention-store-reference-declared"})

\* The scope is inferred for everything but the admission to the provider's queue.
MutatingAdapterBindingReview(q, w, up) ==
  LET inferred == Inferred(q)
  IN  Guarded(up, 2, {1, 2},
              <<Kw("provider_operation_queue_admission_review", q, PAE),
                Kw("queue_persistence_admission_review", inferred, PSAE),
                Kw("job_persistence_admission_review", inferred, PSAE),
                Kw("adapter_activation_review", inferred, SAE),
                Kw("adapter_allowlist_review", inferred, Scope),
                Kw("adapter_runtime_admission_review", inferred, PSAE),
                Kw("adapter_execution_preflight_review", inferred, PSAE),
                Kw("adapter_target_connectivity_review", inferred, PSAE),
                Kw("adapter_credential_handoff_review", inferred, PSAE)>>,
              Result("blocked",
                     Unoffered(up[2], "gates", "approval-evidence-gates-bound")
                     \cup Unoffered(up[2], "completion", "controlled-uat-completion-gates-bound")
                     \cup {"adapter-binding-persistence-disabled",
                           "adapter-load-execution-disabled", "job-persistence-disabled"},
                     Carried(up[2], {"gates", "completion"}) \cup Carried(up[1], {"records"})))
=============================================================================
