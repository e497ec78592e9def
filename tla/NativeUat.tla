------------------------------ MODULE NativeUat ------------------------------
(***************************************************************************)
(* Controlled acceptance on hardware: who signs it, which lane and which   *)
(* hardware it takes, and the chain from its entry to its completion.  The *)
(* entry reserves hardware through reviews that ask for the entry again;   *)
(* they ask for the one without a reservation.                              *)
(***************************************************************************)
EXTENDS NativeReview

AnyOffers(reviews, part) == \E review \in reviews : part \in review.offers
GatesReviewed(reviews) == Unless(AnyOffers(reviews, "gates"), "packet-gate-summary-reviewed")
GatesOf(reviews) == OfferIf(AnyOffers(reviews, "gates"), "gates")

(***************************************************************************)
(* Entry, scope and the five sign-offs.                                     *)
(***************************************************************************)
ControlledUatEntryReview(q, w, up) ==
  Review(up, <<Bare("plan"), Kw("execution_runner_readiness", q, PAE),
               Pos("adapter_activation_review", q, SAE), Pos("adapter_enablement_review", q, SAE),
               Pos("adapter_uat_rehearsal_plan", q, Scope),
               Pos("secret_store_binding_review", q, PAE),
               Pos("secret_audit_persistence_review", q, PAE),
               Kw("execution_retention_plan", q, PAE), Kw("execution_audit_plan", q, PAE),
               CallIf(q.include_hardware_reservation,
                      Kw("controlled_uat_hardware_reservation_review", q, PSAE))>>,
         Result("blocked", {"controlled-uat-entry-disabled"}, Carried(up[2], {"gates"})))

ControlledUatScopeReview(q, w, up) ==
  Review(up, <<Bare("plan"), Bare("cluster_evidence_packs"), Bare("deployment_policy"),
               Mixed("controlled_uat_entry_review", Unreserved(q), Reserved)>>,
         Result("blocked", GatesReviewed({up[4]}) \cup {"uat-scope-authorization-disabled"},
                GatesOf({up[4]})))

ControlledUatRunbookReview(q, w, up) ==
  Review(up, <<Bare("plan"), Mixed("controlled_uat_scope_review", q, PSAE)>>,
         Result("blocked",
                GatesReviewed({up[2]}) \cup {"runbook-authorization-disabled"}
                \cup Undeclared(q, {"uat-window-declared", "rollback-owner-declared",
                                    "evidence-retention-target-declared"}),
                GatesOf({up[2]})))

ControlledUatSecurityReview(q, w, up) ==
  Review(up, <<Bare("plan"), Kw("controlled_uat_runbook_review", q, PSAE),
               Kw("controlled_uat_scope_review", q, PSAE),
               Mixed("secret_store_binding_review", q, PAE), Kw("execution_audit_plan", q, PAE),
               Kw("execution_retention_plan", q, PAE), Pos("adapter_enablement_review", q, SAE)>>,
         Result("blocked",
                GatesReviewed({up[2], up[3]}) \cup {"controlled-uat-security-approval-disabled"},
                GatesOf({up[2], up[3]})))

ControlledUatOperationsReview(q, w, up) ==
  Review(up, <<Bare("plan"), Kw("controlled_uat_runbook_review", q, PSAE),
               Kw("controlled_uat_security_review", q, PSAE), Pos("recovery_plan", q, Phase),
               Kw("execution_retention_plan", q, PAE), Kw("execution_lock_plan", q, PAE),
               Kw("execution_audit_plan", q, PAE)>>,
         LET bearers == {up[2], up[3], up[5], up[7]}
         IN  Result("blocked",
                    GatesReviewed(bearers)
                    \cup {"lock-acquisition-disabled",
                          "controlled-uat-operations-approval-disabled"},
                    GatesOf(bearers)))

ControlledUatSignoffReview(q, w, up) ==
  Review(up, <<Bare("plan"), Kw("controlled_uat_scope_review", q, PSAE),
               Kw("controlled_uat_runbook_review", q, PSAE),
               Kw("controlled_uat_security_review", q, PSAE),
               Kw("controlled_uat_operations_review", q, PSAE),
               Kw("uat_evidence_acceptance_review", q, SAE),
               Pos("adapter_allowlist_review", q, Scope),
               Kw("secret_store_provider_contract_review", q, PAE),
               Kw("secret_audit_persistence_review", q, PAE)>>,
         Result("blocked",
                GatesReviewed({up[i] : i \in 2..5})
                \cup Unless(up[6].status = "ready_for_review", "uat-evidence-acceptance-ready")
                \cup {"adapter-loading-disabled", "controlled-uat-entry-issuance-disabled",
                      "signoff-persistence-disabled"},
                GatesOf({up[i] : i \in 2..5})))

(***************************************************************************)
(* What every later review asks of the one it continues.                    *)
(***************************************************************************)
Bound(gates, completion) ==
  Unoffered(gates, "gates", "approval-evidence-gates-bound")
  \cup Unoffered(completion, "completion", "controlled-uat-completion-gates-bound")
Recorded(review, records) ==
  Unoffered(review, "records", records)
  \cup Unoffered(review, "records", "provider-operation-queue-admission-bound")
Carry(gates, completion, records) ==
  Carried(gates, {"gates"}) \cup Carried(completion, {"completion"})
  \cup Carried(records, {"records"})

(***************************************************************************)
(* The lane and the hardware.                                               *)
(***************************************************************************)
ControlledUatLaneSelectionReview(q, w, up) ==
  LET inferred == Inferred(q)
  IN  Review(up, <<Kw("mutating_adapter_binding_review", inferred, PSAE),
                   Kw("deployment_type_support_review", inferred, SAE),
                   Kw("controlled_uat_scope_review", inferred, PSAE),
                   Kw("controlled_uat_signoff_review", inferred, PSAE),
                   Kw("uat_evidence_acceptance_review", inferred, SAE)>>,
             Result("blocked",
                    Bound(up[1], up[1])
                    \cup {"lane-selection-persistence-disabled", "uat-entry-issuance-disabled"},
                    up[1].offers))

ControlledUatLanePersistenceAdmissionReview(q, w, up) ==
  LET inferred == Inferred(q)
  IN  Review(up, <<Kw("controlled_uat_lane_selection_review", q, PSAE),
                   Kw("job_persistence_admission_review", inferred, PSAE),
                   Kw("mutating_adapter_binding_review", inferred, PSAE),
                   Kw("controlled_uat_scope_review", inferred, PSAE)>>,
             Result("blocked",
                    Bound(up[1], up[1])
                    \cup {"hardware-reservation-admission-disabled", "lane-persistence-disabled",
                          "uat-entry-issuance-disabled"},
                    up[1].offers))

ControlledUatHardwareReservationReview(q, w, up) ==
  Review(up, <<Kw("controlled_uat_lane_selection_review", q, PSAE),
               Kw("controlled_uat_lane_persistence_admission_review", q, PSAE),
               Kw("deployment_window_reservation_review", q, PAE),
               Kw("deployment_scheduler_review", q, PAE), Kw("execution_lock_plan", q, PAE),
               Kw("controlled_uat_operations_review", Inferred(q), PSAE)>>,
         Result("blocked",
                Bound(up[2], up[2])
                \cup {"hardware-reservation-persistence-disabled",
                      "maintenance-window-open-disabled", "uat-entry-issuance-disabled"},
                up[2].offers))

ControlledUatReservationPersistenceAdmissionReview(q, w, up) ==
  LET inferred == Inferred(q)
  IN  Review(up, <<Kw("controlled_uat_hardware_reservation_review", q, PSAE),
                   Kw("controlled_uat_signoff_review", inferred, PSAE),
                   Kw("controlled_uat_operations_review", inferred, PSAE),
                   Kw("uat_evidence_acceptance_review", inferred, SAE)>>,
             Result("blocked",
                    Bound(up[1], up[1])
                    \cup {"maintenance-window-open-disabled",
                          "reservation-persistence-admission-disabled",
                          "uat-entry-issuance-disabled"},
                    up[1].offers))

(***************************************************************************)
(* From the entry to the completion.  The authorization and the completion  *)
(* do not stop at an invalid review: they say which identifiers they miss.  *)
(***************************************************************************)
ControlledUatEntryIssuanceReview(q, w, up) ==
  LET inferred == Inferred(q)
      reserved == q.include_hardware_reservation
  IN  Review(up, <<Mixed("controlled_uat_entry_review", q, Reserved),
                   CallIf(reserved, Kw("controlled_uat_hardware_reservation_review",
                                       inferred, PSAE)),
                   CallIf(reserved, Kw("controlled_uat_reservation_persistence_admission_review",
                                       inferred, PSAE)),
                   Kw("controlled_uat_signoff_review", inferred, PSAE),
                   Kw("uat_evidence_acceptance_review", inferred, SAE)>>,
             Result("blocked",
                    Bound(up[1], up[3])
                    \cup (IF reserved THEN {}
                          ELSE {"hardware-reservation-records-present",
                                "reservation-persistence-admission-reviewed",
                                "source-reviews-linked",
                                "provider-operation-queue-admission-bound"})
                    \cup {"adapter-execution-disabled", "uat-entry-issuance-disabled",
                          "uat-entry-persistence-disabled"},
                    Carry(up[1], up[3], up[3])))

ControlledUatEntryPersistenceAdmissionReview(q, w, up) ==
  LET inferred == Inferred(q)
  IN  Review(up, <<Kw("controlled_uat_entry_issuance_review", q, Reserved),
                   Kw("controlled_uat_signoff_review", inferred, PSAE),
                   Kw("controlled_uat_runbook_review", inferred, PSAE),
                   Kw("uat_evidence_acceptance_review", inferred, SAE)>>,
             Result("blocked",
                    Bound(up[1], up[1]) \cup Recorded(up[1], "entry-issuance-records-present")
                    \cup {"controlled-uat-start-disabled", "entry-persistence-admission-disabled",
                          "runner-start-disabled"},
                    up[1].offers))

ControlledUatStartReadinessReview(q, w, up) ==
  Review(up, <<Kw("controlled_uat_entry_issuance_review", q, Reserved),
               Kw("controlled_uat_entry_persistence_admission_review", q, Reserved)>>,
         Result("blocked",
                Bound(up[1], up[2]) \cup Recorded(up[2], "entry-issuance-records-present")
                \cup {"adapter-execution-disabled", "controlled-uat-start-disabled",
                      "runner-start-disabled"},
                Carry(up[1], up[2], up[2])))

ControlledUatStartPersistenceAdmissionReview(q, w, up) ==
  Review(up, <<Kw("controlled_uat_start_readiness_review", q, Reserved)>>,
         Result("blocked",
                Bound(up[1], up[1]) \cup Recorded(up[1], "start-readiness-records-present")
                \cup {"adapter-execution-disabled", "controlled-uat-start-disabled",
                      "runner-start-disabled", "start-persistence-admission-disabled"},
                up[1].offers))

ControlledUatRunnerAdmissionReview(q, w, up) ==
  Guarded(up, 4, 1..4,
          <<Kw("controlled_uat_start_persistence_admission_review", q, Reserved),
            Kw("adapter_runtime_isolation_review", q, PSAE),
            Kw("adapter_runtime_admission_review", q, PSAE),
            Kw("execution_runner_readiness", q, PAE)>>,
          Result("blocked",
                 Unless(AnyOffers({up[1], up[3], up[4]}, "gates"),
                        "approval-evidence-gates-bound")
                 \cup Unoffered(up[1], "completion", "controlled-uat-completion-gates-bound")
                 \cup Recorded(up[1], "start-readiness-records-present")
                 \cup {"adapter-execution-disabled", "runner-admission-persistence-disabled",
                       "runner-start-disabled"},
                 GatesOf({up[1], up[3], up[4]}) \cup Carried(up[1], {"completion", "records"})))

ControlledUatRunnerPersistenceAdmissionReview(q, w, up) ==
  Review(up, <<Kw("controlled_uat_runner_admission_review", q, Reserved)>>,
         Result("blocked",
                Bound(up[1], up[1]) \cup Recorded(up[1], "runner-admission-records-present")
                \cup {"adapter-execution-disabled", "runner-admission-persistence-disabled",
                      "runner-persistence-admission-disabled", "runner-start-disabled"},
                up[1].offers))

ControlledUatExecutionAuthorizationReview(q, w, up) ==
  Unguarded(up, <<Kw("controlled_uat_runner_persistence_admission_review", q, Reserved),
                  Kw("adapter_execution_preflight_review", q, PSAE),
                  Kw("adapter_target_connectivity_review", q, PSAE),
                  Kw("adapter_credential_handoff_review", q, PSAE),
                  Kw("adapter_command_invocation_review", q, PSAE),
                  Kw("adapter_output_evidence_review", q, PSAE)>>,
            Result("blocked",
                   Unless(AnyOffers({up[1], up[5], up[6]}, "gates"),
                          "approval-evidence-gates-bound")
                   \cup Unoffered(up[1], "completion", "controlled-uat-completion-gates-bound")
                   \cup Unoffered(up[1], "records", "runner-admission-records-present")
                   \cup Linked(up[5], "adapter-command-invocation-reviewed")
                   \cup Linked(up[6], "adapter-output-evidence-reviewed") \cup AllLinked(up)
                   \cup {"adapter-command-invocation-disabled",
                         "execution-authorization-persistence-disabled",
                         "live-output-capture-disabled", "mutating-job-submission-disabled"},
                   GatesOf({up[1], up[5], up[6]}) \cup Carried(up[1], {"completion", "records"})))

\* It takes the authorization with the hardware, unlike the reviews before it.
ControlledUatCompletionReview(q, w, up) ==
  Unguarded(up, <<Kw("controlled_uat_execution_authorization_review", q, PSAE),
                  Kw("adapter_output_evidence_review", q, PSAE),
                  Kw("retained_evidence_export_review", q, PSAE),
                  Kw("controlled_uat_signoff_review", q, SAE),
                  Kw("uat_evidence_acceptance_review", q, SAE)>>,
            Result("blocked",
                   Unless(AnyOffers({up[i] : i \in 1..4}, "gates"),
                          "approval-evidence-gates-bound")
                   \cup Unoffered(up[1], "completion", "controlled-uat-completion-gates-bound")
                   \cup Unoffered(up[1], "records", "execution-authorization-records-present")
                   \cup Linked(up[2], "output-evidence-reviewed")
                   \cup Linked(up[3], "retained-evidence-export-reviewed")
                   \cup Linked(up[4], "controlled-uat-signoff-reviewed") \cup AllLinked(up)
                   \cup {"adapter-promotion-disabled", "mutating-job-submission-disabled",
                         "production-support-certification-disabled",
                         "uat-completion-persistence-disabled"}, {}))
=============================================================================
