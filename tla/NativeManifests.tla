-------------------------- MODULE NativeManifests --------------------------
(***************************************************************************)
(* The manifests of a native Foundation intent: what it names (images,     *)
(* networks, secrets, discovered nodes), what its contracts ask for, and   *)
(* the operations of its hardware provider.  The intent is one Dell iDRAC  *)
(* provider with one hyperconverged cluster.                               *)
(***************************************************************************)
EXTENDS NativeReview

Plan(q, w, up) ==
  Return(IF "intent-valid" \in w THEN Result("valid", {}, {}) ELSE Invalid)

ImageSourceManifest(q, w, up) ==
  Review(up, <<Bare("plan")>>, Blocked((ImageFacts \ w) \cup {"image-staging-disabled"}))

NetworkManifest(q, w, up) ==
  Review(up, <<Bare("plan")>>, Blocked((NetworkFacts \ w) \cup {"network-configuration-disabled"}))

SecretReferenceManifest(q, w, up) ==
  Review(up, <<Bare("plan")>>, Blocked((SecretFacts \ w) \cup {"secret-use-disabled"}))

(***************************************************************************)
(* Secrets.  Each review repeats what the one before it lacks and adds the *)
(* references an operator declares; none of them may open a lease.         *)
(***************************************************************************)
SecretResolutionPlan(q, w, up) ==
  Review(up, <<Bare("secret_reference_manifest"), Pos("execution_admission_review", q, PAE)>>,
         Blocked((up[1].blocked \cap SecretFacts) \cup {"secret-store-adapter-disabled"}
                 \cup Unless(PassExcept(up[2], {"execution-adapter-disabled"}),
                             "execution-admission-reviewed")))

\* Bindings are declared for the references the intent holds.
SecretStoreBindingReview(q, w, up) ==
  Review(up, <<Pos("secret_resolution_plan", q, PAE)>>,
         Blocked({"secret-store-binding-disabled"}
                 \cup (IF "secret-references-declared" \in w THEN {}
                       ELSE {"secret-bindings-declared", "secret-audit-hooks-declared"})))

SecretStoreProviderContractReview(q, w, up) ==
  Review(up, <<Pos("secret_store_binding_review", q, PAE)>>,
         Blocked({"lease-opening-disabled", "secret-provider-approval-disabled"}
                 \cup Undeclared(q, {"secret-store-provider-declared", "secret-store-provider-supported",
                                     "secret-store-reference-declared"})))

SecretLeaseExecutionReview(q, w, up) ==
  Review(up, <<Pos("secret_store_provider_contract_review", q, PAE),
               Pos("secret_store_binding_review", q, PAE)>>,
         Blocked({"secret-lease-opening-disabled", "secret-audit-persistence-disabled",
                  "credential-handoff-disabled", "mutating-job-submission-disabled"}
                 \cup Unless("secret-bindings-declared" \notin up[2].blocked, "lease-records-declared")
                 \cup Undeclared(q, {"lease-owner-declared", "lease-policy-reference-declared",
                                     "audit-sink-reference-declared",
                                     "adapter-identity-reference-declared",
                                     "lease-revocation-reference-declared"})))

SecretAuditPersistenceReview(q, w, up) ==
  Review(up, <<Pos("secret_lease_execution_review", [q EXCEPT !.refs = FALSE], PAE \cup {"refs"})>>,
         Blocked({"secret-audit-append-disabled", "secret-audit-persistence-disabled",
                  "retained-artifact-read-disabled", "mutating-job-submission-disabled"}
                 \cup Unless("lease-records-declared" \notin up[1].blocked, "secret-audit-records-declared")
                 \cup Undeclared(q, {"audit-owner-declared", "audit-policy-reference-declared",
                                     "audit-sink-reference-declared",
                                     "audit-retention-reference-declared",
                                     "audit-failure-reference-declared"})))

(***************************************************************************)
(* Readiness, the graph of steps, and the contracts.                       *)
(***************************************************************************)
ExecutionReadiness(q, w, up) ==
  Unguarded(up, <<Bare("plan")>>,
            Result(IF up[1].status = "valid" THEN "blocked" ELSE "failed",
                   Unless(up[1].status = "valid", "plan-valid") \cup (ReadinessFacts \ w)
                   \cup {"execution-adapter-enabled"}, {}))

ExecutionGraph(q, w, up) == Review(up, <<Bare("plan")>>, Result("valid", {}, {}))

AdapterContracts(q, w, up) ==
  Return(IF "contracts-known" \in w THEN Result("valid", {}, {}) ELSE Invalid)

ProviderAdapterManifest(q, w, up) ==
  Return(IF "contracts-known" \notin w THEN Invalid
         ELSE Result(IF "mutation-enabled" \in w THEN "ready" ELSE "blocked",
                     Unless("mutation-enabled" \in w, "mutating-provider-operations-disabled")
                     \cup Unless({"mutation-enabled", "real-adapter-ready"} \subseteq w,
                                 "real-deployment-adapter-ready"), {}))

ClusterEvidencePacks(q, w, up) ==
  Review(up, <<Bare("plan"), Bare("execution_graph"),
               Pos("execution_readiness", [q EXCEPT !.phase = "imaging_only"], {"phase"}),
               Bare("adapter_contracts")>>,
         IF up[4].status = "valid" THEN Result("valid", {}, {}) ELSE Invalid)

UatEvidenceAcceptanceReview(q, w, up) ==
  LET missing == Unless(UatFacts \cap w # {}, "uat-evidence-declared")
                 \cup Unless(UatFacts \subseteq w, "required-uat-evidence-accepted")
                 \cup Unless(BothIds(q), "approval-evidence-binding-present")
  IN  Guarded(up, 2, {1, 2}, <<Bare("adapter_contracts"), Bare("cluster_evidence_packs")>>,
              Result(IF missing = {} THEN "ready_for_review" ELSE "blocked",
                     missing \cup {"acceptance-persistence-disabled"}, {}))

AdapterReadiness(q, w, up) ==
  Guarded(up, 2, {1, 2}, <<Bare("adapter_contracts"), Bare("cluster_evidence_packs")>>,
          Blocked(Unless(UatFacts \subseteq w, "uat-evidence-complete")
                  \cup {"approval-binding-required", "execution-switch-disabled"}))

(***************************************************************************)
(* Operations of the provider.                                             *)
(***************************************************************************)
ProviderTopologyMatrix(q, w, up) == Review(up, <<Bare("plan")>>, Blocked({}))

ProviderOperationCatalog(q, w, up) ==
  Review(up, <<Bare("plan"), Bare("provider_topology_matrix")>>,
         Blocked({"operation-execution-disabled"}))

ProviderOperationAdmissionReview(q, w, up) ==
  Review(up, <<Bare("plan"), Bare("provider_operation_catalog")>>,
         Blocked(Unless(BothIds(q), "approval-evidence-bindings-present")
                 \cup {"operation-admission-persistence-disabled",
                       "provider-operation-execution-disabled"}))

ProviderOperationQueuePlan(q, w, up) ==
  Guarded(up, 3, {1}, <<Bare("plan"), Kw("provider_operation_admission_review", q, PAE),
                        Bare("execution_graph")>>,
          Blocked({"operation-queue-persistence-disabled", "operation-enqueue-disabled"}))

ProviderOperationQueueAdmissionReview(q, w, up) ==
  Guarded(up, 2, {1, 2}, <<Bare("plan"), Kw("provider_operation_queue_plan", q, PAE)>>,
          Result("blocked",
                 Unless(BothIds(q), "approval-evidence-bindings-present")
                 \cup {"operation-queue-admission-persistence-disabled",
                       "operation-queue-enqueue-disabled"}, {"records"}))

(***************************************************************************)
(* From discovery to the validation of a created cluster.                  *)
(***************************************************************************)
ProviderPreflightManifest(q, w, up) ==
  Review(up, <<Bare("plan"), Bare("secret_reference_manifest"), Bare("network_manifest"),
               Bare("image_source_manifest"), Bare("provider_adapter_manifest")>>,
         Blocked(Unless(up[5].status = "blocked", "provider-adapter-manifest-reviewed")
                 \cup {"live-discovery-disabled"}))

DiscoveryContractManifest(q, w, up) ==
  Review(up, <<Bare("plan"), Bare("provider_preflight_manifest"), Bare("secret_reference_manifest")>>,
         Blocked((up[3].blocked \cap SecretFacts) \cup {"live-discovery-execution-disabled"}))

\* Without facts nothing is discovered, and what is not there is not unexpected.
DiscoveryReconciliationManifest(q, w, up) ==
  LET found == IF q.discovery_facts THEN w ELSE {"no-unexpected-discovered-nodes"}
  IN  Review(up, <<Bare("plan"), Bare("discovery_contract_manifest")>>,
             Blocked((DiscoveryFacts \ found) \cup {"promotion-disabled"}))

ImagingPlanManifest(q, w, up) ==
  Review(up, <<Bare("plan"), Bare("image_source_manifest"), Bare("network_manifest"),
               Bare("secret_reference_manifest"),
               Pos("discovery_reconciliation_manifest", q, {"discovery_facts"})>>,
         Blocked(Unless(up[2].blocked \cap {"image-sha256-present", "image-version-present"} = {},
                        "image-sources-ready")
                 \cup Unless(PassExcept(up[3], {"network-configuration-disabled"}),
                             "network-metadata-ready")
                 \cup Unless(up[4].blocked \cap SecretFacts = {}, "credential-references-ready")
                 \cup Unless(up[5].blocked \cap {"intended-nodes-discovered",
                                                 "discovery-facts-complete"} = {},
                             "discovery-reconciliation-reviewed")
                 \cup Unless("imaging-payload-fields-complete" \in w,
                             "imaging-payload-fields-complete")
                 \cup {"node-imaging-disabled"}))

ClusterFormationPlanManifest(q, w, up) ==
  Review(up, <<Bare("plan"), Bare("execution_graph"),
               Pos("imaging_plan_manifest", q, {"discovery_facts"}),
               Pos("execution_readiness", [q EXCEPT !.phase = "hci_cluster_create"], {"phase"})>>,
         Blocked(Unless("imaging-payload-fields-complete" \notin up[3].blocked,
                        "node-imaging-plan-ready")
                 \cup Unless("cluster-formation-fields-complete" \in w,
                             "cluster-formation-fields-complete")
                 \cup Unless(PassExcept(up[4], {"execution-adapter-enabled"}),
                             "cluster-create-readiness-gates-reviewed")
                 \cup {"cluster-formation-disabled"}))

PostCreateValidationManifest(q, w, up) ==
  Review(up, <<Pos("cluster_formation_plan_manifest", q, {"discovery_facts"})>>,
         Blocked(Unless("cluster-formation-fields-complete" \notin up[1].blocked,
                        "cluster-formation-plan-reviewed")
                 \cup {"post-create-validation-disabled"}))
=============================================================================
