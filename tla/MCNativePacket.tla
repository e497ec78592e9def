--------------------------- MODULE MCNativePacket ---------------------------
(***************************************************************************)
(* Review packets over intents, approvals and evidence that lack one thing *)
(* each, and the endpoint of every single review.                          *)
(***************************************************************************)
EXTENDS NativePacket

Everything ==
  {"intent-valid", "contracts-known", "secret-references-declared", "no-failed-steps"}
  \cup ImageFacts \cup NetworkFacts \cup SecretFacts \cup PayloadFacts \cup DiscoveryFacts
  \cup PolicyFacts \cup UatFacts \cup ApprovalFacts \cup EvidenceFacts \cup SummaryFacts

Identified == [Defaults EXCEPT !.approval_id = "approval", !.evidence_id = "evidence"]

RequestOf(name, q, held) ==
  [call |-> Mixed(name, q, {p \in DOMAIN Defaults : q[p] # Defaults[p]}), facts |-> held]
PacketOf(q, held) == RequestOf("review_packet_manifest", q, held)

Packets ==
  {PacketOf(Identified, Everything \ missing) :
     missing \in {{}, {"intent-valid"}, {"approval-status-approved"}}}

\* The reviews that stand at the ends of the longest chains, asked for alone.
Reviews ==
  {"controlled_uat_completion_review", "job_persistence_admission_review",
   "retained_evidence_export_review", "restart_resume_review", "deployment_scheduler_review",
   "adapter_allowlist_review"}

Alone ==
  {RequestOf(name, [Identified EXCEPT !.refs = TRUE], held) :
     name \in Reviews, held \in {Everything, Everything \ {"intent-valid"}}}
  \cup {RequestOf("post_create_validation_manifest", [Defaults EXCEPT !.discovery_facts = TRUE],
                  Everything)}
  \cup {RequestOf("controlled_uat_entry_issuance_review",
                  [Identified EXCEPT !.include_hardware_reservation = FALSE], Everything)}
  \cup {RequestOf("execution_retention_plan", Identified,
                  Everything \ (EvidenceFacts \cup SummaryFacts)),
        RequestOf("execution_retention_plan", [Identified EXCEPT !.approval_id = ""],
                  Everything)}

MCRequests == Packets \cup Alone
=============================================================================
