------------------------------ MODULE Evidence ------------------------------
(***************************************************************************)
(* The evidence a build leaves: the events its stages record, the typed    *)
(* graph S7 writes of them (src/compiler/graph/evidence.py), what S8 asks  *)
(* of the file, and what a consumer reads back out of it                   *)
(* (src/compiler/visualization/consumers/evidence_query.py).               *)
(*                                                                         *)
(* A trace is the sequence of a build's events; an event's identity is its *)
(* place in the trace.                                                     *)
(***************************************************************************)
EXTENDS Naturals, Sequences, FiniteSets, FiniteSetsExt

NoSubject == "none"

Event(stage, operation, subject) ==
  [stage |-> stage, operation |-> operation, subject |-> subject]

\* The family each kind of event belongs to.
Families ==
  [DISCOVERY       |-> {"discovery_complete", "node_created"},
   TOPOLOGY        |-> {"edge_typed", "bare_duplicate_edges_dropped"},
   ADDRESSING      |-> {"addresses_allocated"},
   GOVERNANCE      |-> {"governance_complete"},
   CONSTRUCTION    |-> {"ct_ir_built", "cs_ir_built", "cc_projection_built", "construction_complete"},
   PROJECTION      |-> {"artifact_projected", "vocabulary_projected", "tokenized_projected",
                        "evidence_projected"},
   MATERIALIZATION |-> {"artifact_written", "vocabulary_materialized", "tokenized_materialized",
                        "evidence_materialized", "evidence_graph_materialized",
                        "conformance_written"},
   VERIFICATION    |-> {"verification_complete"},
   ATTESTATION     |-> {"attestation_complete"}]

Built == {"ct_ir_built", "cs_ir_built", "cc_projection_built"}
Places(trace) == 1 .. Len(trace)
Of(trace, operation) == {k \in Places(trace) : trace[k].operation = operation}
Subjects(trace, operation) == {trace[k].subject : k \in Of(trace, operation)}

-----------------------------------------------------------------------------
(* The edges inferred from a trace.                                        *)

\* From the last event of a stage to the first of the next.
StageSequence(trace) ==
  {<<k - 1, k>> : k \in {j \in Places(trace) : j > 1 /\ trace[j].stage # trace[j - 1].stage}}

\* The discovery before it gates each node's creation.
Gated(trace) ==
  LET discoveries   == Of(trace, "discovery_complete")
      Before(j)     == {d \in discoveries : d < j}
  IN  {<<Max(Before(j)), j>> : j \in {k \in Of(trace, "node_created") : Before(k) # {}}}

\* What a construction built since the one before it.
Aggregated(trace) ==
  UNION {{j \in Places(trace) : /\ j < k /\ trace[j].operation \in Built
                                /\ \A e \in j .. k - 1 : trace[e].operation # "construction_complete"}
           \X {k} : k \in Of(trace, "construction_complete")}

Causality(trace) == Gated(trace) \union Aggregated(trace)

EvidenceGraphOf(trace) ==
  [events   |-> trace,
   sequence |-> StageSequence(trace),
   cause    |-> Causality(trace),
   families |-> [f \in DOMAIN Families |-> {k \in Places(trace) : trace[k].operation \in Families[f]}]]

MaxStages == 8

\* What S8 asks of the written file, its hash and its counts being those of its content.
GraphIsSound(graph) ==
  /\ \A edge \in graph.sequence \union graph.cause : {edge[1], edge[2]} \subseteq Places(graph.events)
  /\ graph.events # <<>> => graph.sequence # {}
  /\ Cardinality(graph.sequence) <= MaxStages

-----------------------------------------------------------------------------
(* What a consumer reads.                                                  *)

Downstream(graph, k) == {edge[2] : edge \in {e \in graph.cause : e[1] = k}}
Upstream(graph, k)   == {edge[1] : edge \in {e \in graph.cause : e[2] = k}}

\* Everything a backward search of the causes meets, the event itself included.
Ancestors(graph, k) ==
  LET reached[n \in 0 .. Len(graph.events)] ==
        IF n = 0 THEN {k}
        ELSE LET before == reached[n - 1]
             IN  before \union UNION {Upstream(graph, j) : j \in before}
  IN  IF k \in Places(graph.events) THEN reached[Len(graph.events)] ELSE {}

\* The stages on either side of each stage edge.
StagePairs(graph) ==
  {<<graph.events[edge[1]].stage, graph.events[edge[2]].stage>> : edge \in graph.sequence}

MaterializedOutputs(graph) == Subjects(graph.events, "artifact_written")
==============================================================================
