--------------------------- MODULE MCReplicaPlan ---------------------------
EXTENDS ReplicaPlan

CONSTANTS SpecReplicas, SpecGpus, EnvReplicas, EnvGpus, EnvBudget, MaxDemand

\* Minima above maxima included: the CRD does not compare them.
MCSpecs ==
  [prefillMinReplicas : 1..SpecReplicas, prefillMaxReplicas : 1..SpecReplicas,
   decodeMinReplicas : 1..SpecReplicas, decodeMaxReplicas : 1..SpecReplicas,
   prefillGPUs : 1..SpecGpus, decodeGPUs : 1..SpecGpus]

MCEnvConfigs ==
  [min_replicas : 0..2,
   max_prefill_replicas : 1..EnvReplicas, max_decode_replicas : 1..EnvReplicas,
   prefill_engine_num_gpu : 1..EnvGpus, decode_engine_num_gpu : 1..EnvGpus,
   max_gpu_budget : 0..EnvBudget]

\* A forecast may be negative.
MCDemands == -1..MaxDemand
=============================================================================
