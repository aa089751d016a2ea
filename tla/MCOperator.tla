----------------------------- MODULE MCOperator -----------------------------
EXTENDS Operator

CONSTANTS ns1, ns2, llama, own, default

MCOneKey == {[namespace |-> ns1, name |-> llama]}

\* Two AutoScalers of one name, in two namespaces.
MCSameName == {[namespace |-> n, name |-> llama] : n \in {ns1, ns2}}

\* The flags of createProfilingJob, and those of rbg_profiler/main.py.
MCJobArgs ==
  {"model-name", "engine", "ttft-sla", "itl-sla", "rbg-name", "namespace", "output-configmap"}
MCRepositoryProfiler ==
  {"base-url", "model-name", "tokenizer", "num-gpus", "max-kv-tokens", "max-context-length",
   "namespace", "output-configmap", "output-dir", "update-configmap", "prefill-isl-points",
   "decode-isl-points", "decode-granularity"}

\* A spec with a profiler image of the user's own, made for the operator, and
\* one that leaves the default, rbg-profiler.
MCProfilerFlags == [spec \in Specs |-> IF spec = own THEN MCJobArgs ELSE MCRepositoryProfiler]
=============================================================================
