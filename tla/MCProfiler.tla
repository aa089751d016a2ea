----------------------------- MODULE MCProfiler -----------------------------
EXTENDS Profiler

\* The profiler's default points and granularity, for an engine of 1536 tokens
\* of context and 32768 tokens of KV cache.
MCSettings ==
  {[prefill_isl_points |-> <<128, 256, 512, 1024, 1536, 2048, 3072, 4096>>,
    decode_isl_points |-> <<256, 512, 1024, 2048, 3072>>,
    max_kv_tokens |-> 32768, max_context_length |-> 1536, decode_granularity |-> 6]}
=============================================================================
