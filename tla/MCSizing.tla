------------------------------ MODULE MCSizing ------------------------------
EXTENDS Sizing

Arguments(prefill, decode, kv, context, granularity) ==
  [prefill_isl_points |-> prefill, decode_isl_points |-> decode, max_kv_tokens |-> kv,
   max_context_length |-> context, decode_granularity |-> granularity]

\* Adequate; too short a context; one concurrency per length; granularities
\* of 8 (where the step is rounded), 1 and 0.
MCSettings ==
  {Arguments(<<128, 256, 512, 1024>>, <<256, 1024>>, 3048, 2048, 2),
   Arguments(<<128, 256, 512, 1024>>, <<256, 1024>>, 3048, 1024, 2),
   Arguments(<<128, 256, 512, 1024>>, <<512, 768, 1024>>, 1700, 2048, 3),
   Arguments(<<128>>, <<256>>, 6804, 1024, 8),
   Arguments(<<128>>, <<256>>, 3048, 1024, 1),
   Arguments(<<128>>, <<256>>, 3048, 1024, 0)}

UserPoint(conc, isl) == [x |-> (2 * isl + 500) * conc, y |-> isl + 250]
MCUserProfiles ==
  {[prefill_isl |-> <<128, 256, 512, 1024>>, max_kv_tokens |-> 3048, whole |-> FALSE,
    points |-> <<UserPoint(1, 256), UserPoint(4, 256), UserPoint(1, 1024), UserPoint(2, 1024)>>]}

Metrics(num_req, isl, osl_, ttft, itl, duration) ==
  [num_req |-> num_req, isl |-> isl, osl |-> osl_, ttft |-> ttft, itl |-> itl,
   request_duration |-> duration]
MCLoads ==
  {Metrics(0, 0, 0, 0, 0, 0), Metrics(20, 256, 100, 100, 10, 2), Metrics(60, 1024, 200, 300, 30, 4)}

MCOutages == {Queries, {"num_req"}}

MCForecasts == [num_req |-> {90}, isl |-> {-64}, osl |-> {}]

\* Windows of 0 (never trimmed), below minimum_data_points, and of that size.
MCPredictors ==
  [load_predictor : {"constant"}, window_size : {2}]
    \cup [load_predictor : {"arima"}, window_size : {0, 2}]
    \cup [load_predictor : {"prophet"}, window_size : {1}]

MCPromptLengths == {-64, 0, 128, 256, 512, 1024}
Surface(prefill, itl, thpt) ==
  [ttft |-> [isl \in MCPromptLengths |-> 100],
   prefill_thpt |-> [isl \in MCPromptLengths |-> prefill],
   itl |-> [cell \in Positions \X Positions |-> itl[cell[2] + 1] + 5 * cell[1]],
   thpt |-> [cell \in Positions \X Positions |-> thpt[cell[2] + 1]]]

\* Throughput grows with the load; it falls again, and the interpolation
\* overshoots.
MCSurfaces ==
  {Surface(4096, <<10, 20, 40>>, <<200, 400, 500>>),
   Surface(-64, <<10, 20, 0>>, <<200, 400, 0>>)}

MCConfig ==
  [min_replicas |-> 1, max_prefill_replicas |-> 4, max_decode_replicas |-> 4,
   prefill_engine_num_gpu |-> 1, decode_engine_num_gpu |-> 1, max_gpu_budget |-> 8]
=============================================================================
