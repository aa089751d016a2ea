--------------------------- MODULE LoadPredictor ---------------------------
(***************************************************************************)
(* The predictors of utils/load_predictor.py as operators on data_buffer.  *)
(* Prophet's buffer holds its values with time stamps that number the kept *)
(* points; the position of a value says the same, so it is left out.  The  *)
(* adapters never report NaN, so no value is one.                          *)
(***************************************************************************)
EXTENDS Integers, Sequences

CONSTANTS
  LoadPredictors,    \* LOAD_PREDICTORS' keys a planner may be configured with
  MinimumDataPoints  \* minimum_data_points of ARIMA and Prophet

ASSUME PredictorAssumption ==
  /\ LoadPredictors \subseteq {"constant", "arima", "prophet"}
  /\ MinimumDataPoints \in Nat \ {0}

\* Mutant: one entry too many.
OneTooMany(buffer, n) ==
  IF n = 0 \/ n + 1 >= Len(buffer) THEN buffer ELSE SubSeq(buffer, Len(buffer) - n, Len(buffer))

\* data_buffer[-n:], the whole list for n = 0.
LastEntries(buffer, n) ==
  IF n = 0 \/ n >= Len(buffer)
  THEN buffer
  ELSE SubSeq(buffer, Len(buffer) - n + 1, Len(buffer))

\* add_data_point: zeros before the first load are dropped, predictor by
\* predictor; the constant predictor keeps everything else.
AddDataPoint(kind, window, buffer, value) ==
  IF buffer = <<>> /\ value = 0
  THEN buffer
  ELSE IF kind = "constant"
  THEN Append(buffer, value)
  ELSE LastEntries(Append(buffer, value), window)

LastValue(buffer) == IF buffer = <<>> THEN 0 ELSE buffer[Len(buffer)]

\* Mutant: the minimum is forgotten.
PredictAtOnce(kind, buffer, forecasts) ==
  IF kind = "constant" \/ buffer = <<>> THEN {LastValue(buffer)} ELSE {LastValue(buffer)} \cup forecasts

\* predict_next: a fit that fails, or whose library is missing, falls back to
\* the last value; otherwise it is one of `forecasts`.
PredictNext(kind, buffer, forecasts) ==
  IF \/ kind = "constant"
     \/ Len(buffer) < MinimumDataPoints
     \/ kind = "arima" /\ \A i \in DOMAIN buffer : buffer[i] = buffer[1]
  THEN {LastValue(buffer)}
  ELSE {LastValue(buffer)} \cup forecasts
=============================================================================
