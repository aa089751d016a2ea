---------------------------- MODULE SizingProofs ----------------------------
(***************************************************************************)
(* Theorems of Sizing, for every profiler argument, predictor, window,     *)
(* load and number of intervals.                                           *)
(*                                                                         *)
(* HistoriesAligned is inductive once it is known that the first entry a   *)
(* predictor keeps is, or comes after, a load (Started); WarmUp needs that *)
(* and what the numbers of a decision came from (Decided).  The grid needs *)
(* to know that the sweep is within its length (InSweep).                  *)
(***************************************************************************)
EXTENDS Sizing, TLAPS

-----------------------------------------------------------------------------
(* One predictor's history *)

\* What HistoriesAligned says of one predictor, which kept the last `kept` of
\* `past` observations, and that it started with a load.
HistoryAt(kind, window, buffer, seen, f, kept, past) ==
  /\ kept <= past
  /\ \A n \in 0..(kept - 1) : buffer[kept - n] = seen[past - n][f]
  /\ \/ kind # "constant" /\ window > 0 /\ kept = window
     \/ \A n \in 1..(past - kept) : seen[n][f] = 0
  /\ kind # "constant" /\ window > 0 => kept <= window
  /\ kept > 0 => \E n \in 1..(past - kept + 1) : seen[n][f] # 0

History(kind, window, buffer, seen, f) ==
  HistoryAt(kind, window, buffer, seen, f, Len(buffer), Len(seen))

Observation == [Fields -> Nat]

\* An empty history: nothing was observed.
LEMMA EmptyHistory ==
  ASSUME NEW kind, NEW window \in Nat, NEW f
  PROVE  History(kind, window, <<>>, <<>>, f)
  BY DEF History, HistoryAt

\* What the entries of a history one observation longer are.
LEMMA Appended ==
  ASSUME NEW S, NEW s \in Seq(S), NEW e \in S
  PROVE  /\ Append(s, e) \in Seq(S) /\ Len(Append(s, e)) = Len(s) + 1
         /\ Append(s, e)[Len(s) + 1] = e
         /\ \A n \in 1..Len(s) : Append(s, e)[n] = s[n]
         /\ Len(s) \in Nat
  OBVIOUS

\* data_buffer[-n:] of a longer buffer.
LEMMA Trimmed ==
  ASSUME NEW s \in Seq(Nat), NEW w \in Nat, w > 0, w < Len(s)
  PROVE  /\ LastEntries(s, w) \in Seq(Nat)
         /\ Len(LastEntries(s, w)) = w
         /\ \A n \in 0..(w - 1) : LastEntries(s, w)[w - n] = s[Len(s) - n]
  <1>1. LastEntries(s, w) = SubSeq(s, Len(s) - w + 1, Len(s))
    BY DEF LastEntries
  <1>2. Len(s) \in Nat
    OBVIOUS
  <1> DEFINE from == Len(s) - w + 1
             t == SubSeq(s, from, Len(s))
  <1>3. from \in 1..Len(s)
    BY <1>2
  <1>4. t \in Seq(Nat)
    <2> HIDE DEF from
    <2> QED BY <1>3
  <1>5. Len(t) = w
    BY <1>2
  <1>6. ASSUME NEW n \in 0..(w - 1) PROVE t[w - n] = s[Len(s) - n]
    <2>1. w - n \in 1..Len(t)
      <3> HIDE DEF t
      <3> QED BY <1>5
    <2>2. t[w - n] = s[from + (w - n) - 1]
      <3>1. w - n \in 1..(Len(s) - from + 1)
        BY <1>2
      <3> HIDE DEF from
      <3> QED BY <1>2, <1>3, <3>1
    <2>3. from + (w - n) - 1 = Len(s) - n
      BY <1>2
    <2> QED
      BY <2>2, <2>3
  <1> HIDE DEF t
  <1> QED
    BY <1>1, <1>4, <1>5, <1>6 DEF t

\* add_data_point keeps a history of the intervals observed.
LEMMA AddedToHistory ==
  ASSUME NEW kind, NEW window \in Nat, NEW buffer \in Seq(Nat),
         NEW seen \in Seq(Observation), NEW o \in Observation, NEW f \in Fields,
         History(kind, window, buffer, seen, f)
  PROVE  /\ AddDataPoint(kind, window, buffer, o[f]) \in Seq(Nat)
         /\ History(kind, window, AddDataPoint(kind, window, buffer, o[f]), Append(seen, o), f)
  <1> DEFINE value == o[f]
             grown == Append(buffer, value)
             now == Append(seen, o)
             kept == Len(buffer)
             past == Len(seen)
  <1>1. value \in Nat
    BY DEF Observation
  <1>2. /\ now \in Seq(Observation) /\ Len(now) = past + 1 /\ now[past + 1] = o
        /\ \A n \in 1..past : now[n] = seen[n]
        /\ past \in Nat
    BY Appended
  <1>3. /\ grown \in Seq(Nat) /\ Len(grown) = kept + 1 /\ grown[kept + 1] = value
        /\ \A n \in 1..kept : grown[n] = buffer[n]
        /\ kept \in Nat
    BY <1>1, Appended
  <1>4. /\ kept <= past
        /\ \A n \in 0..(kept - 1) : buffer[kept - n] = seen[past - n][f]
        /\ \/ kind # "constant" /\ window > 0 /\ kept = window
           \/ \A n \in 1..(past - kept) : seen[n][f] = 0
        /\ kind # "constant" /\ window > 0 => kept <= window
        /\ kept > 0 => \E n \in 1..(past - kept + 1) : seen[n][f] # 0
    BY DEF History, HistoryAt
  \* The entries of a grown buffer are aligned again.
  <1>5. \A n \in 0..kept : grown[(kept + 1) - n] = now[(past + 1) - n][f]
    <2> SUFFICES ASSUME NEW n \in 0..kept PROVE grown[(kept + 1) - n] = now[(past + 1) - n][f]
      OBVIOUS
    <2> HIDE DEF grown, now, kept, past
    <2>1. CASE n = 0
      BY <2>1, <1>2, <1>3 DEF value
    <2>2. CASE n > 0
      <3>1. n - 1 \in 0..(kept - 1) /\ (kept + 1) - n \in 1..kept /\ (past + 1) - n \in 1..past
        BY <2>2, <1>2, <1>3, <1>4
      <3>2. kept - (n - 1) = (kept + 1) - n /\ past - (n - 1) = (past + 1) - n
        <4>1. kept \in Int /\ past \in Int /\ n \in Int
          BY <1>2, <1>3
        <4> QED BY <4>1
      <3>3. buffer[kept - (n - 1)] = seen[past - (n - 1)][f]
        BY <3>1, <1>4
      <3> QED BY <3>1, <3>2, <3>3, <1>2, <1>3
    <2> QED BY <2>1, <2>2
  \* The first entry still is, or comes after, a load.
  <1>6. ~(buffer = <<>> /\ value = 0) => \E n \in 1..(past - kept + 1) : now[n][f] # 0
    <2>1. CASE kept = 0 /\ value # 0
      <3>1. past + 1 \in 1..(past - kept + 1)
        <4> HIDE DEF now, kept, past
        <4> QED BY <2>1, <1>2
      <3> HIDE DEF now, kept, past
      <3> QED BY <2>1, <3>1, <1>2 DEF value
    <2>2. CASE kept > 0
      <3>1. PICK n \in 1..(past - kept + 1) : seen[n][f] # 0
        BY <2>2, <1>4
      <3>2. n \in 1..past
        <4> HIDE DEF now, kept, past
        <4> QED BY <2>2, <3>1, <1>2, <1>3
      <3> HIDE DEF now, kept, past
      <3> QED BY <3>1, <3>2, <1>2
    <2>3. kept = 0 => buffer = <<>>
      OBVIOUS
    <2> HIDE DEF now, past
    <2> QED BY <2>1, <2>2, <2>3, <1>3
  <1>7. CASE buffer = <<>> /\ value = 0
    <2>1. AddDataPoint(kind, window, buffer, value) = buffer
      BY <1>7 DEF AddDataPoint
    <2>2. kept = 0
      BY <1>7
    <2>3. \A n \in 1..(past + 1) : now[n][f] = 0
      <3> SUFFICES ASSUME NEW n \in 1..(past + 1) PROVE now[n][f] = 0
        OBVIOUS
      <3>1. CASE n = past + 1
        <4> HIDE DEF now, past
        <4> QED BY <3>1, <1>2, <1>7 DEF value
      <3>2. CASE n # past + 1
        <4>1. n \in 1..past
          <5> HIDE DEF past
          <5> QED BY <3>2, <1>2
        <4>2. ~(kind # "constant" /\ window > 0 /\ kept = window)
          <5> HIDE DEF kept
          <5> QED BY <2>2
        <4> HIDE DEF now, past, kept
        <4> QED BY <2>2, <4>1, <4>2, <1>2, <1>4
      <3> QED BY <3>1, <3>2
    <2>4. Len(buffer) = 0 /\ (past + 1) - 0 = past + 1
      BY <1>2, <1>7
    <2>5. History(kind, window, buffer, now, f)
      <3>1. HistoryAt(kind, window, buffer, now, f, 0, past + 1)
        <4>1. 0 <= past + 1 /\ 0..(0 - 1) = {} /\ ~(0 > 0) /\ (window > 0 => 0 <= window)
          <5> HIDE DEF past
          <5> QED BY <1>2
        <4> HIDE DEF now, past, kept
        <4> QED BY <2>3, <2>4, <4>1 DEF HistoryAt
      <3>2. Len(buffer) = 0 /\ Len(now) = past + 1
        BY <1>2, <1>7
      <3> HIDE DEF now, past
      <3> QED BY <3>1, <3>2 DEF History
    <2> QED BY <2>1, <2>5
  <1>8. CASE /\ ~(buffer = <<>> /\ value = 0)
             /\ kind = "constant" \/ window = 0 \/ window >= kept + 1
    <2>1. AddDataPoint(kind, window, buffer, value) = grown
      <3> HIDE DEF grown
      <3> QED BY <1>3, <1>8 DEF AddDataPoint, LastEntries, grown
    <2>2. ~(kind # "constant" /\ window > 0 /\ kept = window)
      <3> HIDE DEF kept
      <3> QED BY <1>3, <1>8
    <2>3. \A n \in 1..(past - kept) : now[n][f] = 0
      <3> HIDE DEF now, past, kept
      <3> QED BY <2>2, <1>2, <1>3, <1>4
    <2>4. (past + 1) - (kept + 1) = past - kept
      <3> HIDE DEF past, kept
      <3> QED BY <1>2, <1>3
    <2>5. kind # "constant" /\ window > 0 => kept + 1 <= window
      <3> HIDE DEF kept
      <3> QED BY <1>3, <1>8
    <2>6. \A n \in 0..((kept + 1) - 1) : grown[(kept + 1) - n] = now[(past + 1) - n][f]
      <3> HIDE DEF now, past, kept, grown
      <3> QED BY <1>3, <1>5
    <2>7. History(kind, window, grown, now, f)
      <3>1. HistoryAt(kind, window, grown, now, f, kept + 1, past + 1)
        <4>1. kept + 1 <= past + 1 /\ (past + 1) - (kept + 1) + 1 = past - kept + 1
          <5> HIDE DEF past, kept
          <5> QED BY <1>2, <1>3, <1>4
        <4>2. \E n \in 1..(past - kept + 1) : now[n][f] # 0
          BY <1>6, <1>8
        <4> HIDE DEF now, past, kept, grown
        <4> QED BY <2>3, <2>4, <2>5, <2>6, <4>1, <4>2 DEF HistoryAt
      <3>2. Len(grown) = kept + 1 /\ Len(now) = past + 1
        BY <1>2, <1>3
      <3> HIDE DEF now, past, kept, grown
      <3> QED BY <3>1, <3>2 DEF History
    <2> QED BY <2>1, <2>7, <1>3
  <1>9. CASE /\ ~(buffer = <<>> /\ value = 0)
             /\ kind # "constant" /\ window > 0 /\ window < kept + 1
    <2> DEFINE last == LastEntries(grown, window)
    <2>1. AddDataPoint(kind, window, buffer, value) = last
      BY <1>9 DEF AddDataPoint
    <2>2. /\ last \in Seq(Nat) /\ Len(last) = window
          /\ \A n \in 0..(window - 1) : last[window - n] = grown[(kept + 1) - n]
      <3> HIDE DEF grown, kept
      <3>1. window < Len(grown)
        BY <1>3, <1>9
      <3>2. \A n \in 0..(window - 1) : last[window - n] = grown[Len(grown) - n]
        BY <3>1, <1>3, <1>9, Trimmed
      <3>3. last \in Seq(Nat) /\ Len(last) = window
        BY <3>1, <1>3, <1>9, Trimmed
      <3> HIDE DEF last
      <3> QED BY <3>2, <3>3, <1>3
    <2>3. \A n \in 0..(window - 1) : last[window - n] = now[(past + 1) - n][f]
      <3> SUFFICES ASSUME NEW n \in 0..(window - 1)
                   PROVE  last[window - n] = now[(past + 1) - n][f]
        OBVIOUS
      <3>1. last[window - n] = grown[(kept + 1) - n]
        <4> HIDE DEF grown, kept, last
        <4> QED BY <2>2
      <3>2. n \in 0..kept
        <4> HIDE DEF kept
        <4> QED BY <1>3, <1>9
      <3>3. grown[(kept + 1) - n] = now[(past + 1) - n][f]
        <4> HIDE DEF grown, kept, now, past
        <4> QED BY <1>5, <3>2
      <3> QED BY <3>1, <3>3
    <2>4. \E n \in 1..((past + 1) - window + 1) : now[n][f] # 0
      <3>1. PICK n \in 1..(past - kept + 1) : now[n][f] # 0
        BY <1>6, <1>9
      <3>2. n \in 1..((past + 1) - window + 1)
        <4> HIDE DEF now, past, kept
        <4> QED BY <3>1, <1>2, <1>3, <1>9
      <3> QED BY <3>1, <3>2
    <2>5. window <= past + 1
      <3> HIDE DEF past, kept
      <3> QED BY <1>2, <1>3, <1>4, <1>9
    <2>6. History(kind, window, last, now, f)
      <3>1. HistoryAt(kind, window, last, now, f, window, past + 1)
        <4> HIDE DEF now, past, kept, last
        <4> QED BY <2>3, <2>4, <2>5, <1>9 DEF HistoryAt
      <3>2. Len(last) = window /\ Len(now) = past + 1
        BY <2>2, <1>2
      <3> HIDE DEF now, past, last
      <3> QED BY <3>1, <3>2 DEF History
    <2> QED BY <2>1, <2>2, <2>6
  <1> HIDE DEF kept
  <1> QED
    BY <1>3, <1>7, <1>8, <1>9 DEF value

-----------------------------------------------------------------------------
(* The three histories, and the decisions made on them *)

HistoryTyped ==
  /\ window_size \in Nat
  /\ data_buffers \in [Fields -> Seq(Nat)]
  /\ observed \in Seq(Observation)

Started ==
  \A f \in Fields : History(load_predictor, window_size, data_buffers[f], observed, f)

\* From an observation to the next, last_metrics is the last one.
Fresh ==
  pc = "adjust" \/ decision.made =>
    /\ Len(observed) > 0
    /\ \A f \in Fields : last_metrics[f] = observed[Len(observed)][f]

\* The load of a decision is what the predictors make of the buffers in force.
Decided ==
  decision.made =>
    \A f \in Fields : decision.load[f] \in PredictNext(load_predictor, data_buffers[f], Forecasts[f])

IInv == HistoryTyped /\ Started /\ Fresh /\ Decided

\* A new process knows nothing.
LEMMA Forgotten ==
  ASSUME data_buffers = [f \in Fields |-> <<>>], observed = <<>>, decision = NoDecision,
         window_size \in Nat, pc = "down"
  PROVE  IInv
  <1>1. Started
    BY EmptyHistory DEF Started
  <1>2. HistoryTyped
    BY DEF HistoryTyped
  <1>3. Fresh /\ Decided
    BY DEF Fresh, Decided, NoDecision
  <1> QED
    BY <1>1, <1>2, <1>3 DEF IInv

\* One observation.
LEMMA ObserveKeeps ==
  ASSUME IInv, NEW load \in [Queries -> Nat], NEW failed, Observe(load, failed)
  PROVE  IInv'
  <1> DEFINE metrics == Reported(load, failed)
             o == [f \in Fields |-> metrics[f]]
  <1>1. metrics \in [Queries -> Nat]
    BY DEF Reported
  <1>2. o \in Observation
    <2>1. Fields \subseteq Queries
      BY DEF Queries
    <2> HIDE DEF metrics
    <2> QED BY <1>1, <2>1 DEF Observation
  <1>3. /\ last_metrics' = metrics
        /\ data_buffers' = [f \in Fields |-> AddDataPoint(load_predictor, window_size, data_buffers[f], metrics[f])]
        /\ observed' = Append(observed, o)
        /\ decision' = NoDecision /\ pc' = "adjust"
        /\ load_predictor' = load_predictor /\ window_size' = window_size
    BY DEF Observe, FeedPredictors
  <1>4. /\ window_size \in Nat
        /\ data_buffers \in [Fields -> Seq(Nat)]
        /\ observed \in Seq(Observation)
        /\ \A f \in Fields : History(load_predictor, window_size, data_buffers[f], observed, f)
    BY DEF IInv, HistoryTyped, Started
  <1>5. ASSUME NEW f \in Fields
        PROVE  /\ data_buffers'[f] \in Seq(Nat)
               /\ History(load_predictor', window_size', data_buffers'[f], observed', f)
    <2>1. data_buffers'[f] = AddDataPoint(load_predictor, window_size, data_buffers[f], o[f])
      <3> HIDE DEF metrics
      <3> QED BY <1>3
    <2> HIDE DEF o
    <2> QED BY <2>1, <1>2, <1>3, <1>4, AddedToHistory
  <1>6. HistoryTyped'
    <2>1. observed' \in Seq(Observation)
      <3> HIDE DEF o
      <3> QED BY <1>2, <1>3, <1>4
    <2>2. data_buffers' = [f \in Fields |-> data_buffers'[f]]
      <3> HIDE DEF metrics, o
      <3> QED BY <1>3
    <2>3. data_buffers' \in [Fields -> Seq(Nat)]
      BY <2>2, <1>5
    <2> QED BY <2>1, <2>3, <1>3, <1>4 DEF HistoryTyped
  <1>7. Started'
    BY <1>5 DEF Started
  <1>8. Fresh'
    <2>1. Len(observed') = Len(observed) + 1 /\ observed'[Len(observed')] = o /\ Len(observed) \in Nat
      <3> HIDE DEF o
      <3> QED BY <1>2, <1>3, <1>4, Appended
    <2>2. Len(observed') > 0
      BY <2>1
    <2>3. \A f \in Fields : last_metrics'[f] = o[f]
      <3> HIDE DEF metrics
      <3> QED BY <1>3
    <2> HIDE DEF o
    <2> QED BY <2>1, <2>2, <2>3 DEF Fresh
  <1>9. Decided'
    BY <1>3 DEF Decided, NoDecision
  <1> QED
    BY <1>6, <1>7, <1>8, <1>9 DEF IInv

\* One decision: its load comes from the predictors, if there is one.
LEMMA AdjustDecides ==
  ASSUME Adjust
  PROVE  decision'.made =>
           \A f \in Fields :
             decision'.load[f] \in PredictNext(load_predictor, data_buffers[f], Forecasts[f])
  <1> DEFINE Planned(load, row, n, k) ==
        \E plan \in Plans(Config, [prefill |-> n, decode |-> k]) :
          decision' = [made |-> TRUE, load |-> load, row |-> row,
                       p |-> p_correction_factor', d |-> d_correction_factor', plan |-> plan]
  <1>1. PICK load \in Predictions : decision' = NoDecision \/ \E row, n, k : Planned(load, row, n, k)
    BY DEF Adjust
  <1>2. \A f \in Fields : load[f] \in PredictNext(load_predictor, data_buffers[f], Forecasts[f])
    BY DEF Predictions
  <1>3. CASE decision' = NoDecision
    BY <1>3 DEF NoDecision
  <1>4. CASE \E row, n, k : Planned(load, row, n, k)
    <2>1. decision'.load = load
      BY <1>4
    <2> QED BY <2>1, <1>2
  <1> QED
    BY <1>1, <1>3, <1>4

\* What the steps of the job, the container and the loop do to the histories.
LEMMA HistoryStep == IInv /\ [Next]_vars => IInv'
  <1> SUFFICES ASSUME IInv, [Next]_vars PROVE IInv'
    OBVIOUS
  <1>1. CASE \/ ProfilerNext /\ UNCHANGED planner
             \/ UNCHANGED vars
    <2>1. UNCHANGED planner
      BY <1>1 DEF vars
    <2> QED BY <2>1 DEF planner, IInv, HistoryTyped, Started, Fresh, Decided
  <1>2. CASE Load
    BY <1>2 DEF Load, IInv, HistoryTyped, Started, Fresh, Decided
  <1>3. CASE KillPlanner
    <2>1. /\ data_buffers' = [f \in Fields |-> <<>>] /\ observed' = <<>>
          /\ decision' = NoDecision /\ pc' = "down" /\ window_size' \in Nat
      BY <1>3 DEF KillPlanner, Forget, IInv, HistoryTyped
    <2>2. Started'
      BY <2>1, EmptyHistory DEF Started
    <2> QED BY <2>1, <2>2 DEF IInv, HistoryTyped, Fresh, Decided, NoDecision
  <1>4. CASE ObserveAll \/ ObserveOutage
    <2>1. PICK load \in Loads, failed \in {{}} \cup Outages : Observe(load, failed)
      BY <1>4 DEF ObserveAll, ObserveOutage
    <2> QED BY <2>1, ObserveKeeps, SizingAssumption
  <1>5. CASE Adjust
    <2>1. /\ pc = "adjust"
          /\ UNCHANGED <<load_predictor, window_size, data_buffers, last_metrics, observed>>
      BY <1>5 DEF Adjust
    <2>2. Decided'
      BY <2>1, <1>5, AdjustDecides DEF Decided
    <2> QED BY <2>1, <2>2 DEF IInv, HistoryTyped, Started, Fresh
  <1>6. CASE SkipAdjust
    BY <1>6 DEF SkipAdjust, NoDecision, IInv, HistoryTyped, Started, Fresh, Decided
  <1> QED
    BY <1>1, <1>2, <1>3, <1>4, <1>5, <1>6 DEF Next

\* IInv holds in every state.
LEMMA HistoryInvariant == Spec => []IInv
  <1>1. Init => IInv
    <2> SUFFICES ASSUME Init PROVE IInv
      OBVIOUS
    <2>1. window_size \in Nat
      BY SizingAssumption DEF Init
    <2> QED BY <2>1, Forgotten DEF Init
  <1> QED
    BY <1>1, HistoryStep, PTL DEF Spec

\* The histories of the three predictors describe the same intervals, whatever
\* the predictor and its window, through outages, idle intervals and restarts.
THEOREM PredictorsAreAligned == Spec => []HistoriesAligned
  <1>1. IInv => HistoriesAligned
    BY DEF IInv, Started, History, HistoryAt, HistoriesAligned, Windowed
  <1> QED
    BY <1>1, HistoryInvariant, PTL

\* Where an observation or a decision stands, a predictor's last value is what
\* was last observed: its buffer ends there, or is empty because it was 0.
LEMMA LastObserved ==
  ASSUME IInv, pc = "adjust" \/ decision.made, NEW f \in Fields
  PROVE  LastValue(data_buffers[f]) = last_metrics[f]
  <1> DEFINE buffer == data_buffers[f]
             kept == Len(buffer)
             past == Len(observed)
  <1>1. /\ buffer \in Seq(Nat) /\ kept \in Nat /\ past \in Nat
        /\ past > 0 /\ last_metrics[f] = observed[past][f]
        /\ HistoryAt(load_predictor, window_size, buffer, observed, f, kept, past)
    BY DEF IInv, HistoryTyped, Started, Fresh, History
  <1>2. CASE kept = 0
    <2>1. buffer = <<>>
      BY <1>1, <1>2
    <2>2. observed[past][f] = 0
      <3> HIDE DEF buffer, kept, past
      <3> QED BY <1>1, <1>2 DEF HistoryAt
    <2> QED BY <1>1, <2>1, <2>2 DEF LastValue
  <1>3. CASE kept > 0
    <2>1. buffer[kept - 0] = observed[past - 0][f]
      <3>1. 0 \in 0..(kept - 1)
        <4> HIDE DEF buffer, kept, past
        <4> QED BY <1>1, <1>3
      <3>2. \A n \in 0..(kept - 1) : buffer[kept - n] = observed[past - n][f]
        <4> HIDE DEF buffer, kept, past
        <4> QED BY <1>1 DEF HistoryAt
      <3> HIDE DEF buffer, kept, past
      <3> QED BY <3>1, <3>2
    <2>2. buffer # <<>>
      BY <1>3
    <2>3. LastValue(buffer) = buffer[kept]
      BY <2>2 DEF LastValue
    <2>4. kept - 0 = kept /\ past - 0 = past
      <3> HIDE DEF buffer, kept, past
      <3> QED BY <1>1
    <2> HIDE DEF buffer, kept, past
    <2> QED BY <1>1, <2>1, <2>3, <2>4 DEF buffer
  <1> HIDE DEF kept
  <1> QED BY <1>1, <1>2, <1>3

\* No forecast before minimum_data_points intervals of load, and none at all if
\* the window is shorter.
THEOREM ForecastsAreWarm == Spec => []WarmUp
  <1>1. IInv => WarmUp
    <2> SUFFICES ASSUME IInv, decision.made, NEW f \in Fields, decision.load[f] # last_metrics[f]
                 PROVE  /\ load_predictor # "constant"
                        /\ window_size = 0 \/ window_size >= MinimumDataPoints
                        /\ \E n \in 1..(Len(observed) + 1 - MinimumDataPoints) : observed[n][f] # 0
      BY DEF WarmUp
    <2> DEFINE buffer == data_buffers[f]
               kept == Len(buffer)
               past == Len(observed)
    <2>1. /\ buffer \in Seq(Nat) /\ kept \in Nat /\ past \in Nat /\ window_size \in Nat
          /\ past > 0 /\ last_metrics[f] = observed[past][f]
          /\ HistoryAt(load_predictor, window_size, buffer, observed, f, kept, past)
          /\ decision.load[f] \in PredictNext(load_predictor, buffer, Forecasts[f])
      BY DEF IInv, HistoryTyped, Started, Fresh, Decided, History
    <2>2. LastValue(buffer) = last_metrics[f]
      BY LastObserved
    <2>3. load_predictor # "constant" /\ ~(kept < MinimumDataPoints)
      BY <2>1, <2>2 DEF PredictNext
    <2>4. MinimumDataPoints \in Nat \ {0}
      BY PredictorAssumption
    <2>5. window_size = 0 \/ window_size >= MinimumDataPoints
      <3> HIDE DEF buffer, kept, past
      <3> QED BY <2>1, <2>3, <2>4 DEF HistoryAt
    <2>6. PICK n \in 1..(past - kept + 1) : observed[n][f] # 0
      <3> HIDE DEF buffer, kept, past
      <3> QED BY <2>1, <2>3, <2>4 DEF HistoryAt
    <2>7. n \in 1..(past + 1 - MinimumDataPoints)
      <3>1. /\ kept \in Int /\ past \in Int /\ MinimumDataPoints \in Int
            /\ n \in 1..(past - kept + 1) /\ ~(kept < MinimumDataPoints)
        BY <2>1, <2>3, <2>4
      <3> HIDE DEF buffer, kept, past
      <3> QED BY <3>1
    <2> QED
      BY <2>3, <2>5, <2>6, <2>7
  <1> QED
    BY <1>1, HistoryInvariant, PTL

-----------------------------------------------------------------------------
(* The decode sweep stays on the grid *)

\* A non-zero position in a sweep belongs to a length that is swept.
InSweep ==
  \/ i = 0
  \/ /\ phase = "decode" /\ at <= Len(args.decode_isl_points)
     /\ Swept(args.decode_isl_points[at])
     /\ i < SweepLength(MaxConcurrency(args.decode_isl_points[at]))

GridPoints == [x : 0..(2 * args.max_kv_tokens), y : Nat]

GridInv ==
  /\ args \in Settings
  /\ at \in Nat \ {0} /\ i \in Nat
  /\ points \in Seq(GridPoints)
  /\ InSweep

\* The arguments are numbers.
LEMMA ArgumentsTyped ==
  ASSUME args \in Settings
  PROVE  /\ args.decode_isl_points \in Seq(Nat \ {0})
         /\ args.max_kv_tokens \in Nat /\ args.decode_granularity \in Int
  BY ProfilerAssumption

\* The largest concurrency is what fits into the cache.
LEMMA MaxConcurrencyFits ==
  ASSUME args \in Settings, NEW isl \in Nat \ {0}
  PROVE  /\ MaxConcurrency(isl) \in Nat
         /\ MaxConcurrency(isl) * (isl + osl) <= args.max_kv_tokens
  <1> DEFINE kv == args.max_kv_tokens
             per == isl + osl
             q == kv \div per
             m == AtMost(q, 512)
  <1>1. kv \in Nat /\ per \in Nat \ {0}
    BY ArgumentsTyped DEF osl
  <1>2. q \in Nat /\ q * per <= kv
    <2> HIDE DEF kv, per
    <2> QED BY <1>1
  <1>3. m \in Nat /\ m <= q
    <2> HIDE DEF q
    <2> QED BY <1>2 DEF AtMost
  <1>4. m * per <= q * per
    <2>1. m \in Nat /\ q \in Nat /\ per \in Nat /\ m <= q
      BY <1>1, <1>2, <1>3
    <2> HIDE DEF m, q, per
    <2>2. (q - m) * per >= 0 /\ (q - m) * per = q * per - m * per
      BY <2>1
    <2> QED BY <2>1, <2>2
  <1>5. m * per <= kv
    <2>1. m * per \in Int /\ q * per \in Int
      <3>1. m \in Nat /\ q \in Nat /\ per \in Nat
        BY <1>1, <1>2, <1>3
      <3> HIDE DEF m, q, per
      <3> QED BY <3>1
    <2> HIDE DEF m, q, per, kv
    <2> QED BY <1>1, <1>2, <1>4, <2>1
  <1> QED
    BY <1>3, <1>5 DEF MaxConcurrency

\* No concurrency of a sweep exceeds the largest.
LEMMA ConcurrencyInRange ==
  ASSUME args \in Settings, NEW max \in Nat, NEW n \in Nat, n < SweepLength(max),
         ~(args.decode_granularity = 1 /\ max > 1),
         NEW conc \in Concurrencies(max, n)
  PROVE  conc \in 0..max
  <1> DEFINE gran == args.decode_granularity
             steps == n * (max - 1)
             gaps == gran - 1
             q == steps \div gaps
  <1>1. gran \in Int
    BY ArgumentsTyped
  <1>2. CASE max <= gran
    <2>1. conc = n + 1 /\ n < max
      BY <1>2 DEF Concurrencies, SweepLength
    <2> QED BY <2>1
  <1>3. CASE ~(max <= gran)
    <2>1. conc \in {q + 1, q}
      <3> HIDE DEF q, steps, gaps
      <3> QED BY <1>3 DEF Concurrencies, q, steps, gaps
    <2>2. n < AtLeast(gran, 0)
      BY <1>3 DEF SweepLength
    <2>3. gran >= 2 /\ n <= gran - 1 /\ max >= 3
      <3> HIDE DEF gran
      <3> QED BY <1>1, <1>3, <2>2 DEF AtLeast, gran
    <2>4. gaps \in Nat \ {0} /\ max - 1 \in Nat /\ n <= gaps
      <3> HIDE DEF gran
      <3> QED BY <1>1, <2>3
    <2>5. steps \in Nat /\ steps <= gaps * (max - 1)
      <3>1. (gaps - n) * (max - 1) >= 0 /\ (gaps - n) * (max - 1) = gaps * (max - 1) - n * (max - 1)
        <4> HIDE DEF gaps
        <4> QED BY <2>4
      <3>2. n * (max - 1) \in Nat /\ gaps * (max - 1) \in Int
        <4> HIDE DEF gaps
        <4> QED BY <2>4
      <3> HIDE DEF gaps
      <3> QED BY <3>1, <3>2
    <2>6. q \in Nat /\ q <= max - 1
      <3>1. q \in Nat /\ q * gaps <= steps
        <4> HIDE DEF steps, gaps
        <4> QED BY <2>4, <2>5
      <3>2. SUFFICES ASSUME max <= q PROVE FALSE
        <4> HIDE DEF q
        <4> QED BY <3>1
      <3>3. max * gaps <= q * gaps
        <4>1. (q - max) * gaps >= 0 /\ (q - max) * gaps = q * gaps - max * gaps
          <5> HIDE DEF q, gaps
          <5> QED BY <3>1, <3>2, <2>4
        <4>2. q * gaps \in Int /\ max * gaps \in Int
          <5> HIDE DEF q, gaps
          <5> QED BY <3>1, <2>4
        <4> HIDE DEF q, gaps
        <4> QED BY <4>1, <4>2
      <3>4. gaps * (max - 1) = max * gaps - gaps
        <4> HIDE DEF gaps
        <4> QED BY <2>4
      <3>5. q * gaps \in Int /\ max * gaps \in Int
        <4> HIDE DEF q, gaps
        <4> QED BY <3>1, <2>4
      <3> HIDE DEF q, gaps, steps
      <3> QED BY <3>1, <3>3, <3>4, <3>5, <2>4, <2>5
    <2> HIDE DEF q
    <2> QED BY <2>1, <2>6
  <1> QED
    BY <1>2, <1>3

\* A benchmark within the largest concurrency is a point of the grid.
LEMMA PointOnGrid ==
  ASSUME args \in Settings, NEW isl \in Nat \ {0}, NEW conc \in 0..MaxConcurrency(isl)
  PROVE  Point(isl, conc) \in GridPoints
  <1> DEFINE kv == args.max_kv_tokens
             m == MaxConcurrency(isl)
  <1>1. m \in Nat /\ m * (isl + 500) <= kv /\ kv \in Nat
    BY MaxConcurrencyFits, ArgumentsTyped DEF osl
  <1>2. conc \in Nat /\ conc <= m
    <2> HIDE DEF m
    <2> QED BY <1>1 DEF m
  <1>3. (2 * isl + 500) * conc \in Nat
    BY <1>2
  <1>4. (2 * isl + 500) * conc <= 2 * kv
    <2>1. (m - conc) * (2 * isl + 500) >= 0
      <3> HIDE DEF m
      <3> QED BY <1>1, <1>2
    <2>2. (m - conc) * (2 * isl + 500) = 2 * (m * isl) + 500 * m - (2 * isl + 500) * conc
      <3> HIDE DEF m
      <3> QED BY <1>1, <1>2
    <2>3. m * (isl + 500) = m * isl + 500 * m
      <3> HIDE DEF m
      <3> QED BY <1>1
    <2>4. m * isl \in Int
      <3> HIDE DEF m
      <3> QED BY <1>1
    <2> HIDE DEF m, kv
    <2> QED BY <1>1, <1>3, <2>1, <2>2, <2>3, <2>4
  <1>5. isl + 500 \div 2 \in Nat
    OBVIOUS
  <1>6. (2 * isl + 500) * conc \in 0..(2 * kv)
    <2> HIDE DEF kv
    <2> QED BY <1>1, <1>3, <1>4
  <1> QED
    BY <1>5, <1>6 DEF Point, GridPoints, osl

\* One benchmark.
LEMMA BenchKeeps ==
  ASSUME GridInv, ProfileDecode
  PROVE  GridInv'
  <1> DEFINE isl == args.decode_isl_points[at]
             max == MaxConcurrency(isl)
  <1>1. /\ args \in Settings /\ at \in Nat \ {0} /\ i \in Nat /\ points \in Seq(GridPoints)
        /\ phase = "decode" /\ at <= Len(args.decode_isl_points)
        /\ Swept(isl) /\ ~OneStepOnly(isl)
        /\ args' = args /\ phase' = phase
    BY DEF GridInv, ProfileDecode
  <1>2. isl \in Nat \ {0}
    <2>1. args.decode_isl_points \in Seq(Nat \ {0})
      BY <1>1, ArgumentsTyped
    <2> QED BY <1>1, <2>1
  <1>3. max \in Nat
    <2> HIDE DEF isl
    <2> QED BY <1>1, <1>2, MaxConcurrencyFits DEF max
  <1>4. i < SweepLength(max)
    <2>1. CASE i = 0
      <3> HIDE DEF isl
      <3> QED BY <1>1, <2>1 DEF Swept, max
    <2>2. CASE i # 0
      BY <2>2 DEF GridInv, InSweep
    <2> QED BY <2>1, <2>2
  <1>5. ~(args.decode_granularity = 1 /\ max > 1)
    <2> HIDE DEF isl
    <2> QED BY <1>1 DEF OneStepOnly, Swept, max
  <1>6. points' \in Seq(GridPoints)
    <2>1. PICK conc \in Concurrencies(max, i) : points' = points \/ points' = Append(points, Point(isl, conc))
      <3> HIDE DEF isl, max
      <3> QED BY DEF ProfileDecode, max, isl
    <2>2. Point(isl, conc) \in GridPoints
      <3>1. conc \in 0..max
        <4> HIDE DEF isl, max
        <4> QED BY <1>1, <1>3, <1>4, <1>5, ConcurrencyInRange
      <3> HIDE DEF isl
      <3> QED BY <1>1, <1>2, <3>1, PointOnGrid DEF max
    <2> HIDE DEF isl
    <2> QED BY <1>1, <2>1, <2>2
  <1>7. NextBench(isl)
    BY DEF ProfileDecode
  <1>8. CASE i + 1 < SweepLength(max)
    <2>1. i' = i + 1 /\ at' = at
      <3> HIDE DEF isl
      <3> QED BY <1>7, <1>8 DEF NextBench, max
    <2>2. InSweep'
      BY <1>1, <1>8, <2>1 DEF InSweep, Swept, MaxConcurrency, SweepLength
    <2>3. i' \in Nat /\ at' \in Nat \ {0}
      BY <1>1, <2>1
    <2> QED BY <1>1, <1>6, <2>2, <2>3 DEF GridInv, GridPoints
  <1>9. CASE ~(i + 1 < SweepLength(max))
    <2>1. i' = 0 /\ at' = at + 1
      <3> HIDE DEF isl
      <3> QED BY <1>7, <1>9 DEF NextBench, max
    <2>2. i' \in Nat /\ at' \in Nat \ {0}
      BY <1>1, <2>1
    <2> QED BY <1>1, <1>6, <2>1, <2>2 DEF GridInv, GridPoints, InSweep
  <1> QED
    BY <1>8, <1>9

\* A pod that ends leaves no sweep behind.
LEMMA EndPodKeeps ==
  ASSUME GridInv, NEW next, EndPod(next), args' = args
  PROVE  GridInv'
  BY DEF GridInv, EndPod, InSweep, GridPoints

\* The sweep through every step of the job and of the planner.
LEMMA GridStep == GridInv /\ [Next]_vars => GridInv'
  <1> SUFFICES ASSUME GridInv, [Next]_vars PROVE GridInv'
    OBVIOUS
  <1>1. CASE UNCHANGED <<args, sweep>>
    <2>1. args' = args /\ phase' = phase /\ at' = at /\ i' = i /\ points' = points
      BY <1>1 DEF sweep
    <2> QED BY <2>1 DEF GridInv, GridPoints, InSweep, Swept, MaxConcurrency, SweepLength
  <1>2. CASE ProfilePrefill
    <2>1. args' = args /\ phase' = phase /\ phase = "prefill" /\ at' = at + 1 /\ i' = i /\ points' = points
      BY <1>2 DEF ProfilePrefill
    <2>2. i = 0
      BY <2>1 DEF GridInv, InSweep
    <2> QED BY <2>1, <2>2 DEF GridInv, GridPoints, InSweep
  <1>3. CASE StartDecode
    <2>1. args' = args /\ phase = "prefill" /\ at' = 1 /\ i' = i /\ points' = points
      BY <1>3 DEF StartDecode
    <2>2. i = 0
      BY <2>1 DEF GridInv, InSweep
    <2> QED BY <2>1, <2>2 DEF GridInv, GridPoints, InSweep
  <1>4. CASE ProfileDecode
    BY <1>4, BenchKeeps
  <1>5. CASE SkipDecode
    <2>1. /\ args' = args /\ phase' = phase /\ at' = at + 1 /\ i' = i /\ points' = points
          /\ ~Swept(args.decode_isl_points[at])
      BY <1>5 DEF SkipDecode
    <2>2. i = 0
      BY <2>1 DEF GridInv, InSweep
    <2> QED BY <2>1, <2>2 DEF GridInv, GridPoints, InSweep
  <1>6. CASE DivideByZero \/ CreateRefused \/ KillPod
    <2>1. FailPod /\ args' = args
      BY <1>6 DEF DivideByZero, CreateRefused, KillPod
    <2> QED BY <2>1, EndPodKeeps DEF FailPod
  <1>7. ASSUME NEW next, Goto(next), phase # "decode" \/ at > Len(args.decode_isl_points) PROVE GridInv'
    <2>1. args' = args /\ at' = at /\ i' = i /\ points' = points
      BY <1>7 DEF Goto
    <2>2. i = 0
      <3>1. CASE phase # "decode"
        BY <3>1 DEF GridInv, InSweep
      <3>2. CASE at > Len(args.decode_isl_points)
        <4>1. Len(args.decode_isl_points) \in Nat /\ at \in Nat
          BY ArgumentsTyped DEF GridInv
        <4>2. ~(at <= Len(args.decode_isl_points))
          BY <3>2, <4>1
        <4> QED BY <4>2 DEF GridInv, InSweep
      <3> QED BY <1>7, <3>1, <3>2
    <2> QED BY <2>1, <2>2 DEF GridInv, GridPoints, InSweep
  <1>8. ASSUME Store PROVE GridInv'
    BY <1>8, EndPodKeeps DEF Store
  <1>9. CASE ReadConfigMap \/ ReplaceConfigMap \/ CreateConfigMap \/ ExitPod
    <2>1. CASE ReadConfigMap
      <3>1. PICK next : Goto(next)
        BY <2>1 DEF ReadConfigMap
      <3>2. at > Len(args.decode_isl_points)
        BY <2>1 DEF ReadConfigMap
      <3> QED BY <3>1, <3>2, <1>7
    <2>2. CASE ReplaceConfigMap
      <3>1. phase # "decode" /\ (Goto("create") \/ Store)
        BY <2>2 DEF ReplaceConfigMap
      <3> QED BY <3>1, <1>7, <1>8
    <2>3. CASE CreateConfigMap
      BY <2>3, <1>8 DEF CreateConfigMap
    <2>4. CASE ExitPod
      <3>1. phase # "decode" /\ Goto("complete")
        BY <2>4 DEF ExitPod
      <3> QED BY <3>1, <1>7
    <2> QED BY <1>9, <2>1, <2>2, <2>3, <2>4
  <1>10. CASE SupplyConfigMap \/ DeleteConfigMap
    BY <1>1, <1>10 DEF SupplyConfigMap, DeleteConfigMap
  <1>11. CASE Load \/ KillPlanner \/ ObserveAll \/ ObserveOutage \/ Adjust \/ SkipAdjust \/ UNCHANGED vars
    BY <1>1, <1>11 DEF Load, KillPlanner, ObserveAll, ObserveOutage, Observe, Adjust, SkipAdjust, vars, profilerVars
  <1> QED
    BY <1>2, <1>3, <1>4, <1>5, <1>6, <1>9, <1>10, <1>11 DEF Next, ProfilerNext, ProfilerStep

\* Every point a job stores is on the grid of the interpolator that loads it:
\* no point has a KV usage, half-way through its generation, beyond the cache,
\* for any arguments and however float noise moves a concurrency.
THEOREM SweepStaysOnGrid == Spec => []EveryPointOnGrid
  <1>1. Init => GridInv
    BY DEF Init, ProfilerInit, GridInv, InSweep, GridPoints
  <1>2. GridInv => EveryPointOnGrid
    <2> SUFFICES ASSUME GridInv, NEW n \in DOMAIN points
                 PROVE  points[n].x \in 0..(2 * args.max_kv_tokens)
      BY DEF EveryPointOnGrid
    <2>1. points[n] \in GridPoints
      BY DEF GridInv
    <2> QED BY <2>1 DEF GridPoints
  <1> QED
    BY <1>1, <1>2, GridStep, PTL DEF Spec
=============================================================================
