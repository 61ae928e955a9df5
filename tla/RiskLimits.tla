----------------------------- MODULE RiskLimits -----------------------------
(***************************************************************************)
(* The limits of the risk manager.  A signal maps each of its pairs to the *)
(* position to take, 0 to close it; a limit is a record with its kind and  *)
(* its parameters; a snapshot is the portfolio tracker's.                  *)
(***************************************************************************)
EXTENDS Integers, FiniteSets, FiniteSetsExt

\* The pairs a signal does not close.
Opening(signal) == {p \in DOMAIN signal : signal[p] # 0}

MaxPositions(limit, signal, snap) ==
    Opening(signal) \subseteq snap.held \/ Cardinality(snap.held) < limit.max

MaxGrossExposure(limit, signal, snap) == snap.gross <= limit.max

MaxGrossExposurePct(limit, signal, snap) ==
    snap.equity > 0 => snap.gross * 100 <= limit.max * snap.equity

BucketExposure(bucket, snap) ==
    MapThenSumSet(LAMBDA p : snap.notional[p], bucket \cap snap.held)

CorrelationBucket(limit, signal, snap) ==
    \A bucket \in limit.buckets :
        Opening(signal) \cap bucket # {} => BucketExposure(bucket, snap) < limit.max

DailyLossCap(limit, signal, snap) ==
    snap.today + snap.unrealized >= -limit.max \/ Opening(signal) \subseteq snap.held

MaxLeverage(limit, signal, snap) ==
    /\ snap.equity > 0
    /\ snap.gross <= limit.max * snap.equity \/ Opening(signal) = {}

\* near: the pairs closer to liquidation than the limit allows.
LiquidationDistance(limit, signal, snap) == Opening(signal) \cap limit.near = {}

MarginUtilization(limit, signal, snap) ==
    /\ snap.equity > 0
    /\ snap.gross * 100 <= limit.max * snap.equity \/ Opening(signal) = {}

\* PerTradeRiskSizer only adds the size to the signal.
Allows(limit, signal, snap) ==
    CASE limit.kind = "positions" -> MaxPositions(limit, signal, snap)
      [] limit.kind = "gross" -> MaxGrossExposure(limit, signal, snap)
      [] limit.kind = "gross_pct" -> MaxGrossExposurePct(limit, signal, snap)
      [] limit.kind = "bucket" -> CorrelationBucket(limit, signal, snap)
      [] limit.kind = "daily_loss" -> DailyLossCap(limit, signal, snap)
      [] limit.kind = "leverage" -> MaxLeverage(limit, signal, snap)
      [] limit.kind = "liquidation" -> LiquidationDistance(limit, signal, snap)
      [] limit.kind = "margin" -> MarginUtilization(limit, signal, snap)
      [] limit.kind = "sizer" -> TRUE
=============================================================================
