--------------------------- MODULE PromotionGates ---------------------------
(***************************************************************************)
(* The six promotion gates of src/registry/promotion.py as operators on    *)
(* the metrics of a challenger and of the champion it is compared with.    *)
(*                                                                         *)
(* Abstractions.  Metrics are integers in units of 0.0001, where the code  *)
(* compares floats; a drift severity or a decay status is whether it fails *)
(* the gate, and an evidence level whether it is LEVEL_A or LEVEL_B.       *)
(***************************************************************************)
EXTENDS Integers

CONSTANTS
  Margin,      \* settings.predictive_gate_margin
  NoMetrics    \* champion=None: nothing to compare with

ASSUME MarginAssumption == Margin \in Nat

MetricRows == [contaminated : BOOLEAN, graded : BOOLEAN, validated : BOOLEAN,
               oos : Nat, ic : Int, brier : Nat, net : Int, turnover : Nat,
               drawdown : Nat, decayed : BOOLEAN, drifted : BOOLEAN]

ASSUME NoMetricsAssumption == NoMetrics \notin MetricRows

MinOos            == 60
MaxDrawdown       == 2000
BrierThreshold    == 2500
BrierTolerance    == 100
DrawdownTolerance == 200

DataGate(c) ==
  IF c.contaminated \/ ~ c.graded \/ ~ c.validated THEN "FAIL"
  ELSE IF c.oos < MinOos THEN "INSUFFICIENT_EVIDENCE" ELSE "PASS"

PassIf(b) == IF b THEN "PASS" ELSE "FAIL"

PredictiveGate(c, h) ==
  PassIf(IF h = NoMetrics THEN c.ic > 0 ELSE c.ic > h.ic + Margin)

CalibrationGate(c, h) ==
  PassIf(IF h = NoMetrics THEN c.brier < BrierThreshold
                          ELSE c.brier <= h.brier + BrierTolerance)

\* Turnover at most 20 % above a champion that has any.
ExecutionGate(c, h) ==
  PassIf(/\ c.net > 0
         /\ h # NoMetrics => h.turnover = 0 \/ 5 * c.turnover <= 6 * h.turnover)

RiskGate(c, h) ==
  PassIf(IF h = NoMetrics THEN c.drawdown <= MaxDrawdown
                          ELSE c.drawdown <= h.drawdown + DrawdownTolerance)

StabilityGate(c) == PassIf(~ c.decayed /\ ~ c.drifted)

Gates(c, h) == {DataGate(c), PredictiveGate(c, h), CalibrationGate(c, h),
                ExecutionGate(c, h), RiskGate(c, h), StabilityGate(c)}

\* A failed gate outranks missing evidence, contamination outranks both.
Outcome(c, h) ==
  IF c.contaminated THEN "FINAL_OOS_CONTAMINATED"
  ELSE IF "FAIL" \in Gates(c, h) THEN "REJECTED"
  ELSE IF "INSUFFICIENT_EVIDENCE" \in Gates(c, h) THEN "BLOCKED"
  ELSE "PROMOTE"

=============================================================================
