------------------------------ MODULE Scoring ------------------------------
(* The arithmetic behind a report: weighted total, classification, the cap    *)
(* after a contradiction, and what the handlers make of a verdict             *)
(* (services/verification/scoring.py, the end of DemoVerificationEngine.run,  *)
(* worker.py). Sub-scores and totals are in tenths of a point, 0..1000, as    *)
(* the code rounds them to one decimal; weights are in percent.               *)
EXTENDS Integers

WeightsStructural ==            \* seeded fault: structure outweighs the reference
  [ocr |-> 25, database |-> 25, reference |-> 10, integrity |-> 40]

Weights == [ocr |-> 25, database |-> 25, reference |-> 30, integrity |-> 20]

\* The thresholds every run uses: _engine() builds the scorer from the defaults.
VerifiedMin == 800
ReviewMin   == 500

\* round(n / d): the nearest integer, either neighbour at a tie, where binary
\* fractions decide.
Rounded(n, d) == {q \in {n \div d, n \div d + 1} : 2 * (q * d - n) \in (0 - d)..d}

Totals(parts) ==
  Rounded(Weights.ocr * parts.ocr + Weights.database * parts.database
            + Weights.reference * parts.reference + Weights.integrity * parts.integrity, 100)

Classify(total) == CASE total >= VerifiedMin -> "verified"
                     [] total < ReviewMin    -> "failed"
                     [] OTHER                -> "review"

\* The verdict and total reported. A contradiction caps a verifying total one
\* point below the verified_min of the ORGANIZATION's configuration.
ConcludedLoudly(total, contradicted, orgMin) ==   \* seeded fault: the verdict is kept
  [verdict |-> Classify(total),
   total |-> IF contradicted /\ Classify(total) = "verified" /\ orgMin - 10 < total
             THEN orgMin - 10 ELSE total]

Concluded(total, contradicted, orgMin) ==
  IF contradicted /\ Classify(total) = "verified"
  THEN [verdict |-> "review", total |-> IF orgMin - 10 < total THEN orgMin - 10 ELSE total]
  ELSE [verdict |-> Classify(total), total |-> total]

----------------------------------------------------------------------------
(* What the handlers and decide_verification see of a report: the status it   *)
(* leads to, and whether its score is below the 80 of the comment rule.       *)
Seen(report) == [status |-> IF report.verdict = "verified" THEN "VERIFIED" ELSE "REVIEW",
                 score  |-> IF report.total < 800 THEN "low" ELSE "high"]

EngineReportsRaw ==             \* seeded fault: the "failed" verdict as a status
  {[status |-> "VERIFIED", score |-> "high"], [status |-> "FAILED", score |-> "low"]}
EngineReportsKept ==            \* seeded fault: a low score leaves the status alone
  {[status |-> "VERIFIED", score |-> "high"], [status |-> "PROCESSING", score |-> "low"]}

\* All a handler can be given: a verifying report scores 80 or more, any other
\* less, unless it was capped for an organization whose verified_min is higher.
EngineReports == {[status |-> "VERIFIED", score |-> "high"],
                  [status |-> "REVIEW",   score |-> "low"],
                  [status |-> "REVIEW",   score |-> "high"]}
=============================================================================
