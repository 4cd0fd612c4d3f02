---------------------------- MODULE LaunchStats ----------------------------
(***************************************************************************)
(* The summary worker-list shows of a daemon's ring (stats and             *)
(* quantileIndex in cork/launchmetrics.go), and what it should be.         *)
(***************************************************************************)
EXTENDS LaunchRing, SequencesExt

\* The place of a percentile among n sorted samples, from 0.
quantileIndex(n, pct) == Min({Max({(n * pct + 99) \div 100, 1}), n}) - 1

\* What worker-list shows: the counts, and quantiles of what is in the ring.
stats(r) ==
    LET sorted == SortSeq([i \in 1..r.filled |-> r.buf[i - 1]], <)
        At(pct) == IF r.filled = 0 THEN 0 ELSE sorted[1 + quantileIndex(r.filled, pct)]
    IN  [count |-> r.total, failed |-> r.failed, samples |-> r.filled,
         p50 |-> At(50), p90 |-> At(90), max |-> At(100)]

\* A launch as the ring meets it: its duration, or 0 for one that failed.
RingOf(launches) == FoldLeft(LAMBDA r, d : add(r, d, d # 0), EmptyRing, launches)

\* The stats of a daemon that took these launches, from all of them: the latest
\* successful ones have the durations, and a quantile is the least of those that at
\* least that share of them does not exceed.
StatsOf(launches) ==
    LET done   == SelectSeq(launches, LAMBDA d : d # 0)
        recent == SubSeq(done, Max({1, Len(done) - launchRingSize + 1}), Len(done))
        Below(d) == Cardinality({i \in DOMAIN recent : recent[i] <= d})
        Quantile(pct) == IF recent = <<>> THEN 0
                         ELSE Min({d \in ToSet(recent) : 100 * Below(d) >= pct * Len(recent)})
    IN  [count |-> Len(launches), failed |-> Len(launches) - Len(done), samples |-> Len(recent),
         p50 |-> Quantile(50), p90 |-> Quantile(90), max |-> Quantile(100)]
=============================================================================
