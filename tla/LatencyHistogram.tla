--------------------------- MODULE LatencyHistogram ---------------------------
(***************************************************************************)
(* The latency histogram: the samples of a series of calls, sorted, and     *)
(* some of them picked as percentiles; and how the workloads that run       *)
(* several writers make one summary of their histograms. Latencies are      *)
(* natural numbers of some unit; the mean is left out.                      *)
(***************************************************************************)
EXTENDS Integers, SequencesExt

\* Where sample i belongs: after those that are less, and after its equals before it.
Rank(samples, i) ==
    Cardinality({j \in DOMAIN samples :
                    \/ samples[j] < samples[i]
                    \/ samples[j] = samples[i] /\ j <= i})

\* (A function and not an operator, for TLC to evaluate its argument once.)
Ordered[samples \in Seq(Nat)] ==
    [p \in DOMAIN samples |-> samples[CHOOSE i \in DOMAIN samples : Rank(samples, i) = p]]

\* A plausible slip: the samples are taken as they were recorded.
InOrderOfArrival(samples) == samples
Sorted(samples) == Ordered[samples]

\* p hundredths of the way through a sorted histogram, rounded down. (The product
\* in double precision is exact enough: for these p it never drops below a whole
\* number that it should reach.)
Percentile(sorted, p) == sorted[(p * (Len(sorted) - 1)) \div 100 + 1]

Stats == [p50 : Nat, p95 : Nat, p99 : Nat, max : Nat]

Compute(samples) ==
    IF samples = <<>>
      THEN [p50 |-> 0, p95 |-> 0, p99 |-> 0, max |-> 0]
      ELSE LET sorted == Sorted(samples)
           IN  [p50 |-> Percentile(sorted, 50), p95 |-> Percentile(sorted, 95),
                p99 |-> Percentile(sorted, 99), max |-> Last(sorted)]

\* A plausible slip: the median is recorded where the maximum should be.
MergeMedianTwice(hists) ==
    Compute(FlattenSeq([i \in DOMAIN hists |->
        LET s == Compute(hists[i]) IN <<s.p50, s.p50, s.p95, s.p99>>]))

\* The summary of several histograms is that of their summaries.
Merge(hists) ==
    Compute(FlattenSeq([i \in DOMAIN hists |->
        LET s == Compute(hists[i]) IN <<s.p50, s.p95, s.p99, s.max>>]))

------------------------------------------------------------------------------
(* What the figures mean *)

\* v is a value at rank p: fewer samples are smaller than p hundredths of the way
\* asks for, and enough are not greater.
IsPercentile(samples, p, v) ==
    LET below(x) == Cardinality({i \in DOMAIN samples : samples[i] < x})
        upTo(x)  == Cardinality({i \in DOMAIN samples : samples[i] <= x})
        rank     == p * (Len(samples) - 1)
    IN  /\ \E i \in DOMAIN samples : samples[i] = v
        /\ 100 * below(v) <= rank
        /\ rank < 100 * upTo(v)

Increasing(stats) ==
    stats.p50 <= stats.p95 /\ stats.p95 <= stats.p99 /\ stats.p99 <= stats.max

===============================================================================
