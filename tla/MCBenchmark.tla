---------------------------- MODULE MCBenchmark ----------------------------
(* Two warm-up requests and three measured ones, two at a time; the chunks of *)
(* an answer: a role, text, the last text, the end and two usage counts.      *)
EXTENDS Benchmark

Line(text, usage, finish) == [text |-> text, usage |-> usage, finish |-> finish]
MCChunks ==
    {Line(0, NONE, FALSE), Line(1, NONE, FALSE), Line(1, NONE, TRUE), Line(0, NONE, TRUE),
     Line(0, 0, FALSE), Line(0, 2, FALSE)}
=============================================================================
