----------------------------- MODULE MCCacheProbe -----------------------------
(* Two repetitions of streams of three rounds, so that the adds share a line    *)
(* and cross into the next; the counter wraps just after the longest stream, so *)
(* every stream is also met across the wrap.                                    *)
EXTENDS CacheProbe

\* The board does not see the host: what it does when the host has read something, or
\* has given up, it also does when not, and the host may read the same when the
\* repetition is over.
ReadsBetween ==
  /\ captured # "refused"
  /\ pc # "between" => read = 0 /\ tail = "none"
=============================================================================
