--------------------------- MODULE MCEventSources ---------------------------
(* TLC instance of EventSources: two mappings of one stream, or one of a queue. *)
EXTENDS EventSources

CONSTANTS s1, s2, q1, m1, m2, m3

MCStreams == {s1, s2}
MCQueues == {q1}
MCMessages == {m1, m2, m3}
MCWants == {{1, 2, 3, 4, m1, m2, m3}, {3, 4, m1, m2}}
=============================================================================
