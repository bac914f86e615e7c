--------------------------- MODULE MCReadWriteLock ---------------------------
(* TLC instance of ReadWriteLock. *)
EXTENDS ReadWriteLock

CONSTANTS t1, t2, t3, t4, w1, w2

MCReaders == {t1, t2, t3, t4}
MCTwoReaders == {t1, t2}
MCOneWriter == {w1}
MCTwoWriters == {w1, w2}
=============================================================================
