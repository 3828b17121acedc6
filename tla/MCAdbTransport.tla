--------------------------- MODULE MCAdbTransport ---------------------------
(* Instances of AdbTransport for TLC.                                      *)
EXTENDS AdbTransport

CONSTANTS t1, t2

TwoTransports == {t1, t2}
NoTransports  == {}
FirstOnly     == {t1}

\* Bounds on packets, by connection: the first one has the longer life.
FirstAndRest(n, m) == [t \in Transports |-> IF t = t1 THEN n ELSE m]
OneEach   == FirstAndRest(1, 1)
ThreeOne  == FirstAndRest(3, 1)
FourOne   == FirstAndRest(4, 1)
=============================================================================
