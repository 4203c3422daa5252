--------------------------- MODULE MCLoggingToFile ---------------------------
(* The local time for the model checker: clocks are set back by two seconds *)
(* when second 3 begins, so that it is called like second 1.                *)
EXTENDS LoggingToFile

MCLocalTime(t) == IF t < 3 THEN t ELSE t - 2
=============================================================================
