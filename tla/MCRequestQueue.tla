--------------------------- MODULE MCRequestQueue ---------------------------
(* Small instance of RequestQueue: a 2-bit id counter (4 ids) and six     *)
(* enqueue calls, enough for the counter to wrap while requests are still *)
(* parked and for the queue to be found full.                              *)
EXTENDS RequestQueue

MCW == 2
MCMaxCalls == 6
=============================================================================
