---------------------------- MODULE MCSummariser ----------------------------
(***************************************************************************)
(* Four messages, a breaker that opens after two failures, two retries.     *)
(***************************************************************************)
EXTENDS Summariser

AllModes == {"backoff", "backpressure", "circuit_breaker"}
=============================================================================
