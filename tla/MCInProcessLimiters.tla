------------------------ MODULE MCInProcessLimiters ------------------------
(***************************************************************************)
(* The in-process limiters for TLC.                                        *)
(***************************************************************************)
EXTENDS InProcessLimiters

\* The state of the algorithms that do not run never changes
Running ==
    CASE Is("sliding_window") -> requests
      [] Is("fixed_window") -> <<request_count, window_start>>
      [] Is("token_bucket") -> <<rate, tokens, last_refill_time>>
      [] Is("leaky_bucket") -> <<rate, queue, last_leak_time>>
View == <<now, limit, window, log, reply, algorithm, Running>>
=============================================================================
