----------------------------- MODULE MCExchange -----------------------------
EXTENDS Exchange

Route(n, limiters, timeout) ==
  [ attempts |-> n, limiters |-> limiters, auth |-> TRUE, cors |-> TRUE,
    timeout |-> timeout, cap |-> TRUE, mirror |-> TRUE ]

(* One attempt, as the gateway configures its forwarders, and two, as      *)
(* their interface allows; with and without limiters and a deadline; and a *)
(* route with no stage at all.                                             *)
SomeRoutes ==
  { Route(1, << TRUE, FALSE >>, TRUE), Route(2, << TRUE, TRUE >>, TRUE),
    Route(2, << >>, FALSE),
    [ attempts |-> 1, limiters |-> << >>, auth |-> FALSE, cors |-> FALSE,
      timeout |-> FALSE, cap |-> FALSE, mirror |-> FALSE ] }

PlainRoute ==
  { [ attempts |-> 1, limiters |-> << >>, auth |-> FALSE, cors |-> FALSE,
      timeout |-> TRUE, cap |-> FALSE, mirror |-> FALSE ] }

Request(idempotent, upload, fits) ==
  [ idempotent |-> idempotent, upload |-> upload, fits |-> fits, credential |-> TRUE,
    preflight |-> FALSE, upgrade |-> FALSE ]

SomeRequests ==
  [ idempotent : BOOLEAN, upload : {"none", "small", "chunked"}, fits : {TRUE},
    credential : {TRUE}, preflight : {FALSE}, upgrade : {FALSE} ]
  \cup { Request(TRUE, "large", FALSE), Request(FALSE, "large", TRUE),
         Request(FALSE, "chunked", FALSE),
         [Request(TRUE, "none", TRUE) EXCEPT !.upgrade = TRUE],
         [Request(TRUE, "none", TRUE) EXCEPT !.preflight = TRUE],
         [Request(TRUE, "small", TRUE) EXCEPT !.credential = FALSE] }

PlainRequest == { Request(TRUE, "none", TRUE) }
=============================================================================
