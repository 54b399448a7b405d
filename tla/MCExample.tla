------------------------------ MODULE MCExample ------------------------------
(***************************************************************************)
(* Small instances of the parts of Example.                                *)
(***************************************************************************)
EXTENDS Example

CONSTANTS Handler, Receiver, Code, Password, UserId

\* Candles of two lengths and faults; and one length that does not divide the day.
Lengths ==
    [tradePrice |-> {1, 2}, tradeAmount |-> {1}, granularity |-> {1, 2}, statsGranularity |-> 2,
     day |-> 2, limit |-> 3, maxTrades |-> 3, maxTime |-> 3, maxTies |-> 2,
     maxRestarts |-> 1, maxFailures |-> 1, maxLostReplies |-> 1]
Window ==
    [tradePrice |-> {1, 2}, tradeAmount |-> {1}, granularity |-> {2}, statsGranularity |-> 2,
     day |-> 3, limit |-> 3, maxTrades |-> 2, maxTime |-> 6, maxTies |-> 1,
     maxRestarts |-> 0, maxFailures |-> 0, maxLostReplies |-> 0]

\* Two requests at a time for one receiver; and one at a time for two receivers.
Codes ==
    [request |-> Handler, receiver |-> {"r"}, code |-> Code, password |-> {"w"}, userId |-> {"u"},
     interval |-> 2, lifetime |-> 1, window |-> 2, validateLimit |-> 1, cleanupLimit |-> 1,
     maxTime |-> 3, maxVerifications |-> 2, maxSessions |-> 2, maxResets |-> 2,
     maxAborts |-> 1, maxFailures |-> 0, maxLostReplies |-> 0]
Users ==
    [request |-> {"p"}, receiver |-> Receiver, code |-> {"c"}, password |-> Password,
     userId |-> UserId, interval |-> 1, lifetime |-> 1, window |-> 1, validateLimit |-> 1,
     cleanupLimit |-> 1, maxTime |-> 1, maxVerifications |-> 3, maxSessions |-> 4,
     maxResets |-> 3, maxAborts |-> 0, maxFailures |-> 1, maxLostReplies |-> 1]

OneGeneral == <<[window |-> 2, max |-> 2]>>
OneRare == <<[window |-> 3, max |-> 2]>>
=============================================================================
