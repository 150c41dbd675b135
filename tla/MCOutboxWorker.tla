---------------------------- MODULE MCOutboxWorker ----------------------------
EXTENDS OutboxWorker

\* The local balance when the event was written: two that HCM stores, one it
\* refuses as negative.
MCEntries == [newBalance : {1, 2, -1}, status : {"PENDING"}, attempts : {0}]

\* Balances that differ from event to event.
MCDistinct == [newBalance : {1, 2}, status : {"PENDING"}, attempts : {0}]
===============================================================================
