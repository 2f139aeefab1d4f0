--------------------------- MODULE MCClientWorker ---------------------------
EXTENDS ClientWorker

\* Three requests, so that one can be the initial request of a connection
\* while two others are outstanding together.
MCReqs == 1..3
====
