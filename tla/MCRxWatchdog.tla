--------------------------- MODULE MCRxWatchdog ---------------------------
EXTENDS RxWatchdog
=============================================================================
