---- MODULE MCAppInbox ----
EXTENDS AppInbox, TLC

MCArrivals == <<"text", "quiet", "mark", "text">>
Connections == Permutations(Sessions)
====
