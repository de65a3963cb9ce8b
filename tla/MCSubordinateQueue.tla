------------------------- MODULE MCSubordinateQueue -------------------------
(* Instances of SubordinateQueue: what is offered, and the settings.        *)
EXTENDS SubordinateQueue

On == [enabled |-> TRUE, kinds |-> Kinds]
Off == [enabled |-> FALSE, kinds |-> Kinds]
CrawlOff == [enabled |-> TRUE, kinds |-> Kinds \ {"crawl_url"}]     \* the default

AlwaysOn == {On}
CrawlSwitched == {On, CrawlOff}
Switched == {On, Off, CrawlOff}

Now(k) == [kind |-> k, run_after |-> 0, garbled |-> FALSE]
Later(k) == [kind |-> k, run_after |-> 1, garbled |-> FALSE]
NoDate(k) == [kind |-> k, run_after |-> 0, garbled |-> TRUE]

NoOffers == {}
SyncOffers == {Now("sync_to_core_api"), Later("sync_to_core_api")}
MixedOffers == {Now("crawl_url"), NoDate("crawl_url"), Now("sync_to_core_api")}
MisdatedOffers == {Now("sync_to_core_api"), NoDate("sync_to_core_api")}
=============================================================================
