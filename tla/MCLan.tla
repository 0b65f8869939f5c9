-------------------------------- MODULE MCLan --------------------------------
(* Our host and two others: one is probed, on the other our user logs in,  *)
(* too.                                                                    *)
EXTENDS LanDiscovery

BootIds == [h \in {"we", "h1", "h2"} |->
    CASE h = "we" -> "local-we" [] h = "h1" -> "local-h1" [] h = "h2" -> "local-h2"]
AccountIds == [h \in {"we", "h1", "h2"} |->
    CASE h = "we" -> "a" [] h = "h1" -> "b" [] h = "h2" -> "a"]
==============================================================================
