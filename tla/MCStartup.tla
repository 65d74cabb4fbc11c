----------------------------- MODULE MCStartup -----------------------------
(* Small instances of Startup for TLC.                                     *)
EXTENDS StartupProperties, TLC

CONSTANTS p1, p2, i1

\* The default prefix, the same with spaces, and another one.
Prefixes ==
  (DefaultPrefix :> DefaultPrefix) @@ (" compose-broker " :> DefaultPrefix) @@ ("other" :> "other")

Parts == ("1.1.1.1" :> 4) @@ ("host" :> 1)
Keys == ("key" :> "ours") @@ ("new key" :> "ours") @@ ("their key" :> "theirs")

Names == ("k1" :> "enterprise") @@ ("k2" :> "test")

Complete ==
  [LOG_LEVEL |-> "", USERNAME |-> "broker", PASSWORD |-> "unguessable", DB_PREFIX |-> "",
   COMPOSE_API_KEY |-> "key", CLUSTER_NAME |-> "", IP_WHITELIST |-> <<"1.1.1.1">>,
   catalog |-> "whole"]

\* Three that serve, in different accounts and clusters and with different
\* prefixes, and two that do not.
AllEnvironments ==
  {Complete,
   [Complete EXCEPT !.CLUSTER_NAME = "enterprise", !.DB_PREFIX = " compose-broker ",
                    !.COMPOSE_API_KEY = "new key", !.LOG_LEVEL = "INFO"],
   [Complete EXCEPT !.DB_PREFIX = "other", !.COMPOSE_API_KEY = "their key",
                    !.IP_WHITELIST = <<>>],
   [Complete EXCEPT !.PASSWORD = ""],
   [Complete EXCEPT !.catalog = "undecodable"]}
=============================================================================
