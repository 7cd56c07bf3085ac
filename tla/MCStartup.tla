----------------------------- MODULE MCStartup -----------------------------
(***************************************************************************)
(* Configurations for Startup: a good one with and without a log file and  *)
(* certificate logins, and one for every way in which main panics.         *)
(***************************************************************************)
EXTENDS Startup

Server == [status |-> TRUE, empty_tag |-> FALSE, make_cert |-> TRUE,
           security |-> [None |-> "None", Basic256 |-> "Sign"],
           auth_modes |-> <<"Anonymous", "Certificate", "Certificate">>,
           endpoints |-> <<[host |-> <<"h">>, port |-> <<4, 8>>]>>,
           trusted_certs |-> <<>>, trusted_keys |-> <<>>]

\* Of nothing in these lists anything is left.
Unknown == [Server EXCEPT !.security = [Aes256_Sha256_RsaPss |-> "Sign", Basic256 |-> "sign"],
                          !.auth_modes = <<"Password">>,
                          !.endpoints = <<>>]

Good == [readable |-> TRUE, logfile |-> TRUE, server |-> Server,
         devices |-> <<[name |-> "a", address |-> 1], [name |-> "b", address |-> 2]>>]

MCConfigs ==
    {Good,
     [Good EXCEPT !.logfile = FALSE],
     [Good EXCEPT !.server.make_cert = FALSE],
     [Good EXCEPT !.server.trusted_certs = <<"client", Torn>>, !.server.trusted_keys = <<Torn>>],
     [Good EXCEPT !.server = Unknown],
     [Good EXCEPT !.server.status = FALSE],
     [Good EXCEPT !.server.empty_tag = TRUE],
     [Good EXCEPT !.logfile = FALSE, !.server.empty_tag = TRUE],
     [Good EXCEPT !.readable = FALSE],
     [Good EXCEPT !.devices = <<>>],
     [Good EXCEPT !.devices[2].address = 1]}

MCHostname == <<"m">>
MCLocalhost == <<"l">>
MCDefaultPort == <<4>>
=============================================================================
