---------------------------- MODULE ServerConfig ----------------------------
(***************************************************************************)
(* What InitServer makes of the lists in the server section of             *)
(* plugin.conf: entries it does not know and repeated ones are dropped,    *)
(* and a list of which nothing is left is replaced by a default.           *)
(*                                                                         *)
(* An endpoint is a host and a port, both sequences of characters, since   *)
(* repeated ones are found by comparing the two written one after the      *)
(* other.                                                                  *)
(*                                                                         *)
(* NoDefault, which nothing uses, is a faulty variant of OrElse that a     *)
(* property is tried against.                                              *)
(***************************************************************************)
EXTENDS Integers, SequencesExt

CONSTANTS Hostname,    \* os.Hostname, or NoHostname when it fails
          NoHostname,
          Localhost,   \* "localhost"
          DefaultPort  \* 4840

available_policies == {"None", "Basic128Rsa15", "Basic256", "Basic256Sha256", "Aes128_Sha256_RsaOaep"}
available_sec_modes == {"None", "Sign", "SignAndEncrypt"}
available_auth_modes == {"Anonymous", "Username", "Certificate"}

\* The policy None has no other mode, and any other policy signs at least.
GetSecurityMode(policy, mode) ==
    CASE policy = "None" -> "None"
      [] policy # "None" /\ mode = "SignAndEncrypt" -> mode
      [] OTHER -> "Sign"

GetPoliciesOptions(policies) ==
    {<<p, GetSecurityMode(p, policies[p])>> :
        p \in {q \in DOMAIN policies \cap available_policies : policies[q] \in available_sec_modes}}

GetAuthModeOptions(auth_modes) == ToSet(auth_modes) \cap available_auth_modes

Merge(endpoint) == endpoint.host \o endpoint.port

\* Of the endpoints that are written alike only the first is opened.
GetEndpointOptions(endpoints) ==
    {endpoints[i] : i \in {j \in DOMAIN endpoints :
                             \A k \in 1 .. j - 1 : Merge(endpoints[k]) # Merge(endpoints[j])}}

DefaultEndpoints ==
    LET local == <<[host |-> Localhost, port |-> DefaultPort]>>
    IN IF Hostname = NoHostname THEN local
       ELSE Append(local, [host |-> Hostname, port |-> DefaultPort])

NoDefault(options, default) == options

OrElse(options, default) == IF options = {} THEN default ELSE options

\* The options InitServer passes to server.New, apart from the certificate.
ServerOptions(server) ==
    [policies  |-> OrElse(GetPoliciesOptions(server.security), {<<"None", "None">>}),
     auth      |-> OrElse(GetAuthModeOptions(server.auth_modes), {"Anonymous"}),
     endpoints |-> OrElse(GetEndpointOptions(server.endpoints), GetEndpointOptions(DefaultEndpoints))]
=============================================================================
