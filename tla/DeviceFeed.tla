----------------------------- MODULE DeviceFeed -----------------------------
(***************************************************************************)
(* What the reader of the plugin's output (telegraf, or the address space  *)
(* of the OPC UA server) may rely on: per device a feed that is switched   *)
(* off, on, off ...  A session with the device starts only after the       *)
(* reader was told that the device is off, samples are seen only during a  *)
(* session, and as long as the plugin is not stopped a session that ends   *)
(* is announced in the same breath.  After the stop nothing is announced.  *)
(***************************************************************************)
CONSTANT Devices

VARIABLES running,  \* the plugin has not been stopped
          online,   \* the devices a session is under way with
          shown     \* the last state the reader was told

feed == <<running, online, shown>>

Init ==
    /\ running = TRUE
    /\ online = {}
    /\ shown = [d \in Devices |-> "none"]

Announce(d) ==
    /\ d \notin online
    /\ shown' = [shown EXCEPT ![d] = "off"]
    /\ UNCHANGED <<running, online>>

GoOnline(d) ==
    /\ d \notin online
    /\ shown[d] = "off"
    /\ online' = online \union {d}
    /\ UNCHANGED <<running, shown>>

Sample(d) ==
    /\ d \in online
    /\ shown' = [shown EXCEPT ![d] = "on"]
    /\ UNCHANGED <<running, online>>

GoOffline(d) ==
    /\ d \in online
    /\ online' = online \ {d}
    /\ \/ shown' = [shown EXCEPT ![d] = "off"]
       \/ ~running /\ UNCHANGED shown
    /\ UNCHANGED running

Stop ==
    /\ running
    /\ running' = FALSE
    /\ UNCHANGED <<online, shown>>

Next ==
    \/ \E d \in Devices : Announce(d) \/ GoOnline(d) \/ Sample(d) \/ GoOffline(d)
    \/ Stop

Spec == Init /\ [][Next]_feed
=============================================================================
