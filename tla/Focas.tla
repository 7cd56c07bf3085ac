------------------------------- MODULE Focas -------------------------------
(***************************************************************************)
(* The table of library handles kept by the FOCAS library (fwlib32), which *)
(* the plugin calls through cgo.  The library is not part of this code: it *)
(* is modelled from the way src/fanuc.go calls it and from the return      *)
(* codes src/fanuc_data.go tells apart.                                    *)
(*                                                                         *)
(* conn[h] is the CNC that the connection behind handle number h leads to. *)
(* The library hands out a number that no open connection has; a number    *)
(* that was freed may be handed out again, to another device as well.      *)
(***************************************************************************)
EXTENDS Integers

CONSTANTS Devices,   \* the configured CNCs
          Handles,   \* handle numbers the library can hand out
          NoHandle,  \* the number 0: no handle
          NoDevice   \* what a number that is not in use leads to

ASSUME FocasAssumption ==
    /\ NoHandle \notin Handles
    /\ NoDevice \notin Devices

VARIABLE conn

EW_OK     == 0
EW_BUSY   == -1   \* stands for every error that leaves the handle open
EW_HANDLE == -8

\* The numbers that are in use.
Open == {h \in Handles : conn[h] # NoDevice}

\* The library opens a connection to device d under the unused number h.
cnc_allclibhndl3(d, h) ==
    /\ h \in Handles \ Open
    /\ conn' = [conn EXCEPT ![h] = d]

\* The library is asked to close handle h and returns code ret.
cnc_freelibhndl(h, ret) ==
    \/ /\ h \in Open
       /\ ret = EW_OK
       /\ conn' = [conn EXCEPT ![h] = NoDevice]
    \/ /\ h \in Open
       /\ ret = EW_BUSY
       /\ UNCHANGED conn
    \/ /\ h \notin Open
       /\ ret = EW_HANDLE
       /\ UNCHANGED conn

\* The test every caller makes: EW_HANDLE says the handle is free already.
Freed(ret) == ret \in {EW_OK, EW_HANDLE}

FreeCodes == {EW_OK, EW_BUSY, EW_HANDLE}
=============================================================================
