--------------------------- MODULE HandleRelease ---------------------------
(***************************************************************************)
(* What the plugin does with the handles that its collectors leave behind: *)
(* EndPlugin and FreeAllHandles when it is told to stop, and               *)
(* TryFreeExtraHandles when it is started again.                           *)
(*                                                                         *)
(* Two goroutines listen for the stop, one on the standard input and one   *)
(* on the signals; each starts EndPlugin at most once, so two may run.     *)
(* stage[e] names the place where listener e, or the EndPlugin it started, *)
(* stands:                                                                 *)
(*   listen   waiting               deaf    read a byte, listens no more   *)
(*   sleep    its three seconds     free    about to free handles[index]   *)
(*   record   that free failed      open    about to open the record file  *)
(*   fill     about to write it     ended   FreeAllHandles has returned    *)
(*                                                                         *)
(* RemoveUnread and the like, which no action uses, are faulty variants of *)
(* the definition below them that the properties are tried against.        *)
(***************************************************************************)
EXTENDS Focas, Sequences

CONSTANTS WorkDir,    \* the directory the plugin was started in
          PluginDir,  \* the directory of its executable
          Absent,     \* no non_free_handles.json there
          Torn        \* a file that is not valid JSON (created, not yet filled)

\* The listeners.
Enders == {"stdin", "signal"}
Dirs == {WorkDir, PluginDir}

VARIABLES running,  \* the global flag
          handles,  \* the global slice, indexed by the position of the device
          stage,
          index,    \* the loop variable of FreeAllHandles
          unfreed,  \* non_free_handles of FreeAllHandles
          files,    \* non_free_handles.json, per directory
          recovery, \* where TryFreeExtraHandles stands
          extra,    \* the record it has read
          tried     \* how many of its numbers are free

releaseVars == <<stage, index, unfreed, recovery, extra, tried>>

\* What a start of the process finds: two listeners and a fresh recovery.
ReleaseInit ==
    /\ stage = [e \in Enders |-> "listen"]
    /\ index = [e \in Enders |-> 1]
    /\ unfreed = [e \in Enders |-> <<>>]
    /\ recovery = "stat"
    /\ extra = <<>>
    /\ tried = 0

At(e, place) == stage' = [stage EXCEPT ![e] = place]

-----------------------------------------------------------------------------
(* EndPlugin and FreeAllHandles.                                           *)

\* A byte on the standard input is not an error: the goroutine just ends.
StdinByte ==
    /\ stage["stdin"] = "listen"
    /\ At("stdin", "deaf")
    /\ UNCHANGED <<conn, running, handles, index, unfreed, files, recovery, extra, tried>>

\* End of file, or the first signal.
EndPlugin(e) ==
    /\ stage[e] = "listen"
    /\ running' = FALSE
    /\ At(e, "sleep")
    /\ UNCHANGED <<conn, handles, index, unfreed, files, recovery, extra, tried>>

\* Three seconds later, whether or not the collectors have returned.
FreeAllHandles(e) ==
    /\ stage[e] = "sleep"
    /\ At(e, "free")
    /\ UNCHANGED <<conn, running, handles, index, unfreed, files, recovery, extra, tried>>

FreeNextForgets(e) ==
    /\ stage[e] = "free"
    /\ index[e] \in Devices
    /\ \E ret \in FreeCodes : cnc_freelibhndl(handles[index[e]], ret)
    /\ index' = [index EXCEPT ![e] = @ + 1]
    /\ UNCHANGED <<running, handles, stage, unfreed, files, recovery, extra, tried>>

FreeNext(e) ==
    /\ stage[e] = "free"
    /\ index[e] \in Devices
    /\ \E ret \in FreeCodes :
          /\ cnc_freelibhndl(handles[index[e]], ret)
          /\ \/ /\ Freed(ret)
                /\ index' = [index EXCEPT ![e] = @ + 1]
                /\ UNCHANGED stage
             \/ /\ ~Freed(ret)
                /\ At(e, "record")
                /\ UNCHANGED index
    /\ UNCHANGED <<running, handles, unfreed, files, recovery, extra, tried>>

RecordSkips(e) ==
    /\ stage[e] = "record"
    /\ unfreed' = [unfreed EXCEPT ![e] = Append(@, handles[index[e]])]
    /\ index' = [index EXCEPT ![e] = @ + 2]
    /\ At(e, "free")
    /\ UNCHANGED <<conn, running, handles, files, recovery, extra, tried>>

\* The number is read from the slice a second time.
Record(e) ==
    /\ stage[e] = "record"
    /\ unfreed' = [unfreed EXCEPT ![e] = Append(@, handles[index[e]])]
    /\ index' = [index EXCEPT ![e] = @ + 1]
    /\ At(e, "free")
    /\ UNCHANGED <<conn, running, handles, files, recovery, extra, tried>>

AllTried(e) ==
    /\ stage[e] = "free"
    /\ index[e] \notin Devices
    /\ At(e, IF unfreed[e] = <<>> THEN "ended" ELSE "open")
    /\ UNCHANGED <<conn, running, handles, index, unfreed, files, recovery, extra, tried>>

\* os.WriteFile creates or truncates the file, or fails.
OpenRecord(e) ==
    /\ stage[e] = "open"
    /\ \/ At(e, "fill") /\ files' = [files EXCEPT ![WorkDir] = Torn]
       \/ At(e, "ended") /\ UNCHANGED files
    /\ UNCHANGED <<conn, running, handles, index, unfreed, recovery, extra, tried>>

\* Two writers write over each other from the start of the file, and what is
\* longer sticks out; a file that was removed meanwhile stays removed.
FillRecord(e) ==
    /\ stage[e] = "fill"
    /\ At(e, "ended")
    /\ \/ /\ files[WorkDir] # Absent
          /\ files' = [files EXCEPT ![WorkDir] = unfreed[e]]
       \/ /\ files[WorkDir] # Absent
          /\ files' = [files EXCEPT ![WorkDir] = Torn]
       \/ UNCHANGED files
    /\ UNCHANGED <<conn, running, handles, index, unfreed, recovery, extra, tried>>

-----------------------------------------------------------------------------
(* TryFreeExtraHandles.                                                    *)

StatRecord ==
    /\ recovery = "stat"
    /\ recovery' = IF files[PluginDir] = Absent THEN "ended" ELSE "read"
    /\ UNCHANGED <<conn, running, handles, stage, index, unfreed, files, extra, tried>>

RemoveUnread ==
    /\ recovery = "read"
    /\ IF files[PluginDir] \in {Absent, Torn}
       THEN recovery' = "remove" /\ UNCHANGED extra
       ELSE recovery' = "free" /\ extra' = files[PluginDir]
    /\ UNCHANGED <<conn, running, handles, stage, index, unfreed, files, tried>>

\* A file that cannot be read or is not valid JSON is left where it is.
ReadRecord ==
    /\ recovery = "read"
    /\ \/ recovery' = "ended" /\ UNCHANGED extra
       \/ /\ files[PluginDir] \notin {Absent, Torn}
          /\ recovery' = "free" /\ extra' = files[PluginDir]
    /\ UNCHANGED <<conn, running, handles, stage, index, unfreed, files, tried>>

FreeExtraAgain ==
    /\ recovery = "free"
    /\ tried < Len(extra)
    /\ \E ret \in FreeCodes :
          /\ cnc_freelibhndl(extra[tried + 1], ret)
          /\ tried' = IF ret = EW_HANDLE THEN tried + 1 ELSE tried
    /\ UNCHANGED <<running, handles, stage, index, unfreed, files, recovery, extra>>

\* One number is tried until it is free, however long that takes.
FreeExtra ==
    /\ recovery = "free"
    /\ tried < Len(extra)
    /\ \E ret \in FreeCodes :
          /\ cnc_freelibhndl(extra[tried + 1], ret)
          /\ tried' = IF Freed(ret) THEN tried + 1 ELSE tried
    /\ UNCHANGED <<running, handles, stage, index, unfreed, files, recovery, extra>>

AllExtraFreed ==
    /\ recovery = "free"
    /\ tried = Len(extra)
    /\ recovery' = IF extra = <<>> THEN "ended" ELSE "remove"
    /\ UNCHANGED <<conn, running, handles, stage, index, unfreed, files, extra, tried>>

\* os.Remove, of whatever the file is by now; it may fail.
RemoveRecord ==
    /\ recovery = "remove"
    /\ recovery' = "ended"
    /\ files' \in {files, [files EXCEPT ![PluginDir] = Absent]}
    /\ UNCHANGED <<conn, running, handles, stage, index, unfreed, extra, tried>>

-----------------------------------------------------------------------------
\* The steps of the EndPlugin that e has started.
Ending(e) ==
    \/ FreeAllHandles(e) \/ FreeNext(e) \/ Record(e) \/ AllTried(e)
    \/ OpenRecord(e) \/ FillRecord(e)

Recovering == StatRecord \/ ReadRecord \/ FreeExtra \/ AllExtraFreed \/ RemoveRecord
=============================================================================
