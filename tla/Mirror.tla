------------------------------- MODULE Mirror -------------------------------
(***************************************************************************)
(* The mirror loop of internal/service/livecdn: it replicates the          *)
(* directory FFmpeg writes a live stream into to a storage sink, while     *)
(* FFmpeg appends to segments, rewrites the playlist and unlinks segments  *)
(* that left the rolling window.                                           *)
(*                                                                         *)
(* A file's content is its version, 0 for a file that does not exist.  A   *)
(* segment only grows, so its size tells its versions apart; a playlist's  *)
(* size does not.                                                          *)
(***************************************************************************)
EXTENDS Integers

CONSTANTS
  Segments,     \* segment files
  Playlist,     \* the playlist file
  MaxVersion,   \* bound: versions a file goes through
  MaxFaults     \* bound: sink operations that fail

ASSUME MirrorAssumption ==
  /\ Playlist \notin Segments
  /\ MaxVersion \in Nat /\ MaxFaults \in Nat

Files == Segments \cup {Playlist}

VARIABLES
  local,      \* the local directory
  unlinked,   \* segments FFmpeg has rotated out
  ffmpeg,     \* is FFmpeg running?
  cancelled,  \* is the session's context done?
  sink,       \* the storage sink
  known,      \* Mirror.known: sizes seen by the last scan, 0 = not known
  current,    \* scanOnce's current
  pending,    \* files the present stage of the scan has yet to visit
  stage,      \* stage of the scan; wait is the select between scans
  final,      \* is this the scan after the context was done?
  listed,     \* Mirror.segments
  quiet,      \* ghost: FFmpeg was gone when the final scan began
  faults      \* counter for the bound

vars == <<local, unlinked, ffmpeg, cancelled, sink, known, current, pending,
          stage, final, listed, quiet, faults>>
encoder == <<local, unlinked, ffmpeg, cancelled>>

Stages == {"walk", "upload", "delete", "wait", "done"}
Nothing == [f \in Files |-> 0]

Init ==
  /\ local = Nothing /\ unlinked = {} /\ ffmpeg = TRUE /\ cancelled = FALSE
  /\ sink = Nothing /\ known = Nothing /\ current = Nothing
  /\ pending = Files /\ stage = "walk" /\ final = FALSE
  /\ listed = {} /\ quiet = FALSE
  /\ faults = 0

------------------------------------------------------------------------------
(* FFmpeg, external to this code.                                          *)

Write(f) ==
  /\ ffmpeg /\ f \notin unlinked /\ local[f] < MaxVersion
  /\ local' = [local EXCEPT ![f] = @ + 1]
  /\ UNCHANGED <<unlinked, ffmpeg, cancelled, sink, known, current, pending,
                 stage, final, listed, quiet, faults>>

Unlink(f) ==
  /\ ffmpeg /\ f \in Segments /\ local[f] # 0
  /\ local' = [local EXCEPT ![f] = 0]
  /\ unlinked' = unlinked \cup {f}
  /\ UNCHANGED <<ffmpeg, cancelled, sink, known, current, pending, stage, final,
                 listed, quiet, faults>>

(* The end of the stream, or the SIGTERM that follows a done context.      *)
FFmpegExits ==
  /\ ffmpeg
  /\ ffmpeg' = FALSE
  /\ UNCHANGED <<local, unlinked, cancelled, sink, known, current, pending,
                 stage, final, listed, quiet, faults>>

(* The session's context is done; the session does not wait for FFmpeg.    *)
Cancel ==
  /\ ~cancelled
  /\ cancelled' = TRUE
  /\ UNCHANGED <<local, unlinked, ffmpeg, sink, known, current, pending, stage,
                 final, listed, quiet, faults>>

------------------------------------------------------------------------------
(* scanOnce *)

isPlaylist(f) == f = Playlist
Size(f) == IF isPlaylist(f) /\ local[f] # 0 THEN 1 ELSE local[f]

(* Mutant of Uploads: only new files are uploaded. *)
UploadsNew == {f \in Files : current[f] # 0 /\ known[f] = 0}

(* New files, files whose size changed, and every playlist. *)
Uploads == {f \in Files : /\ current[f] # 0
                          /\ known[f] # current[f] \/ isPlaylist(f)}

Deletions == {f \in Files : known[f] # 0 /\ current[f] = 0}

(* filepath.Walk reads the size of one file after another. *)
Walk(f) ==
  /\ stage = "walk" /\ f \in pending
  /\ pending' = pending \ {f}
  /\ current' = [current EXCEPT ![f] = Size(f)]
  /\ UNCHANGED <<encoder, sink, known, stage, final, listed, quiet, faults>>

(* The sink on local storage: a new version replaces the old one in a      *)
(* single rename, and what is not there need not be removed.               *)
Put(f) == sink' = [sink EXCEPT ![f] = local[f]]
Remove(f) == sink' = [sink EXCEPT ![f] = 0]

(* uploadOne.  A file unlinked since the walk cannot be opened; an error,  *)
(* that one or the sink's, is logged.                                      *)
Upload(f) ==
  /\ stage = "upload" /\ f \in pending
  /\ pending' = pending \ {f}
  /\ \/ /\ local[f] # 0
        /\ Put(f)
        /\ listed' = listed \cup ({f} \cap Segments)
        /\ UNCHANGED faults
     \/ local[f] = 0 /\ UNCHANGED <<sink, listed, faults>>
     \/ /\ faults < MaxFaults /\ faults' = faults + 1
        /\ UNCHANGED <<sink, listed>>
  /\ UNCHANGED <<encoder, known, current, stage, final, quiet>>

Delete(f) ==
  /\ stage = "delete" /\ f \in pending
  /\ pending' = pending \ {f}
  /\ \/ Remove(f) /\ UNCHANGED faults
     \/ faults < MaxFaults /\ faults' = faults + 1 /\ UNCHANGED sink
  /\ UNCHANGED <<encoder, known, current, stage, final, listed, quiet>>

(* One stage of the scan has visited all it had to.  At the end current    *)
(* becomes known, also where an upload failed.                             *)
StageEnds ==
  /\ pending = {}
  /\ \/ stage = "walk" /\ stage' = "upload" /\ pending' = Uploads
        /\ UNCHANGED known
     \/ stage = "upload" /\ stage' = "delete" /\ pending' = Deletions
        /\ UNCHANGED known
     \/ /\ stage = "delete"
        /\ stage' = IF final THEN "done" ELSE "wait"
        /\ known' = current
        /\ UNCHANGED pending
  /\ UNCHANGED <<encoder, sink, current, final, listed, quiet, faults>>

(* The select of Run: another scan on a tick of the poll timer, or the     *)
(* final one.                                                              *)
NextScan ==
  /\ stage = "wait"
  /\ stage' = "walk" /\ pending' = Files
  /\ UNCHANGED <<encoder, sink, known, current, final, listed, quiet, faults>>

FinalScan ==
  /\ stage = "wait" /\ cancelled
  /\ stage' = "walk" /\ pending' = Files
  /\ final' = TRUE
  /\ quiet' = ~ffmpeg
  /\ UNCHANGED <<encoder, sink, known, current, listed, faults>>

MirrorStep ==
  \/ \E f \in Files : Walk(f) \/ Upload(f) \/ Delete(f)
  \/ StageEnds \/ NextScan \/ FinalScan

Next ==
  \/ MirrorStep
  \/ \E f \in Files : Write(f) \/ Unlink(f)
  \/ FFmpegExits \/ Cancel

Spec == Init /\ [][Next]_vars

(* The loop runs; a select with two ready channels picks one at random, so *)
(* a context that stays done is read in the end.                           *)
FairSpec == Spec /\ WF_vars(MirrorStep) /\ SF_vars(FinalScan)

------------------------------------------------------------------------------
(* Properties. *)

(* Every variable has its type. *)
TypeOK ==
  /\ {local, sink, known, current} \subseteq [Files -> 0..MaxVersion]
  /\ unlinked \subseteq Segments /\ listed \subseteq Segments
  /\ pending \subseteq Files
  /\ stage \in Stages
  /\ {ffmpeg, cancelled, final, quiet} \subseteq BOOLEAN
  /\ faults \in 0..MaxFaults

(* When FFmpeg was gone before the final scan began and no sink operation  *)
(* failed, the sink ends up holding exactly the local directory: the       *)
(* latest version of every file, and no file that was rotated out.  The    *)
(* list for the recording bridge then names every segment in the sink, and *)
(* beside these only ones that were rotated out.                           *)
SinkMatches ==
  stage = "done" /\ quiet /\ faults = 0 =>
    /\ sink = local
    /\ {f \in Segments : sink[f] # 0} \subseteq listed
    /\ \A f \in listed : sink[f] # 0 \/ f \in unlinked

(* A file that exists locally is brought to the sink sooner or later, if   *)
(* no sink operation fails, unless it changes or the loop, which then was  *)
(* cancelled, has ended.                                                   *)
LocalFilesReachSink ==
  \A f \in Files : \A v \in 1..MaxVersion :
    local[f] = v ~> (local[f] # v \/ sink[f] = v \/ faults > 0
                       \/ (cancelled /\ stage = "done"))

=============================================================================
