-------------------------- MODULE SnapshotWatchHandle --------------------------
(***************************************************************************)
(* createSnapshotWatchHandle: how a change of the file comes to be         *)
(* noticed.  Linux has a directory watcher, macOS a directory watcher for  *)
(* renames and a file watcher for writes, which a rename leaves on the old *)
(* file until it is armed again, Windows polls the path; polling may be    *)
(* added to the native watchers.                                           *)
(*                                                                         *)
(* The operating system's part is external: which watcher sees which       *)
(* change.  A poll compares the file's stat with the last one's, which     *)
(* time stamps are taken to tell apart; events of one watcher may be       *)
(* merged; a watcher that emits an error is finished.  Left out: watchers  *)
(* that cannot be created at the start, which reject the call, and errors  *)
(* native watchers emit during the start, before anything was loaded       *)
(* (snapshot-file.ts:173-178).                                             *)
(***************************************************************************)
CONSTANT Handles  (* the [platform, polling] it may be created with        *)

ASSUME HandlesAssumption ==
  Handles \subseteq [platform : {"linux", "darwin", "win32"}, polling : BOOLEAN]

VARIABLE handle

(* directory, file and poll: an event of that watcher is on its way; armed *)
(* and watching: the file watcher is on the current file, the directory    *)
(* watcher is alive; lost: history, an error left changes unwatched.       *)
HandleTypeOK ==
  handle \in [platform : {"linux", "darwin", "win32"}, polling : BOOLEAN,
              directory : BOOLEAN, file : BOOLEAN, poll : BOOLEAN,
              armed : BOOLEAN, watching : BOOLEAN, lost : BOOLEAN]

HandleInit ==
  \E h \in Handles :
    handle = [platform |-> h.platform, polling |-> h.polling,
              directory |-> FALSE, file |-> FALSE, poll |-> FALSE,
              armed |-> h.platform = "darwin", watching |-> h.platform # "win32", lost |-> FALSE]

Polls == handle.platform = "win32" \/ handle.polling

(* Written in place, replaced by a rename, or changed behind a symbolic    *)
(* link, which no native watcher of the path sees                          *)
(* (runtime-recipes.md:22-23 asks for polling then).                       *)
Kinds == {"inPlace", "replaced"} \cup IF Polls THEN {"projected"} ELSE {}

FileChanges(kind) ==
  handle' = [handle EXCEPT
    !.directory = @ \/ (handle.watching
                        /\ \/ kind = "replaced"
                           \/ kind = "inPlace" /\ handle.platform = "linux"),
    !.file  = @ \/ (handle.armed /\ kind = "inPlace"),
    !.poll  = @ \/ Polls,
    !.armed = @ /\ kind = "inPlace"]

NeverArmed == FALSE                   \* variant: a rename leaves the file watcher where it was

Rearmed == TRUE

(* The directory watcher's listener, for an event of the path; on macOS it *)
(* puts the file watcher on the file that is there now.                    *)
DirectoryEvent ==
  /\ handle.directory
  /\ handle' = [handle EXCEPT !.directory = FALSE,
                  !.armed = @ \/ (handle.platform = "darwin" /\ Rearmed)]

(* A file watcher cannot be created, or the new file is not regular: the   *)
(* previous one is kept.                                                   *)
RearmFails ==
  /\ handle.directory /\ handle.platform = "darwin"
  /\ handle' = [handle EXCEPT !.directory = FALSE, !.lost = @ \/ ~handle.armed]

FileEvent == handle.file /\ handle' = [handle EXCEPT !.file = FALSE]

(* watchFile finds another stat than at its last poll.                     *)
PollEvent == handle.poll /\ handle' = [handle EXCEPT !.poll = FALSE]

(* A native watcher emits an error.                                        *)
WatcherBreaks ==
  \/ handle.watching /\ handle' = [handle EXCEPT !.watching = FALSE, !.directory = FALSE, !.lost = TRUE]
  \/ handle.armed /\ handle' = [handle EXCEPT !.armed = FALSE, !.file = FALSE, !.lost = TRUE]
================================================================================
