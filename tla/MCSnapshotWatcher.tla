--------------------------- MODULE MCSnapshotWatcher ---------------------------
(***************************************************************************)
(* A small instance of SnapshotWatcher: a snapshot written in two ways,    *)
(* another one, and contents that do not load; native watchers that a      *)
(* rename leaves behind, and a native watcher that polling backs.          *)
(***************************************************************************)
EXTENDS SnapshotWatcher

CONSTANTS on, off, onText, onYaml, offText, badText, c1

MCHandles ==
  {[platform |-> "darwin", polling |-> FALSE], [platform |-> "linux", polling |-> TRUE]}

Parsed ==
  [t \in Texts |-> CASE t \in {onText, onYaml} -> on [] t = offText -> off [] t = badText -> Broken]
================================================================================
