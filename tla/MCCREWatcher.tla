---------------------------- MODULE MCCREWatcher ----------------------------
(***************************************************************************)
(* The watcher over a chain of a few blocks, scanned two at a time.        *)
(***************************************************************************)
EXTENDS CREWatcher
=============================================================================
