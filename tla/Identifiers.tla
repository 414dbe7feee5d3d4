----------------------------- MODULE Identifiers -----------------------------
(* The identifiers of workspaces, shared by what is kept under them. *)

CONSTANTS
  Id,   \* identifiers of workspaces, which have one terminal pane each
  None  \* no workspace, no row, no task

ASSUME IdAssumption == None \notin Id
===============================================================================
