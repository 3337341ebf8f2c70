---------------------------- MODULE MCPluginExec ----------------------------
(* Instances of PluginExec for TLC. *)
EXTENDS PluginExec

CONSTANTS plugin, worker, p1, p2, p3
=============================================================================
