-------------------------- MODULE MCPluginLoader --------------------------
(* Instances of PluginLoader for TLC. *)
EXTENDS PluginLoader

CONSTANTS namer, prefs, monitor

\* Chains, cycles, two requirements, a missing one.
SomeRequires == {{namer}, {prefs}, {namer, prefs}, {Missing}}
=============================================================================
