---------------------------- MODULE MCScriptTimers ----------------------------
EXTENDS ScriptTimers, TLC

Symmetry == Permutations(Timers)
=============================================================================
