---- MODULE MCStateStore ----
(* StateStore for TLC: two callers, two Shutdown calls (the TUI build can run *)
(* two at once), one retry instead of three, three changes in all.            *)
EXTENDS StateStore
====
