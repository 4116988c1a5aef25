----------------------------- MODULE Directory -----------------------------
(***************************************************************************)
(* What a directory promises to those who read it, whatever files it is    *)
(* kept in: an operation takes effect as a whole or not at all.  While it  *)
(* is under way, and after a failure or a crash, a reader gets the entries *)
(* from before it, or no directory at all, or the entries from after it,   *)
(* in this order: what has been seen is never taken back.  The next        *)
(* operation starts from what readers get.                                 *)
(***************************************************************************)
CONSTANTS Names,      \* file names
          Unreadable  \* what a reader gets when the directory does not load

VARIABLES entries,  \* the entries that the last operation was applied to
          target,   \* the entries that it leads to
          view,     \* what a reader gets: entries, Unreadable or target
          open      \* is an operation under way, or in doubt since it failed?

vars == <<entries, target, view, open>>

Init == entries = {} /\ target = {} /\ view = {} /\ open = FALSE

Added(s)   == {s \union {name} : name \in Names \ s}
Removed(s) == {s \ {name} : name \in s}
Renamed(s) == {(s \ {old}) \union {new} : old \in s, new \in Names}

Start ==
    /\ ~open /\ open' = TRUE
    /\ target' \in Added(entries) \union Removed(entries) \union Renamed(entries)
    /\ UNCHANGED <<entries, view>>

(* A part of the operation reaches the store.                              *)
Progress ==
    /\ open /\ view # target
    /\ view' \in {Unreadable, target}
    /\ UNCHANGED <<entries, target, open>>

Finish ==
    /\ open /\ open' = FALSE
    /\ view' = target /\ entries' = target
    /\ UNCHANGED target

(* The client that had the directory open loses it.                        *)
Lose == open' = TRUE /\ UNCHANGED <<entries, target, view>>

(* A client opens what the store has.                                      *)
Open ==
    /\ open /\ open' = FALSE
    /\ view # Unreadable
    /\ entries' = view /\ target' = view
    /\ UNCHANGED view

Next == Start \/ Progress \/ Finish \/ Lose \/ Open

Spec == Init /\ [][Next]_vars
=============================================================================
