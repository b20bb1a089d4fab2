-------------------------- MODULE SessionResource ---------------------------
(***************************************************************************)
(* What a resource of the whole process promises to the sessions that take *)
(* turns with it: the TUN descriptor, the Go core.  One session uses it at *)
(* a time, whoever uses it is named by a claim that others can test, the   *)
(* claim outlasts the use, and the turns follow the generations: once a    *)
(* newer session has had the resource, no older one gets it, and none gets *)
(* it twice.                                                               *)
(*                                                                         *)
(* TunOwnership and CoreOwnership show that their locks, tests, callbacks  *)
(* and close jobs implement this.                                          *)
(***************************************************************************)
EXTENDS Naturals

CONSTANT Sessions   \* the generations that name the sessions

VARIABLES
  claimed,   \* the session the process has on record, if any
  using,     \* the session that has the resource, if any
  served     \* the sessions that have had it

vars == <<claimed, using, served>>

Init == claimed = {} /\ using = {} /\ served = {}

\* The core is claimed before it is set up; not every claim is followed by a use.
Claim(g) ==
  /\ claimed = {}
  /\ claimed' = {g}
  /\ UNCHANGED <<using, served>>

\* A descriptor is claimed and adopted at once, a core with the claim at hand.
Take(g) ==
  /\ claimed \subseteq {g}
  /\ using = {}
  /\ \A h \in served : h < g
  /\ claimed' = {g}
  /\ using' = {g}
  /\ served' = served \cup {g}

Close ==
  /\ using # {}
  /\ using' = {}
  /\ UNCHANGED <<claimed, served>>

\* What settles the process: a Start may go on, DISCONNECTED may be published.
Release ==
  /\ claimed # {}
  /\ using = {}
  /\ claimed' = {}
  /\ UNCHANGED <<using, served>>

Next == (\E g \in Sessions : Claim(g) \/ Take(g)) \/ Close \/ Release

Spec == Init /\ [][Next]_vars
=============================================================================
