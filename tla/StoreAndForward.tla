--------------------------- MODULE StoreAndForward ---------------------------
(***************************************************************************)
(* What the offline cache promises, with no journal, no session and no     *)
(* message in sight: an adapter that takes History samples while it has no *)
(* cloud, holds them, and lets go of a sample only when History has it or  *)
(* when the owner purges the cache.  OfflineReplay implements this.        *)
(***************************************************************************)
EXTENDS Naturals

VARIABLES
  taken,       \* how many samples the adapter has taken; they are 1..taken
  held,        \* the samples that survive a power loss on the adapter
  delivered,   \* the samples whose History row exists
  purged       \* the samples the owner had erased

vars == <<taken, held, delivered, purged>>

Init ==
  /\ taken = 0
  /\ held = {}
  /\ delivered = {}
  /\ purged = {}

(* The adapter stores one more sample.                                     *)
Take ==
  /\ taken' = taken + 1
  /\ held' = held \cup {taken + 1}
  /\ UNCHANGED <<delivered, purged>>

(* A History row is written; a sample in flight may arrive after a purge.  *)
Deliver ==
  \E s \in 1..taken :
    /\ delivered' = delivered \cup {s}
    /\ UNCHANGED <<taken, held, purged>>

(* The adapter lets go of samples that History already has.                *)
Release ==
  \E S \in SUBSET held :
    /\ S \subseteq delivered
    /\ held' = held \ S
    /\ UNCHANGED <<taken, delivered, purged>>

(* The owner erases samples, delivered or not.                             *)
Purge ==
  \E S \in SUBSET held :
    /\ held' = held \ S
    /\ purged' = purged \cup S
    /\ UNCHANGED <<taken, delivered>>

Next == Take \/ Deliver \/ Release \/ Purge

Spec == Init /\ [][Next]_vars
=============================================================================
