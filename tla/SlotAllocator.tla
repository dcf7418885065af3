----------------------------- MODULE SlotAllocator -----------------------------
(***************************************************************************)
(* What a limit on numbered places promises: a number belongs to one owner *)
(* at a time, and an owner is refused only when no number is left.  It is  *)
(* what the counter of crates/electro-agent/src/delegation.rs and the      *)
(* bitset of crates/electro-tools/src/browser_pool.rs are meant to be.     *)
(***************************************************************************)
CONSTANTS
  Owners,
  Numbers

VARIABLES
  granted,   \* [Owners -> the numbers an owner has]
  refused    \* owners that were refused a number

AllocInit ==
  /\ granted = [o \in Owners |-> {}]
  /\ refused = {}

InUse == UNION {granted[o] : o \in Owners}

Grant(o, n) ==
  /\ n \notin InUse
  /\ granted' = [granted EXCEPT ![o] = @ \cup {n}]
  /\ UNCHANGED refused

Return(o, n) ==
  /\ n \in granted[o]
  /\ granted' = [granted EXCEPT ![o] = @ \ {n}]
  /\ UNCHANGED refused

Refuse(o) ==
  /\ InUse = Numbers
  /\ refused' = refused \cup {o}
  /\ UNCHANGED granted

AllocNext == \E o \in Owners : \/ Refuse(o)
                               \/ \E n \in Numbers : Grant(o, n) \/ Return(o, n)

AllocatorSpec == AllocInit /\ [][AllocNext]_<<granted, refused>>
=============================================================================
