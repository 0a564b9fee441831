---------------------------- MODULE EventChannel ----------------------------
(***************************************************************************)
(* What the event queue of a context promises to its caller, with nothing  *)
(* of how the ring does it: a bounded first-in first-out channel.  A call  *)
(* that produces events appends as many of them as there is room for and   *)
(* loses the rest, the newest ones; nothing that was accepted is lost,     *)
(* duplicated, altered or overtaken before the caller takes it or resets   *)
(* the context.  The statistics count what was produced, also what was     *)
(* lost.                                                                   *)
(***************************************************************************)
EXTENDS Integers, Sequences

CONSTANT Event

VARIABLES capacity,   \* how many events the channel holds at most
          items,      \* the events waiting for the caller, oldest first
          produced,   \* events produced since creation or the last reset
          out         \* the caller's event buffer

vars == <<capacity, items, produced, out>>

Init ==
  /\ capacity \in Nat \ {0}
  /\ items = <<>>
  /\ produced = 0
  /\ out \in Event

\* One call offers produced' - produced events; the first of them that fit
\* are appended and everything accepted earlier stays where it was.
Offer ==
  /\ produced' \in Nat
  /\ produced' > produced
  /\ items' \in Seq(Event)
  /\ \/ /\ Len(items) + (produced' - produced) <= capacity
        /\ Len(items') = Len(items) + (produced' - produced)
     \/ /\ Len(items) + (produced' - produced) > capacity
        /\ Len(items') = capacity
  /\ \A i \in 1..Len(items) : items'[i] = items[i]
  /\ UNCHANGED <<capacity, out>>

\* The caller takes the oldest event.
Take ==
  /\ items # <<>>
  /\ out' = Head(items)
  /\ items' = Tail(items)
  /\ UNCHANGED <<capacity, produced>>

\* A reset throws the backlog away and starts the counters again.
Clear ==
  /\ items' = <<>>
  /\ produced' = 0
  /\ UNCHANGED <<capacity, out>>

Next == Offer \/ Take \/ Clear

Spec == Init /\ [][Next]_vars
=============================================================================
