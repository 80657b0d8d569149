------------------------------- MODULE History -------------------------------
(***************************************************************************)
(* What the write path promises to a reader of the history, with none of   *)
(* its machinery: a measured sample is first held in memory, where it may  *)
(* be lost; a batch of held samples becomes durable at once; and a durable *)
(* sample disappears in two ways only, because its series was removed or   *)
(* because it is older than the raw retention.  Whatever is still measured *)
(* for a removed series, it neither gets a new sample nor an old one back. *)
(*                                                                         *)
(* Pipeline.tla implements this specification (its theorem and its TLC run *)
(* map queue, frames and blocks to the variables below).                   *)
(***************************************************************************)
EXTENDS Naturals

CONSTANTS Series,       \* series ids
          RawAge        \* age at which a raw sample may be expired

VARIABLES clock,        \* the writer's wall clock
          held,         \* accepted samples that are in memory only
          durable,      \* committed samples of the series not removed
          removed       \* series behind a delete barrier

history == <<clock, held, durable, removed>>

Init == /\ clock \in Nat
        /\ held = {}
        /\ durable = {}
        /\ removed = {}

Advance == /\ clock' >= clock
           /\ UNCHANGED <<held, durable, removed>>

(* One new sample; room may be made for it by giving up older ones held.   *)
Accept == /\ \A x, y \in held' \ held : x = y
          /\ \A x \in held' \ held : x \notin durable
          /\ UNCHANGED <<clock, durable, removed>>

(* Part of what is held becomes durable; what is not committed of it stays *)
(* held or is lost.                                                        *)
Commit == /\ held' \subseteq held
          /\ durable \subseteq durable'
          /\ durable' \ durable \subseteq held \ held'
          /\ \A x \in durable' : x.sid \notin removed
          /\ UNCHANGED <<clock, removed>>

(* The delete barrier hides everything its series has, at once.            *)
Remove == \E s \in Series :
             /\ removed' = removed \cup {s}
             /\ durable' = {x \in durable : x.sid # s}
             /\ UNCHANGED <<clock, held>>

Expire == /\ durable' \subseteq durable
          /\ \A x \in durable \ durable' : x.at + RawAge < clock
          /\ UNCHANGED <<clock, held, removed>>

Next == Advance \/ Accept \/ Commit \/ Remove \/ Expire

Spec == Init /\ [][Next]_history
=============================================================================
