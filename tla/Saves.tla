------------------------------- MODULE Saves --------------------------------
(***************************************************************************)
(* What owners expect of the saves in their figures: a figure starts with  *)
(* a first save, or with that of the figure it is a clone of, and from     *)
(* then on the save it would be loaded with only gets newer, until it is   *)
(* deleted.  Figures go their ways independently.                          *)
(*                                                                         *)
(* A figure is spoilt once it holds what was meant for another one: a      *)
(* console wrote it there, or the portal took its copy of a figure from    *)
(* before a format for it.  Nothing is promised of it from then on.        *)
(***************************************************************************)
EXTENDS Naturals

CONSTANTS Ids, None, Spoilt

VARIABLE progress  \* the save of each figure

Init == progress = [i \in Ids |-> None]

\* What may become of one figure, which was `was` and is now `is`.
Create(was, is) == was = None /\ is = 1

Clone(was, is) == was = None /\ \E j \in Ids : progress[j] # None /\ is = progress[j]

\* A newer save is in the figure.
Save(was, is) == was \notin {None, Spoilt} /\ is \notin {None, Spoilt} /\ is > was

Spoil(was, is) == was # None /\ is = Spoilt

Delete(is) == is = None

Becomes(was, is) ==
  \/ is = was
  \/ Create(was, is) \/ Clone(was, is) \/ Save(was, is) \/ Spoil(was, is) \/ Delete(is)

Next == \A i \in Ids : Becomes(progress[i], progress'[i])

Spec == Init /\ [][Next]_progress
=============================================================================
