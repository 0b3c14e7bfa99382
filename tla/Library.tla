------------------------------ MODULE Library ------------------------------
(***************************************************************************)
(* What the storage component promises its users: a library of figures and *)
(* identities that only the operations they ask for change, one at a time  *)
(* and all at once.  There is no flash here, no journal, no catalog and no *)
(* restart: to a user a restart, a power cut and a compaction are invisible*)
(* (ROADMAP.md: "reboot, and see the same library again").                 *)
(***************************************************************************)
EXTENDS Naturals

CONSTANTS
  Ids,      \* record ids
  Images,   \* save data a figure can carry
  Nobody    \* no figure, or no identity, has this id

VARIABLES
  figures,  \* id -> figure with its save data, or Nobody
  people    \* id -> name of an identity, or Nobody

vars == <<figures, people>>

Init ==
  /\ figures = [i \in Ids |-> Nobody]
  /\ people = [i \in Ids |-> Nobody]

\* The half a combo is made of is a figure of that kind.
Half(lib, i, kind) == i \in Ids /\ lib[i] # Nobody /\ lib[i].kind = kind

\* A new figure, under an id that was free.
Added(lib, i, f) ==
  /\ lib[i] = Nobody /\ f # Nobody
  /\ f.kind = "combo" => Half(lib, f.top, "top") /\ Half(lib, f.bottom, "bottom")

\* A rename, or a save from the console: the name or the data, nothing else.
Edited(lib, i, f) ==
  /\ lib[i] # Nobody /\ f # Nobody
  /\ \/ f = [lib[i] EXCEPT !.name = f.name]
     \/ f.img \in Images /\ f = [lib[i] EXCEPT !.img = f.img]

\* A deletion; a figure that is half of a combo cannot be deleted.
Removed(lib, i, f) ==
  /\ lib[i] # Nobody /\ f = Nobody
  /\ \A k \in Ids : lib[k] # Nobody => i \notin {lib[k].top, lib[k].bottom}

OneChange(lib, i, f) == Added(lib, i, f) \/ Edited(lib, i, f) \/ Removed(lib, i, f)

\* From one library to the next, a single figure changes.
FigureStep(old, new) ==
  \E i \in Ids : /\ new = [old EXCEPT ![i] = new[i]]
                 /\ OneChange(old, i, new[i])

\* Identities are only labels: created, renamed and deleted freely.
PersonStep(old, new) == \E i \in Ids : new = [old EXCEPT ![i] = new[i]]

Clear ==
  /\ figures' = [i \in Ids |-> Nobody]
  /\ people' = [i \in Ids |-> Nobody]

Next ==
  \/ FigureStep(figures, figures') /\ UNCHANGED people
  \/ PersonStep(people, people') /\ UNCHANGED figures
  \/ Clear

Spec == Init /\ [][Next]_vars
=============================================================================
