---------------------------- MODULE NoteRegister ----------------------------
(***************************************************************************)
(* What the server promises the pages about the note of a paper, without   *)
(* the three statements of upsert_paper_note and the threads that execute  *)
(* them: each save is decided in one step.  It is accepted against the     *)
(* revision it names, and told the revision its own text got; or refused   *)
(* because that revision is not the note's; or it fails, and its page does *)
(* not learn whether it was accepted.  NoteEditing implements it, see      *)
(* NoteEditing!RegisterSpec.                                               *)
(***************************************************************************)
EXTENDS Integers, Sequences, SequencesExt

CONSTANTS Pages, Texts

VARIABLES
  versions,   \* the bodies the note has had
  saves       \* per page, its saves that have not been answered, oldest first

vars == <<versions, saves>>

Revision == Len(versions)

Init ==
  /\ versions = <<>>
  /\ saves = [p \in Pages |-> <<>>]

\* A page saves a text, against a revision that the note has had.
Post(p) ==
  /\ \E text \in Texts, base \in 0..Revision :
       saves' = [saves EXCEPT ![p] =
         Append(@, [text |-> text, base |-> base, answer |-> "none", revision |-> 0])]
  /\ UNCHANGED versions

Undecided(p, i) == saves[p][i].answer = "none"
Becomes(p, i, save) == saves' = [saves EXCEPT ![p][i] = save]

\* A note that does not exist yet may also be saved as the first revision.
IsCurrent(base) == base = Revision \/ (Revision = 0 /\ base = 1)

Accept(p, i) ==
  /\ Undecided(p, i) /\ IsCurrent(saves[p][i].base)
  /\ versions' = Append(versions, saves[p][i].text)
  /\ Becomes(p, i, [saves[p][i] EXCEPT !.answer = "ok", !.revision = Revision + 1])

Refuse(p, i) ==
  /\ Undecided(p, i) /\ ~IsCurrent(saves[p][i].base)
  /\ Becomes(p, i, [saves[p][i] EXCEPT !.answer = "conflict"])
  /\ UNCHANGED versions

\* Before or after it was decided.
Fail(p, i) ==
  /\ Becomes(p, i, [saves[p][i] EXCEPT !.answer = "error"])
  /\ UNCHANGED versions

Answer(p, i) ==
  /\ ~Undecided(p, i)
  /\ saves' = [saves EXCEPT ![p] = RemoveAt(@, i)]
  /\ UNCHANGED versions

Next ==
  \E p \in Pages :
    \/ Post(p)
    \/ \E i \in DOMAIN saves[p] : Accept(p, i) \/ Refuse(p, i) \/ Fail(p, i) \/ Answer(p, i)

Spec == Init /\ [][Next]_vars
=============================================================================
