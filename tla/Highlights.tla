----------------------------- MODULE Highlights -----------------------------
(***************************************************************************)
(* The highlights of one paper: rows bound to one cached version of its    *)
(* PDF (services/annotations.py), made from a selection in the pages of    *)
(* that version, listed, annotated and deleted in reader pages that load   *)
(* one version after the other (static/reader.js).                         *)
(*                                                                         *)
(* A highlight's id is its rowid, which SQLite hands out again once the    *)
(* largest one is free; mark is the client_request_id, new for each click. *)
(* A page's loads do not overlap here, and it has at most one create, and  *)
(* one save or delete, under way; overlapping saves, and the drafts, are   *)
(* those of NoteEditing.  A list put back after a failed load is the one   *)
(* that the load replaced, as it was then.                                 *)
(***************************************************************************)
EXTENDS Integers

CONSTANTS
  Pages,           \* reader pages (tabs)
  Docs,            \* cached versions of the PDF (documents)
  NoDoc,           \* none of them
  MaxIds,          \* bound: rows at a time
  MaxMarks,        \* bound: clicks on "Highlight selection"
  MaxNotes,        \* bound: notes saved
  MaxLoads,        \* bound: versions loaded, faults included
  MaxFaults,       \* bound: requests and answers lost, PDFs that do not open
  MaxEvents,       \* bound: all of these together
  PromptReadBack   \* no other write falls between a write and its read-back

ASSUME HighlightsAssumption ==
  /\ NoDoc \notin Docs
  /\ MaxIds \in Nat /\ MaxMarks \in Nat /\ MaxNotes \in Nat
  /\ MaxLoads \in Nat /\ MaxFaults \in Nat /\ MaxEvents \in Nat
  /\ PromptReadBack \in BOOLEAN

VARIABLES
  rows,      \* paper_highlights, by id
  prints,    \* documents.pdf_fingerprint: whose fingerprint each version has
  strayed,   \* history: versions whose rows come from a selection carried along
  blind,     \* history: a note was replaced that its page had not been shown
  shown,     \* this.currentDocument
  pdf,       \* this.pdf: the version whose PDF was opened last
  pages,     \* the version whose pages are on the screen
  pending,   \* this.pendingSelection: the version it was made in
  carried,   \* history: the pages it was made in have been replaced
  cards,     \* this.highlights
  load,      \* the load in progress
  creating,  \* the page's create request
  post,      \* the page's save, reload or delete of a highlight
  marks, notes, loads, faults

server == <<rows, prints, strayed, blind>>
screen == <<shown, pdf, pages, pending, carried, cards>>
bounds == <<marks, notes, loads, faults>>
vars   == <<server, screen, load, creating, post, bounds>>

Ids    == 1..MaxIds
NoRow  == [mark |-> 0]
Here   == {i \in Ids : rows[i] # NoRow}
Idle   == [phase |-> "idle"]

\* from is history: the version in which the quote was selected.
\* A card's note is what the page has been told.
\* refused: the text that met a conflict ("Reload & retry"), or 0.
Rows  == [mark : 1..MaxMarks, doc : Docs, from : Docs, note : 0..MaxNotes, revision : Nat]
Cards == [id : Ids, mark : 1..MaxMarks, doc : Docs, note : 0..MaxNotes, revision : Nat,
          refused : 0..MaxNotes]

Loads ==
  [phase : {"sent", "answered", "pdf"}, for : {"open", "select", "restore"}, doc : Docs,
   cards : SUBSET Cards, print : Docs \union {NoDoc},
   oldDoc : Docs \union {NoDoc}, oldCards : SUBSET (SUBSET Cards)]
Creates ==
  [phase : {"sent", "stored", "ok", "error"}, mark : 1..MaxMarks, doc : Docs,
   from : Docs, carried : BOOLEAN, print : Docs, id : Ids \union {0}, card : SUBSET Cards]
Posts ==
  [phase : {"sent", "written", "ok", "conflict", "error"}, op : {"save", "reload", "delete"},
   id : Ids, mark : 1..MaxMarks, doc : Docs, base : Nat, known : 0..MaxNotes,
   note : 0..MaxNotes, answer : SUBSET Cards, drawn : BOOLEAN, listed : BOOLEAN]

TypeOK ==
  /\ rows \in [Ids -> Rows \union {NoRow}]
  /\ prints \in [Docs -> Docs \union {NoDoc}]
  /\ strayed \subseteq Docs /\ blind \in BOOLEAN
  /\ shown \in [Pages -> Docs \union {NoDoc}] /\ pdf \in [Pages -> Docs \union {NoDoc}]
  /\ pages \in [Pages -> Docs \union {NoDoc}] /\ pending \in [Pages -> Docs \union {NoDoc}]
  /\ carried \in [Pages -> BOOLEAN] /\ cards \in [Pages -> SUBSET Cards]
  /\ load \in [Pages -> Loads \union {Idle}]
  /\ creating \in [Pages -> Creates \union {Idle}]
  /\ post \in [Pages -> Posts \union {Idle}]
  /\ marks \in 0..MaxMarks /\ notes \in 0..MaxNotes
  /\ loads \in 0..MaxLoads /\ faults \in 0..MaxFaults

\* get_highlight and _highlights: what a page is told of the row of an id.
CardOf(i) ==
  [id |-> i, mark |-> rows[i].mark, doc |-> rows[i].doc, note |-> rows[i].note,
   revision |-> rows[i].revision, refused |-> 0]
CardIfHere(i) == {CardOf(j) : j \in Here \intersect {i}}

Init ==
  /\ rows = [i \in Ids |-> NoRow] /\ prints = [d \in Docs |-> NoDoc]
  /\ strayed = {} /\ blind = FALSE
  /\ shown = [p \in Pages |-> NoDoc] /\ pdf = [p \in Pages |-> NoDoc]
  /\ pages = [p \in Pages |-> NoDoc] /\ pending = [p \in Pages |-> NoDoc]
  /\ carried = [p \in Pages |-> FALSE] /\ cards = [p \in Pages |-> {}]
  /\ load = [p \in Pages |-> Idle] /\ creating = [p \in Pages |-> Idle]
  /\ post = [p \in Pages |-> Idle]
  /\ marks = 0 /\ notes = 0 /\ loads = 0 /\ faults = 0

\* The bounds of a run.
Room  == marks + notes + loads + faults < MaxEvents
Fault == Room /\ faults < MaxFaults /\ loads + faults < MaxLoads /\ faults' = faults + 1

-----------------------------------------------------------------------------
(* A page loads a version: open(), or another choice (runLoadAction).      *)

Load(p, d) ==
  /\ load[p] = Idle /\ Room /\ loads + faults < MaxLoads /\ loads' = loads + 1
  /\ \E for \in {"open", "select"} :
       load' = [load EXCEPT ![p] =
         [phase |-> "sent", for |-> for, doc |-> d, cards |-> {}, print |-> NoDoc,
          oldDoc |-> shown[p], oldCards |-> {}]]
  /\ UNCHANGED <<server, screen, creating, post, marks, notes, faults>>

\* _highlights of a version.
CardsIn(d) == {CardOf(i) : i \in {j \in Here : rows[j].doc = d}}

\* annotations_for_document: the version with its fingerprint, its highlights.
AnswerLoad(p) ==
  /\ load[p].phase = "sent"
  /\ load' = [load EXCEPT ![p].phase = "answered", ![p].cards = CardsIn(load[p].doc),
                          ![p].print = prints[load[p].doc]]
  /\ UNCHANGED <<server, screen, creating, post, bounds>>

\* renderHighlightList: every card is drawn again, without what it said.
Drawn(list)  == {[c EXCEPT !.refused = 0] : c \in list}
Redraw(p)    == [post EXCEPT ![p] = IF @ = Idle THEN Idle ELSE [@ EXCEPT !.drawn = FALSE]]
\* The card that asked is in the list no more.
Replace(p)   ==
  [post EXCEPT ![p] = IF @ = Idle THEN Idle ELSE [@ EXCEPT !.drawn = FALSE, !.listed = FALSE]]

\* loadAnnotations up to the await of the PDF: the list and the version change,
\* the old pages go.  this.pdf and what was selected are still the old ones.
PageLoaded(p) ==
  /\ load[p].phase = "answered"
  /\ shown' = [shown EXCEPT ![p] = load[p].doc]
  /\ cards' = [cards EXCEPT ![p] = load[p].cards]
  /\ pages' = [pages EXCEPT ![p] = NoDoc]
  /\ carried' = [carried EXCEPT ![p] = pending[p] # NoDoc]
  /\ post' = Replace(p)
  /\ load' = [load EXCEPT ![p].phase = "pdf",
                          ![p].oldCards = IF @ = {} THEN {cards[p]} ELSE @]
  /\ UNCHANGED <<server, pdf, pending, creating, bounds>>

Identified(p) == load[p].print \in {NoDoc, load[p].doc}

PdfOpens(p) ==
  /\ load[p].phase = "pdf" /\ Identified(p)
  /\ pdf' = [pdf EXCEPT ![p] = load[p].doc]
  /\ pages' = [pages EXCEPT ![p] = load[p].doc]
  /\ load' = [load EXCEPT ![p] = Idle]
  /\ UNCHANGED <<server, shown, pending, carried, cards, creating, post, bounds>>

\* A load fails: open() reports it; runLoadAction loads the version that was
\* shown before and, when that fails too, puts back its copy of the list.
Abandon(p) ==
  \/ /\ load[p].for = "open"
     /\ load' = [load EXCEPT ![p] = Idle]
     /\ UNCHANGED <<shown, cards, post>>
  \/ /\ load[p].for = "select" /\ load[p].oldDoc # NoDoc
     /\ load' = [load EXCEPT ![p].phase = "sent", ![p].for = "restore",
                             ![p].doc = load[p].oldDoc]
     /\ UNCHANGED <<shown, cards, post>>
  \/ /\ load[p].for = "restore" \/ (load[p].for = "select" /\ load[p].oldDoc = NoDoc)
     /\ load' = [load EXCEPT ![p] = Idle]
     /\ shown' = [shown EXCEPT ![p] = load[p].oldDoc]
     /\ LET replaced == load[p].oldCards # {} IN
          /\ \E list \in IF replaced THEN load[p].oldCards ELSE {cards[p]} :
               cards' = [cards EXCEPT ![p] = Drawn(list)]
          /\ post' = IF replaced THEN Replace(p) ELSE Redraw(p)

LoadFails(p) ==
  /\ load[p] # Idle /\ Fault
  /\ Abandon(p)
  /\ UNCHANGED <<server, pdf, pages, pending, carried, creating, marks, notes, loads>>

\* "The cached PDF identity changed": the version cannot be read any more.
PdfRefused(p) ==
  /\ load[p].phase = "pdf" /\ ~Identified(p)
  /\ pdf' = [pdf EXCEPT ![p] = load[p].doc]
  /\ Abandon(p)
  /\ UNCHANGED <<server, pages, pending, carried, creating, bounds>>

-----------------------------------------------------------------------------
(* A selection becomes a highlight: captureSelection, createHighlight and   *)
(* create_highlight.                                                       *)

Select(p) ==
  /\ pages[p] # NoDoc
  /\ pending' = [pending EXCEPT ![p] = pages[p]]
  /\ carried' = [carried EXCEPT ![p] = FALSE]
  /\ UNCHANGED <<server, shown, pdf, pages, cards, load, creating, post, bounds>>

\* A click that selects nothing.
Deselect(p) ==
  /\ pending[p] # NoDoc
  /\ pending' = [pending EXCEPT ![p] = NoDoc]
  /\ carried' = [carried EXCEPT ![p] = FALSE]
  /\ UNCHANGED <<server, shown, pdf, pages, cards, load, creating, post, bounds>>

\* Mutant: the version that is chosen in the list, loaded or not.
ChosenDoc(p) == IF load[p] = Idle THEN shown[p] ELSE load[p].doc
PostedDoc(p) == shown[p]

\* Mutant: also when nothing is selected.
MayClickAnyway(p) == shown[p] # NoDoc /\ pdf[p] # NoDoc
MayClick(p) == pending[p] # NoDoc /\ shown[p] # NoDoc /\ pdf[p] # NoDoc

Click(p) ==
  /\ MayClick(p) /\ creating[p] = Idle
  /\ Room /\ marks < MaxMarks /\ marks' = marks + 1
  /\ creating' = [creating EXCEPT ![p] =
       [phase |-> "sent", mark |-> marks + 1, doc |-> PostedDoc(p), from |-> pending[p],
        carried |-> carried[p], print |-> pdf[p], id |-> 0, card |-> {}]]
  /\ UNCHANGED <<server, screen, load, post, notes, loads, faults>>

\* The rowid of the next row: one more than the largest.
IsNext(i) == (\A j \in Here : j < i) /\ (i = 1 \/ i - 1 \in Here)

\* One transaction: the row, its fragments, the fingerprint of the version.
Insert(p) ==
  /\ creating[p].phase = "sent"
  /\ \E i \in Ids :
       /\ IsNext(i)
       /\ rows' = [rows EXCEPT ![i] =
            [mark |-> creating[p].mark, doc |-> creating[p].doc, from |-> creating[p].from,
             note |-> 0, revision |-> 1]]
       /\ creating' = [creating EXCEPT ![p].phase = "stored", ![p].id = i]
  /\ prints' = [prints EXCEPT ![creating[p].doc] = creating[p].print]
  /\ strayed' = IF creating[p].carried THEN strayed \union {creating[p].doc} ELSE strayed
  /\ UNCHANGED <<blind, screen, load, post, bounds>>

\* get_highlight, unless another tab has deleted the row already.
AnswerCreate(p) ==
  /\ creating[p].phase = "stored"
  /\ creating' = [creating EXCEPT
       ![p].phase = IF creating[p].id \in Here THEN "ok" ELSE "error",
       ![p].card = CardIfHere(creating[p].id)]
  /\ UNCHANGED <<server, screen, load, post, bounds>>

LoseCreate(p) ==
  /\ creating[p].phase \in {"sent", "ok"} /\ Fault
  /\ creating' = [creating EXCEPT ![p].phase = "error"]
  /\ UNCHANGED <<server, screen, load, post, marks, notes, loads>>

\* The card goes on top of whatever list is there by now.
Created(p) ==
  /\ creating[p].phase = "ok"
  /\ cards' = [cards EXCEPT ![p] = Drawn(@ \union creating[p].card)]
  /\ post' = Redraw(p)
  /\ pending' = [pending EXCEPT ![p] = NoDoc]
  /\ carried' = [carried EXCEPT ![p] = FALSE]
  /\ creating' = [creating EXCEPT ![p] = Idle]
  /\ UNCHANGED <<server, shown, pdf, pages, load, bounds>>

NotCreated(p) ==
  /\ creating[p].phase = "error"
  /\ creating' = [creating EXCEPT ![p] = Idle]
  /\ UNCHANGED <<server, screen, load, post, bounds>>

-----------------------------------------------------------------------------
(* Notes and deletion, from a card.  Two cards of one highlight, possible   *)
(* after a crossed answer, are taken for one.                              *)

Request(p, card, op, note) ==
  post' = [post EXCEPT ![p] =
    [phase |-> "sent", op |-> op, id |-> card.id, mark |-> card.mark, doc |-> shown[p],
     base |-> card.revision, known |-> card.note, note |-> note, answer |-> {},
     drawn |-> TRUE, listed |-> TRUE]]

SaveNote(p) ==
  /\ post[p] = Idle /\ shown[p] # NoDoc /\ Room /\ notes < MaxNotes /\ notes' = notes + 1
  /\ \E card \in cards[p] :
       /\ Request(p, card, "save", notes + 1)
       /\ cards' = [cards EXCEPT ![p] = (@ \ {card}) \union Drawn({card})]
  /\ UNCHANGED <<server, shown, pdf, pages, pending, carried, load, creating, marks, loads,
                 faults>>

\* "Reload & retry", and "Delete highlight".
AskReload(p) ==
  /\ post[p] = Idle /\ shown[p] # NoDoc
  /\ \E card \in cards[p] : card.refused # 0 /\ Request(p, card, "reload", card.refused)
  /\ UNCHANGED <<server, screen, load, creating, bounds>>

AskDelete(p) ==
  /\ post[p] = Idle /\ shown[p] # NoDoc
  /\ \E card \in cards[p] : Request(p, card, "delete", 0)
  /\ UNCHANGED <<server, screen, load, creating, bounds>>

Reply(p, phase) == post' = [post EXCEPT ![p].phase = phase]

\* Mutant: the UPDATE without AND revision = ?.
RevisionIgnored(p) == TRUE
RevisionMatches(p) == rows[post[p].id].revision = post[p].base

\* UPDATE ... WHERE id = ? AND revision = ?
WriteNote(p) ==
  /\ post[p].phase = "sent" /\ post[p].op = "save"
  /\ PromptReadBack => \A q \in Pages : post[q].phase # "written"
  /\ LET r == post[p] row == rows[post[p].id] IN
     \/ /\ r.id \in Here /\ RevisionMatches(p)
        /\ rows' = [rows EXCEPT ![r.id].note = r.note, ![r.id].revision = @ + 1]
        /\ blind' = (blind \/ (row.mark = r.mark /\ row.note \notin {0, r.known}))
        /\ Reply(p, "written")
     \/ /\ r.id \in Here /\ ~RevisionMatches(p)
        /\ Reply(p, "conflict")
        /\ UNCHANGED <<rows, blind>>
     \/ /\ r.id \notin Here
        /\ Reply(p, "error")
        /\ UNCHANGED <<rows, blind>>
  /\ UNCHANGED <<prints, strayed, screen, load, creating, bounds>>

\* get_highlight after the UPDATE, while the text area keeps the page's text;
\* fetchAnnotations and find for a reload.
ReadBack(p) ==
  /\ \/ post[p].phase = "written"
     \/ post[p].phase = "sent" /\ post[p].op = "reload"
  /\ LET told == IF post[p].op = "save"
                   THEN {[c EXCEPT !.note = post[p].note] : c \in CardIfHere(post[p].id)}
                   ELSE {c \in CardIfHere(post[p].id) : c.doc = post[p].doc}
     IN post' = [post EXCEPT ![p].phase = IF told = {} THEN "error" ELSE "ok",
                             ![p].answer = told]
  /\ UNCHANGED <<server, screen, load, creating, bounds>>

Delete(p) ==
  /\ post[p].phase = "sent" /\ post[p].op = "delete"
  /\ \/ /\ post[p].id \in Here
        /\ rows' = [rows EXCEPT ![post[p].id] = NoRow]
        /\ Reply(p, "ok")
     \/ /\ post[p].id \notin Here
        /\ Reply(p, "error")
        /\ UNCHANGED rows
  /\ UNCHANGED <<prints, strayed, blind, screen, load, creating, bounds>>

LosePost(p) ==
  /\ post[p].phase \in {"sent", "ok", "conflict"} /\ Fault
  /\ Reply(p, "error")
  /\ UNCHANGED <<server, screen, load, creating, marks, notes, loads>>

\* The answer to "Reload & retry" has come.
Reloaded(p) == post[p].phase = "ok" /\ post[p].op = "reload"

Others(p) == {c \in cards[p] : c.id # post[p].id}
Asked(p)  == {c \in cards[p] : c.id = post[p].id /\ post[p].listed}

\* Object.assign to the card that asked, which a load may have replaced; a
\* deletion leaves the id out of whatever list is there by now.
Heard(p) ==
  /\ post[p].phase \in {"ok", "conflict", "error"} /\ ~Reloaded(p)
  /\ cards' = [cards EXCEPT ![p] =
       CASE post[p].phase = "ok" /\ post[p].op = "delete" -> Drawn(Others(p))
         [] post[p].phase = "ok" /\ post[p].op = "save" /\ Asked(p) # {} ->
              Others(p) \union post[p].answer
         [] post[p].phase # "ok" /\ post[p].op = "save" /\ post[p].drawn ->
              Others(p) \union
                {[c EXCEPT !.refused = IF post[p].phase = "conflict" THEN post[p].note ELSE 0] :
                   c \in Asked(p)}
         [] OTHER -> @]
  /\ post' = [post EXCEPT ![p] = Idle]
  /\ UNCHANGED <<server, shown, pdf, pages, pending, carried, load, creating, bounds>>

\* After a reload the same text is saved with the revision that was loaded.
SaveAgain(p) ==
  /\ Reloaded(p)
  /\ \E told \in post[p].answer :
       /\ cards' = [cards EXCEPT ![p] =
            IF Asked(p) = {} THEN @
            ELSE Others(p) \union
                   {[told EXCEPT !.refused = IF post[p].drawn THEN post[p].note ELSE 0]}]
       /\ post' = [post EXCEPT ![p].phase = "sent", ![p].op = "save", ![p].answer = {},
                    ![p].mark = told.mark, ![p].base = told.revision,
                    ![p].known = told.note]
  /\ UNCHANGED <<server, shown, pdf, pages, pending, carried, load, creating, bounds>>

-----------------------------------------------------------------------------
LoadStep(p)   == AnswerLoad(p) \/ PageLoaded(p) \/ PdfOpens(p) \/ LoadFails(p) \/ PdfRefused(p)
CreateStep(p) == Insert(p) \/ AnswerCreate(p) \/ LoseCreate(p) \/ Created(p) \/ NotCreated(p)
PostStep(p)   == WriteNote(p) \/ ReadBack(p) \/ Delete(p) \/ LosePost(p)
                   \/ Heard(p) \/ SaveAgain(p)
UserStep(p)   ==
  \/ \E d \in Docs : Load(p, d)
  \/ Select(p) \/ Deselect(p) \/ Click(p) \/ SaveNote(p) \/ AskReload(p) \/ AskDelete(p)

Next == \E p \in Pages : LoadStep(p) \/ CreateStep(p) \/ PostStep(p) \/ UserStep(p)

Spec == Init /\ [][Next]_vars

-----------------------------------------------------------------------------
(* Properties.                                                             *)

\* "Highlight quotes and attached notes are tied to one immutable cached PDF
\* checksum" (README.md:64): a highlight lies in the version whose pages its text
\* was selected in, and a version is given no other version's fingerprint, which
\* would make it unreadable; except in a version that was clicked for with a
\* selection left over from pages replaced since.
HighlightsAreBound ==
  /\ \A i \in Here : rows[i].doc \in {rows[i].from} \union strayed
  /\ \A d \in Docs \ strayed : prints[d] \in {NoDoc, d}

\* "This highlight was updated in another tab" (services/annotations.py:173): no
\* save replaces a note of the highlight its page shows that the page has not
\* been told.  Told is less than shown: a draft may stand in the card's place.
NoBlindNote == ~blind
=============================================================================
