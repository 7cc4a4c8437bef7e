---------------------------- MODULE NoteEditing ----------------------------
(***************************************************************************)
(* The synthesis note of one paper, edited in several reader pages:        *)
(* upsert_paper_note (services/annotations.py) with its revision check on  *)
(* the server, and the autosave of static/reader.js in each page, with its *)
(* timer, its overlapping requests, its retries and the draft it keeps in  *)
(* the localStorage that all pages of one browser share.                   *)
(*                                                                         *)
(* The row of paper_notes is the last element of versions, its revision is *)
(* the length of versions; 0 means there is no row.  Every keystroke that  *)
(* the model counts makes a text nobody has written before.                *)
(***************************************************************************)
EXTENDS Integers, Sequences, SequencesExt

CONSTANTS
  Pages,           \* reader pages (tabs)
  Browsers,        \* localStorage areas
  Browser,         \* Browser[p]: the area of page p
  MaxTyped,        \* bound: texts typed
  MaxFlight,       \* bound: saves a page has in flight
  MaxFaults,       \* bound: requests and answers lost, failed loads
  MaxOpens,        \* bound: pages opened
  MaxClicks,       \* bound: clicks on retry, PDF versions selected
  RepliesInOrder,  \* a page's answers arrive in the order of its requests
  PromptReadBack,  \* no other write falls between a write and its read-back
  QuietLoads       \* nothing is typed or saved in a page while it loads

ASSUME NoteAssumption ==
  /\ \A p \in Pages : Browser[p] \in Browsers
  /\ MaxTyped \in Nat /\ MaxFlight \in Nat \ {0}
  /\ MaxFaults \in Nat /\ MaxOpens \in Nat /\ MaxClicks \in Nat
  /\ RepliesInOrder \in BOOLEAN /\ PromptReadBack \in BOOLEAN /\ QuietLoads \in BOOLEAN

VARIABLES
  versions,   \* paper_notes: the bodies the row has had
  blind,      \* history: a write replaced a body its page had not been shown
  drafts,     \* localStorage, per browser
  open,       \* which pages are open
  text,       \* the textarea
  known,      \* this.paperNote.revision
  seen,       \* history: revisions the page showed, or its user knows to replace
  status,     \* the status line
  retry,      \* the retry button: "hidden", or what a click does
  timer,      \* a save is due
  fetch,      \* a load, or the fetch of "Reload & retry", in progress
  flight,     \* the page's POSTs, oldest first
  typed, faults, opens, clicks

page   == <<open, text, known, seen, status, retry, timer, fetch>>
bounds == <<typed, faults, opens, clicks>>
vars   == <<versions, blind, drafts, page, flight, bounds>>

Blank   == 0
Texts   == 0..MaxTyped
NoDraft == -1
NoFetch == [for |-> "none"]
Revision == Len(versions)
Body     == IF Revision = 0 THEN Blank ELSE Last(versions)

Requests ==
  [phase : {"sent", "checked", "written", "replied"}, text : Texts,
   base : Nat, seen : SUBSET Nat, found : BOOLEAN,
   answer : {"none", "ok", "conflict", "error"}, revision : Nat, live : BOOLEAN]

TypeOK ==
  /\ versions \in Seq(Texts) /\ blind \in BOOLEAN
  /\ drafts \in [Browsers -> Texts \union {NoDraft}]
  /\ open \in [Pages -> BOOLEAN]
  /\ text \in [Pages -> Texts]
  /\ \A p \in Pages : known[p] \in 0..Revision /\ seen[p] \subseteq 0..Revision
  /\ status \in [Pages -> {"empty", "unsaved", "recovered", "saving", "loading", "saved",
                           "conflict", "error"}]
  /\ retry \in [Pages -> {"hidden", "save", "reload"}]
  /\ timer \in [Pages -> BOOLEAN]
  /\ \A p \in Pages : fetch[p].for \in {"none", "open", "select", "retry"}
  /\ \A p \in Pages : Len(flight[p]) <= MaxFlight /\
       \A i \in DOMAIN flight[p] :
         flight[p][i] \in Requests /\ flight[p][i].revision <= Revision
  /\ typed \in 0..MaxTyped /\ faults \in 0..MaxFaults /\ opens \in 0..MaxOpens
  /\ clicks \in 0..MaxClicks

Init ==
  /\ versions = <<>> /\ blind = FALSE
  /\ drafts = [b \in Browsers |-> NoDraft]
  /\ open = [p \in Pages |-> FALSE]
  /\ text = [p \in Pages |-> Blank]
  /\ known = [p \in Pages |-> 0]
  /\ seen = [p \in Pages |-> {}]
  /\ status = [p \in Pages |-> "empty"]
  /\ retry = [p \in Pages |-> "hidden"]
  /\ timer = [p \in Pages |-> FALSE]
  /\ fetch = [p \in Pages |-> NoFetch]
  /\ flight = [p \in Pages |-> <<>>]
  /\ typed = 0 /\ faults = 0 /\ opens = 0 /\ clicks = 0

Fault == faults < MaxFaults /\ faults' = faults + 1
Click == clicks < MaxClicks /\ clicks' = clicks + 1

-----------------------------------------------------------------------------
(* A page is opened and closed; what it loads.                             *)

\* fetchAnnotations, and what runLoadAction remembers of the page before it.
Fetch(p, for) ==
  fetch' = [fetch EXCEPT ![p] = [for |-> for, phase |-> "sent",
                                 text |-> text[p], known |-> known[p]]]

Fetching(p, phase) == fetch[p] # NoFetch /\ fetch[p].phase = phase
Loading(p) == fetch[p].for \in {"open", "select"}

\* The load that open() starts.
Open(p) ==
  /\ ~open[p] /\ opens < MaxOpens /\ opens' = opens + 1
  /\ open' = [open EXCEPT ![p] = TRUE]
  /\ Fetch(p, "open")
  /\ UNCHANGED <<versions, blind, drafts, text, known, seen, status, retry, timer, flight,
                 typed, faults, clicks>>

\* The memory of the page is lost.  Requests under way go on at the server;
\* nobody hears their answers.
Close(p) ==
  /\ open[p]
  /\ open' = [open EXCEPT ![p] = FALSE]
  /\ text' = [text EXCEPT ![p] = Blank]
  /\ known' = [known EXCEPT ![p] = 0] /\ seen' = [seen EXCEPT ![p] = {}]
  /\ status' = [status EXCEPT ![p] = "empty"] /\ retry' = [retry EXCEPT ![p] = "hidden"]
  /\ timer' = [timer EXCEPT ![p] = FALSE]
  /\ fetch' = [fetch EXCEPT ![p] = NoFetch]
  /\ flight' = [flight EXCEPT ![p] =
                  [i \in DOMAIN @ |-> [@[i] EXCEPT !.live = FALSE]]]
  /\ UNCHANGED <<versions, blind, drafts, bounds>>

\* The reader is opened again in its page, or another version of the PDF is
\* selected (runLoadAction).
LoadPage(p) ==
  /\ open[p] /\ fetch[p] = NoFetch /\ Click
  /\ QuietLoads => flight[p] = <<>> /\ ~timer[p]
  /\ Fetch(p, "open") \/ Fetch(p, "select")
  /\ UNCHANGED <<versions, blind, drafts, open, text, known, seen, status, retry, timer,
                 flight, typed, faults, opens>>

\* The server's part of fetchAnnotations: one SELECT of the note.
AnswerFetch(p) ==
  /\ Fetching(p, "sent")
  /\ fetch' = [fetch EXCEPT ![p] = [for |-> @.for, phase |-> "answered", text |-> @.text,
                                    known |-> @.known, revision |-> Revision,
                                    body |-> Body]]
  /\ UNCHANGED <<versions, blind, drafts, open, text, known, seen, status, retry, timer,
                 flight, bounds>>

\* An edit of the page is to be saved, or being saved.
Editing(p) == timer[p] \/ \E i \in DOMAIN flight[p] : flight[p][i].live

\* loadAnnotations: the draft of this browser goes before the stored body, which
\* the page then does not show; an edit under way is saved over it all the same.
PageLoaded(p) ==
  /\ Fetching(p, "answered") /\ Loading(p)
  /\ LET draft == drafts[Browser[p]]
         shown == IF draft = NoDraft THEN fetch[p].body ELSE draft
     IN /\ text' = [text EXCEPT ![p] = shown]
        /\ status' = [status EXCEPT ![p] = IF shown # fetch[p].body THEN "recovered" ELSE "empty"]
        /\ retry' = [retry EXCEPT ![p] = IF shown # fetch[p].body THEN "save" ELSE "hidden"]
        /\ seen' = [seen EXCEPT ![p] = IF shown = fetch[p].body \/ Editing(p)
                                         THEN @ \union {fetch[p].revision} ELSE @]
  /\ known' = [known EXCEPT ![p] = fetch[p].revision]
  /\ fetch' = [fetch EXCEPT ![p] = [for |-> @.for, phase |-> "shown", text |-> @.text,
                                    known |-> @.known]]
  /\ UNCHANGED <<versions, blind, drafts, open, timer, flight, bounds>>

\* loadPdf has ended.
PdfLoaded(p) ==
  /\ Fetching(p, "shown")
  /\ fetch' = [fetch EXCEPT ![p] = NoFetch]
  /\ UNCHANGED <<versions, blind, drafts, open, text, known, seen, status, retry, timer,
                 flight, bounds>>

\* The fetch or the PDF fails: open() only reports it.  runLoadAction loads the
\* version that was shown before and, when that fails too, puts back its copy.
LoadFails(p) ==
  /\ Loading(p) /\ Fault
  /\ \/ /\ fetch[p].for = "open"
        /\ fetch' = [fetch EXCEPT ![p] = NoFetch]
        /\ UNCHANGED <<text, known>>
     \/ /\ fetch[p].for = "select"
        /\ fetch' = [fetch EXCEPT ![p] = [for |-> @.for, phase |-> "sent",
                                          text |-> @.text, known |-> @.known]]
        /\ UNCHANGED <<text, known>>
     \/ /\ fetch[p].for = "select"
        /\ fetch' = [fetch EXCEPT ![p] = NoFetch]
        /\ text' = [text EXCEPT ![p] = fetch[p].text]
        /\ known' = [known EXCEPT ![p] = fetch[p].known]
  /\ UNCHANGED <<versions, blind, drafts, open, seen, status, retry, timer, flight,
                 typed, opens, clicks>>

-----------------------------------------------------------------------------
(* Typing, the timer and the retry button.                                 *)

MayAct(p) == open[p] /\ (QuietLoads => ~Loading(p))

\* Mutant: the timer is only set while nothing is in flight.
ArmsWhenIdle(p) == flight[p] = <<>>
Arms(p) == TRUE

\* Who goes on from "Unsaved draft recovered" knows that another body is stored.
GoesOn(p) ==
  seen' = [seen EXCEPT ![p] = IF status[p] = "recovered" THEN @ \union {known[p]} ELSE @]

Type(p) ==
  /\ MayAct(p) /\ typed < MaxTyped /\ typed' = typed + 1
  /\ text' = [text EXCEPT ![p] = typed + 1]
  /\ drafts' = [drafts EXCEPT ![Browser[p]] = typed + 1]
  /\ status' = [status EXCEPT ![p] = "unsaved"]
  /\ retry' = [retry EXCEPT ![p] = "hidden"]
  /\ timer' = [timer EXCEPT ![p] = Arms(p)]
  /\ GoesOn(p)
  /\ UNCHANGED <<versions, blind, open, known, fetch, flight, faults, opens, clicks>>

\* savePaperNote up to its await; base is the revision it sends.
Save(p, base, basis) ==
  /\ Len(flight[p]) < MaxFlight
  /\ flight' = [flight EXCEPT ![p] =
       Append(@, [phase |-> "sent", text |-> text[p], base |-> base, seen |-> basis,
                  found |-> FALSE, answer |-> "none", revision |-> 0, live |-> TRUE])]
  /\ status' = [status EXCEPT ![p] = "saving"]

TimerFires(p) ==
  /\ timer[p] /\ timer' = [timer EXCEPT ![p] = FALSE]
  /\ Save(p, known[p], seen[p])
  /\ UNCHANGED <<versions, blind, drafts, open, text, known, seen, retry, fetch, bounds>>

RetrySave(p) ==
  /\ MayAct(p) /\ retry[p] = "save" /\ Click
  /\ GoesOn(p) /\ Save(p, known[p], seen'[p])
  /\ UNCHANGED <<versions, blind, drafts, open, text, known, retry, timer, fetch,
                 typed, faults, opens>>

\* "Reload & retry": fetches the latest revision, not to show it ...
RetryReload(p) ==
  /\ open[p] /\ retry[p] = "reload" /\ fetch[p] = NoFetch /\ Click
  /\ Fetch(p, "retry")
  /\ status' = [status EXCEPT ![p] = "loading"]
  /\ UNCHANGED <<versions, blind, drafts, open, text, known, seen, retry, timer, flight,
                 typed, faults, opens>>

\* ... but to replace it.
RetryLoaded(p) ==
  /\ Fetching(p, "answered") /\ fetch[p].for = "retry"
  /\ known' = [known EXCEPT ![p] = fetch[p].revision]
  /\ seen' = [seen EXCEPT ![p] = @ \union {fetch[p].revision}]
  /\ Save(p, known'[p], seen'[p])
  /\ fetch' = [fetch EXCEPT ![p] = NoFetch]
  /\ UNCHANGED <<versions, blind, drafts, open, text, retry, timer, bounds>>

RetryFails(p) ==
  /\ fetch[p].for = "retry" /\ Fault
  /\ status' = [status EXCEPT ![p] = "error"]
  /\ fetch' = [fetch EXCEPT ![p] = NoFetch]
  /\ UNCHANGED <<versions, blind, drafts, open, text, known, seen, retry, timer, flight,
                 typed, opens, clicks>>

-----------------------------------------------------------------------------
(* upsert_paper_note, on one thread per request.                           *)

Advance(p, i, request) == flight' = [flight EXCEPT ![p][i] = request]
Reply(p, i, answer) ==
  Advance(p, i, [flight[p][i] EXCEPT !.phase = "replied", !.answer = answer])

\* SELECT revision: is there a note?
CheckNote(p, i) ==
  /\ flight[p][i].phase = "sent"
  /\ IF Revision = 0 /\ flight[p][i].base \notin {0, 1}
       THEN Reply(p, i, "conflict")
       ELSE Advance(p, i, [flight[p][i] EXCEPT !.phase = "checked", !.found = Revision # 0])
  /\ UNCHANGED <<versions, blind, drafts, page, bounds>>

\* Mutant: the UPDATE without AND revision = ?.
RevisionIgnored(base) == TRUE
RevisionMatches(base) == base = Revision

\* Mutant: rowcount is not looked at.
RefusedIsAccepted(p, i) ==
  Advance(p, i, [flight[p][i] EXCEPT !.phase = "written"])
\* rowcount = 0, or the other thread's row (IntegrityError) on INSERT.
Refused(p, i) ==
  Reply(p, i, IF flight[p][i].found THEN "conflict" ELSE "error")

\* INSERT or UPDATE, whichever the SELECT decided.
WriteNote(p, i) ==
  LET r == flight[p][i] IN
  /\ r.phase = "checked"
  /\ PromptReadBack =>
       \A q \in Pages : \A j \in DOMAIN flight[q] : flight[q][j].phase # "written"
  /\ \/ /\ IF r.found THEN RevisionMatches(r.base) ELSE Revision = 0
        /\ versions' = Append(versions, r.text)
        /\ blind' = (blind \/ (Revision # 0 /\ Revision \notin r.seen))
        /\ Advance(p, i, [r EXCEPT !.phase = "written"])
     \/ /\ ~IF r.found THEN RevisionMatches(r.base) ELSE Revision = 0
        /\ Refused(p, i)
        /\ UNCHANGED <<versions, blind>>
  /\ UNCHANGED <<drafts, page, bounds>>

\* Mutant: the answer counts the revision up itself, after the UPDATE did.
CountedAgain == Revision + 1
AnswerRevision == Revision

\* The SELECT that makes the answer.
ReadBack(p, i) ==
  /\ flight[p][i].phase = "written"
  /\ Advance(p, i, [flight[p][i] EXCEPT !.phase = "replied", !.answer = "ok",
                                        !.revision = AnswerRevision])
  /\ UNCHANGED <<versions, blind, drafts, page, bounds>>

\* The request does not arrive, or its answer does not.
Lose(p, i) ==
  /\ flight[p][i].phase \in {"sent", "replied"} /\ flight[p][i].answer # "error"
  /\ Fault
  /\ Reply(p, i, "error")
  /\ UNCHANGED <<versions, blind, drafts, page, typed, opens, clicks>>

-----------------------------------------------------------------------------
(* savePaperNote after its await.                                          *)

\* The i-th request of p leaves the flight with the given answer.
Hear(p, i, answer) ==
  /\ open[p] /\ flight[p][i].live
  /\ flight[p][i].phase = "replied" /\ flight[p][i].answer = answer
  /\ RepliesInOrder => \A j \in 1..(i - 1) : ~flight[p][j].live
  /\ flight' = [flight EXCEPT ![p] = RemoveAt(@, i)]

Saved(p, i) ==
  /\ Hear(p, i, "ok")
  /\ LET r == flight[p][i] IN
     /\ known' = [known EXCEPT ![p] = r.revision]
     /\ seen' = [seen EXCEPT ![p] =
                   IF versions[r.revision] = r.text THEN @ \union {r.revision} ELSE @]
  /\ drafts' = [drafts EXCEPT ![Browser[p]] = NoDraft]
  /\ status' = [status EXCEPT ![p] = "saved"]
  /\ retry' = [retry EXCEPT ![p] = "hidden"]
  /\ UNCHANGED <<versions, blind, open, text, timer, fetch, bounds>>

\* Mutant: only a conflict is handled, any other failure is not.
ConflictOnly(p, i) ==
  /\ Hear(p, i, "conflict")
  /\ status' = [status EXCEPT ![p] = "conflict"]
  /\ retry' = [retry EXCEPT ![p] = "reload"]
  /\ UNCHANGED <<versions, blind, drafts, open, text, known, seen, timer, fetch, bounds>>

NotSaved(p, i) ==
  /\ \/ /\ Hear(p, i, "conflict")
        /\ status' = [status EXCEPT ![p] = "conflict"]
        /\ retry' = [retry EXCEPT ![p] = "reload"]
     \/ /\ Hear(p, i, "error")
        /\ status' = [status EXCEPT ![p] = "error"]
        /\ retry' = [retry EXCEPT ![p] = "save"]
  /\ UNCHANGED <<versions, blind, drafts, open, text, known, seen, timer, fetch, bounds>>

\* The answer to a page that is gone.
Unheard(p, i) ==
  /\ ~flight[p][i].live /\ flight[p][i].phase = "replied"
  /\ flight' = [flight EXCEPT ![p] = RemoveAt(@, i)]
  /\ UNCHANGED <<versions, blind, drafts, page, bounds>>

-----------------------------------------------------------------------------
ServerStep(p) ==
  \/ AnswerFetch(p)
  \/ \E i \in DOMAIN flight[p] : CheckNote(p, i) \/ WriteNote(p, i) \/ ReadBack(p, i)

PageStep(p) ==
  \/ TimerFires(p) \/ PageLoaded(p) \/ PdfLoaded(p) \/ RetryLoaded(p)
  \/ \E i \in DOMAIN flight[p] : Saved(p, i) \/ NotSaved(p, i) \/ Unheard(p, i)

UserStep(p) ==
  Open(p) \/ Close(p) \/ LoadPage(p) \/ Type(p) \/ RetrySave(p) \/ RetryReload(p)

FaultStep(p) ==
  LoadFails(p) \/ RetryFails(p) \/ \E i \in DOMAIN flight[p] : Lose(p, i)

Next == \E p \in Pages : ServerStep(p) \/ PageStep(p) \/ UserStep(p) \/ FaultStep(p)

Spec == Init /\ [][Next]_vars

\* The server answers and the page's timers and callbacks run; the user and
\* the network owe nothing.
FairSpec == Spec /\ \A p \in Pages : WF_vars(ServerStep(p)) /\ WF_vars(PageStep(p))

-----------------------------------------------------------------------------
(* Properties.                                                             *)

\* No write replaces a body that its page had not shown, unless its user knew of
\* it: from "Conflict" and "Reload & retry", or by going on from "Unsaved draft
\* recovered".  That is what "stale tab" stands for (tests/test_annotation_web.py:92).
\* One case is exempted, which QuietLoads excludes: an edit that was under way when
\* the page was loaded goes out over the revision of the load, shown or not.
NoBlindOverwrite == ~blind

\* A success answer is never sent for a text the note has not had.
AcknowledgedIsStored ==
  \A p \in Pages : \A i \in DOMAIN flight[p] :
    flight[p][i].answer = "ok" => \E v \in DOMAIN versions : versions[v] = flight[p][i].text

\* When a page at rest says "Saved", its text is the body of the revision it knows.
SavedMeansSaved ==
  \A p \in Pages :
    open[p] /\ status[p] = "saved" /\ ~timer[p] /\ flight[p] = <<>> =>
      known[p] # 0 /\ text[p] = versions[known[p]]

\* "Conflict - your draft is safe" (static/reader.js:609): the text that could
\* not be saved is in the browser's storage, where a reload finds it.
DraftIsSafe ==
  \A p \in Pages :
    open[p] /\ status[p] = "conflict" /\ ~timer[p] => drafts[Browser[p]] = text[p]

\* Once nobody types and no page is told anything, no page keeps promising a
\* save: it has saved, or it says that it could not.
EditsSettle ==
  \A p \in Pages : open[p] /\ (timer[p] \/ status[p] = "saving") ~>
     ~open[p] \/ (~timer[p] /\ status[p] # "saving")
-----------------------------------------------------------------------------
(* What the server's part amounts to: a register with compare-and-set.     *)

\* A save is decided when its write is done: nothing comes between that and the
\* read-back that makes its answer.
Decided(r) ==
  [text |-> r.text, base |-> r.base,
   answer   |-> IF r.phase = "written" THEN "ok" ELSE r.answer,
   revision |-> IF r.phase = "written" THEN Revision ELSE r.revision]

Saves == [p \in Pages |-> [i \in DOMAIN flight[p] |-> Decided(flight[p][i])]]

Register == INSTANCE NoteRegister WITH saves <- Saves

\* The SELECT, the INSERT or UPDATE and the SELECT of upsert_paper_note, executed
\* by the threads of several requests in any order, behave like one step: a save
\* is accepted against the note's revision and told the revision of its own
\* text, or refused because it named another one ("updated in another tab",
\* services/annotations.py:196,214), or its page is told nothing of either.
RegisterSpec == Register!Spec
=============================================================================
