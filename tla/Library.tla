------------------------------ MODULE Library ------------------------------
(***************************************************************************)
(* The library of arxiv_cortex: which papers are saved, read or dismissed  *)
(* (services/papers.py), the groups they are put in (services/groups.py),  *)
(* the imports that save a paper in a group (services/imports.py, web.py,  *)
(* cli.py) and the recommendations that leave out what the user has dealt  *)
(* with (services/recommendations.py).                                     *)
(*                                                                         *)
(* A request reads in statements of its own and then writes in one         *)
(* transaction (BEGIN IMMEDIATE, db.py:34), so other requests commit       *)
(* between its steps.  A paper's row is never deleted; a group's id is its *)
(* rowid, which SQLite hands out again once the largest one is free.       *)
(***************************************************************************)
EXTENDS Integers, FiniteSets

CONSTANTS
  Requests,     \* requests of the server's threads and import commands
  Papers,
  Names,        \* names of groups, case folded and trimmed
  NoName,       \* the name of an id that no group has
  MaxGroups,    \* bound: ids of groups
  MaxChanges,   \* bound: clicks that are one transaction
  MaxRequests   \* bound: requests of several steps

ASSUME LibraryAssumption ==
  /\ NoName \notin Names
  /\ MaxGroups \in Nat /\ MaxChanges \in Nat /\ MaxRequests \in Nat

VARIABLES
  known,       \* the papers table
  saved,       \* paper_state: saved_at is not null
  dismissed,   \* paper_state: dismissed_at is not null
  read,        \* paper_state: read_at is not null
  names,       \* paper_groups: the name of each id
  members,     \* paper_group_memberships: <<group, paper>>
  req,         \* per request: where it is and what it holds
  raced,       \* history: papers unsaved behind the back of a request
  changes, begun

state  == <<saved, dismissed, read>>
bounds == <<changes, begun>>
vars   == <<known, state, names, members, req, raced, bounds>>

Ids     == 1..MaxGroups
NoGroup == 0
NoPaper == "none"
Live    == {g \in Ids : names[g] # NoName}
Interacted == saved \union read \union dismissed

\* What a request holds: the paper and groups it is about, the papers an import
\* command has still to save, those a feed shows, those that were dealt with
\* ever since the feed was asked for, and whether the request changed anything.
NoRequest ==
  [at |-> "idle", paper |-> NoPaper, picks |-> {}, name |-> NoName, todo |-> {},
   shown |-> {}, settled |-> {}, wrote |-> FALSE]

Points ==
  {"idle", "done", "refused", "aborted",
   "assign saved", "assign groups", "assign write",
   "import group", "import fetch", "import lookup", "import write",
   "delete get", "delete write",
   "command find", "command get", "command create", "command created", "command fetch",
   "command save", "command saved", "command group", "command write",
   "feed profile", "feed candidates", "feed list", "feed show"}

TypeOK ==
  /\ known \subseteq Papers
  /\ saved \subseteq known /\ dismissed \subseteq known /\ read \subseteq known
  /\ names \in [Ids -> Names \union {NoName}]
  /\ members \subseteq Live \X known
  /\ req \in [Requests ->
       [at : Points, paper : Papers \union {NoPaper}, picks : SUBSET Ids,
        name : Names \union {NoName}, todo : SUBSET Papers, shown : SUBSET Papers,
        settled : SUBSET Papers, wrote : BOOLEAN]]
  /\ raced \subseteq Papers
  /\ changes \in 0..MaxChanges /\ begun \in 0..MaxRequests

\* Some papers are there from a synchronization.
Init ==
  /\ known \in SUBSET Papers
  /\ saved = {} /\ dismissed = {} /\ read = {}
  /\ names = [g \in Ids |-> NoName] /\ members = {}
  /\ req = [t \in Requests |-> NoRequest]
  /\ raced = {} /\ changes = 0 /\ begun = 0

-----------------------------------------------------------------------------
(* One transaction each: the buttons of a paper, new and renamed groups.   *)

Click == changes < MaxChanges /\ changes' = changes + 1

\* Every feed under way takes notice of what is no longer dealt with.
Notice ==
  req' = [t \in Requests |-> [req[t] EXCEPT !.settled = @ \intersect Interacted']]

Groupless(p) == {m \in members : m[2] # p}

\* A request that has seen p saved and is about to put it in a group.
Passed(t) == req[t].at \in {"assign groups", "assign write", "command group", "command write"}
Leaves(p) ==
  /\ members' = Groupless(p)
  /\ raced' = IF \E t \in Requests : Passed(t) /\ req[t].paper = p
                THEN raced \union {p} ELSE raced \ {p}

Save(p) ==
  /\ Click /\ p \in known
  /\ saved' = saved \union {p} /\ dismissed' = dismissed \ {p}
  /\ UNCHANGED <<known, read, names, members, raced, begun>>
  /\ Notice

\* Mutant: the memberships of the paper stay.
UnsaveOnly(p) ==
  /\ Click /\ p \in known
  /\ saved' = saved \ {p}
  /\ UNCHANGED <<known, dismissed, read, names, members, raced, begun>>
  /\ Notice

Unsave(p) ==
  /\ Click /\ p \in known
  /\ saved' = saved \ {p}
  /\ Leaves(p)
  /\ UNCHANGED <<known, dismissed, read, names, begun>>
  /\ Notice

SetRead(p) ==
  /\ Click /\ p \in known
  /\ read' = read \union {p} \/ read' = read \ {p}
  /\ UNCHANGED <<known, saved, dismissed, names, members, raced, begun>>
  /\ Notice

Dismiss(p) ==
  /\ Click /\ p \in known
  /\ dismissed' = dismissed \union {p} /\ saved' = saved \ {p}
  /\ Leaves(p)
  /\ UNCHANGED <<known, read, names, begun>>
  /\ Notice

Undismiss(p) ==
  /\ Click /\ p \in known
  /\ dismissed' = dismissed \ {p}
  /\ UNCHANGED <<known, saved, read, names, members, raced, begun>>
  /\ Notice

\* The rowid of the next group: one more than the largest.
IsNext(g) == (\A h \in Live : h < g) /\ (g = 1 \/ g - 1 \in Live)

\* The name is UNIQUE: a second group of that name is refused.
Insert(g, n) ==
  /\ \A h \in Ids : names[h] # n
  /\ IsNext(g)
  /\ names' = [names EXCEPT ![g] = n]

CreateGroup(n) ==
  /\ Click /\ \E g \in Ids : Insert(g, n)
  /\ UNCHANGED <<known, state, members, req, raced, begun>>

RenameGroup(g, n) ==
  /\ Click /\ g \in Live
  /\ \A h \in Ids \ {g} : names[h] # n
  /\ names' = [names EXCEPT ![g] = n]
  /\ UNCHANGED <<known, state, members, req, raced, begun>>

-----------------------------------------------------------------------------
(* Requests of several steps.                                              *)

Begin(t, request) ==
  /\ req[t].at = "idle"
  /\ begun < MaxRequests /\ begun' = begun + 1
  /\ req' = [req EXCEPT ![t] = request]

Goto(t, point) == req' = [req EXCEPT ![t].at = point]

\* The last write of a request, or of a command for one paper.
Commit(t, point) == req' = [req EXCEPT ![t].at = point, ![t].wrote = TRUE]

\* The answer has been sent; nothing of the request is left.
Finish(t) ==
  /\ req[t].at \in {"done", "refused", "aborted"}
  /\ req' = [req EXCEPT ![t] = NoRequest]
  /\ UNCHANGED <<known, state, names, members, raced, bounds>>

(* The groups of a saved paper: the form of a library page, assign_paper.  *)

AssignForm(t) ==
  /\ \E p \in saved : \E picks \in SUBSET Live :
       Begin(t, [NoRequest EXCEPT !.at = "assign saved", !.paper = p, !.picks = picks])
  /\ UNCHANGED <<known, state, names, members, raced, changes>>

AssignSaved(t) ==
  /\ req[t].at = "assign saved"
  /\ Goto(t, IF req[t].paper \notin saved THEN "refused"
             ELSE IF req[t].picks = {} THEN "assign write" ELSE "assign groups")
  /\ UNCHANGED <<known, state, names, members, raced, bounds>>

AssignGroups(t) ==
  /\ req[t].at = "assign groups"
  /\ Goto(t, IF req[t].picks \subseteq Live THEN "assign write" ELSE "refused")
  /\ UNCHANGED <<known, state, names, members, raced, bounds>>

\* Mutant: the DELETE is committed before the INSERTs.
AssignInParts(t) ==
  /\ req[t].at = "assign write"
  /\ members' = Groupless(req[t].paper) \union ((req[t].picks \intersect Live) \X {req[t].paper})
  /\ Commit(t, IF req[t].picks \subseteq Live THEN "done" ELSE "refused")
  /\ UNCHANGED <<known, state, names, raced, bounds>>

\* DELETE, then INSERT; a group that is gone fails its foreign key, which
\* rolls everything back.
AssignWrite(t) ==
  /\ req[t].at = "assign write"
  /\ \/ /\ req[t].picks \subseteq Live
        /\ members' = Groupless(req[t].paper) \union (req[t].picks \X {req[t].paper})
        /\ Commit(t, "done")
     \/ /\ ~(req[t].picks \subseteq Live)
        /\ Goto(t, "refused")
        /\ UNCHANGED members
  /\ UNCHANGED <<known, state, names, raced, bounds>>

(* A paper from a URL, saved in a group or in none: import_paper.          *)

ImportForm(t) ==
  /\ \E p \in Papers : \E picks \in {{}} \union {{g} : g \in Live} :
       Begin(t, [NoRequest EXCEPT !.at = "import group", !.paper = p, !.picks = picks])
  /\ UNCHANGED <<known, state, names, members, raced, changes>>

ImportGroup(t) ==
  /\ req[t].at = "import group"
  /\ Goto(t, IF req[t].picks \subseteq Live THEN "import fetch" ELSE "refused")
  /\ UNCHANGED <<known, state, names, members, raced, bounds>>

\* import_url: the download fails, or the paper is committed.
ImportFetch(t) ==
  /\ req[t].at = "import fetch"
  /\ \/ Goto(t, "refused") /\ UNCHANGED known
     \/ Goto(t, "import lookup") /\ known' = known \union {req[t].paper}
  /\ UNCHANGED <<state, names, members, raced, bounds>>

\* save_paper asks for the group once more ...
ImportLookup(t) ==
  /\ req[t].at = "import lookup"
  /\ Goto(t, IF req[t].picks \subseteq Live THEN "import write" ELSE "refused")
  /\ UNCHANGED <<known, state, names, members, raced, bounds>>

\* Mutant: the upsert leaves dismissed_at alone.
KeepsDismissed(p) == dismissed
Undismissed(p) == dismissed \ {p}

\* ... and saves the paper with its membership.  INSERT OR IGNORE does not
\* ignore a foreign key: the request fails and the paper is not saved.
ImportWrite(t) ==
  /\ req[t].at = "import write"
  /\ \/ /\ req[t].picks \subseteq Live
        /\ saved' = saved \union {req[t].paper}
        /\ dismissed' = Undismissed(req[t].paper)
        /\ members' = members \union (req[t].picks \X {req[t].paper})
        /\ Commit(t, "done")
     \/ /\ ~(req[t].picks \subseteq Live)
        /\ Goto(t, "refused")
        /\ UNCHANGED <<saved, dismissed, members>>
  /\ UNCHANGED <<known, read, names, raced, bounds>>

(* Deleting a group: its memberships go with it, its papers stay saved.    *)

DeleteForm(t) ==
  /\ \E g \in Live :
       Begin(t, [NoRequest EXCEPT !.at = "delete get", !.picks = {g}])
  /\ UNCHANGED <<known, state, names, members, raced, changes>>

DeleteGet(t) ==
  /\ req[t].at = "delete get"
  /\ Goto(t, IF req[t].picks \subseteq Live THEN "delete write" ELSE "refused")
  /\ UNCHANGED <<known, state, names, members, raced, bounds>>

\* Mutant: without ON DELETE CASCADE.
DeleteGroupOnly(t) ==
  /\ req[t].at = "delete write"
  /\ names' = [g \in Ids |-> IF g \in req[t].picks THEN NoName ELSE names[g]]
  /\ Commit(t, "done")
  /\ UNCHANGED <<known, state, members, raced, bounds>>

DeleteWrite(t) ==
  /\ req[t].at = "delete write"
  /\ names' = [g \in Ids |-> IF g \in req[t].picks THEN NoName ELSE names[g]]
  /\ members' = {m \in members : m[1] \notin req[t].picks}
  /\ Commit(t, "done")
  /\ UNCHANGED <<known, state, raced, bounds>>

-----------------------------------------------------------------------------
(* The import command: a group by name, the papers, then one by one.       *)

Command(t) ==
  /\ \E n \in Names :
       Begin(t, [NoRequest EXCEPT !.at = "command find", !.name = n])
  /\ UNCHANGED <<known, state, names, members, raced, changes>>

\* get_by_name: the id, then the group of that id; create when there is none.
CommandFind(t) ==
  /\ req[t].at = "command find"
  /\ LET found == {g \in Live : names[g] = req[t].name}
     IN req' = [req EXCEPT ![t].picks = found,
                           ![t].at = IF found = {} THEN "command create" ELSE "command get"]
  /\ UNCHANGED <<known, state, names, members, raced, bounds>>

CommandGet(t) ==
  /\ req[t].at = "command get"
  /\ Goto(t, IF req[t].picks \subseteq Live THEN "command fetch" ELSE "command create")
  /\ UNCHANGED <<known, state, names, members, raced, bounds>>

CommandCreate(t) ==
  /\ req[t].at = "command create"
  /\ \/ \E g \in Ids :
          /\ Insert(g, req[t].name)
          /\ req' = [req EXCEPT ![t].at = "command created", ![t].picks = {g}]
     \/ /\ \E g \in Ids : names[g] = req[t].name
        /\ Goto(t, "aborted")
        /\ UNCHANGED names
  /\ UNCHANGED <<known, state, members, raced, bounds>>

CommandCreated(t) ==
  /\ req[t].at = "command created"
  /\ Goto(t, IF req[t].picks \subseteq Live THEN "command fetch" ELSE "aborted")
  /\ UNCHANGED <<known, state, names, members, raced, bounds>>

\* One more paper of the manifest is imported, or the rest is skipped.
CommandFetch(t) ==
  /\ req[t].at = "command fetch"
  /\ \/ \E p \in Papers \ req[t].todo :
          /\ known' = known \union {p}
          /\ req' = [req EXCEPT ![t].todo = @ \union {p}]
     \/ Goto(t, "command save") /\ UNCHANGED known
  /\ UNCHANGED <<state, names, members, raced, bounds>>

\* set_saved commits on its own; add_paper looks the paper up again.
CommandSave(t) ==
  /\ req[t].at = "command save"
  /\ \/ \E p \in req[t].todo :
          /\ saved' = saved \union {p} /\ dismissed' = dismissed \ {p}
          /\ req' = [req EXCEPT ![t].at = "command saved", ![t].paper = p,
                                ![t].todo = @ \ {p}, ![t].wrote = TRUE]
     \/ req[t].todo = {} /\ Goto(t, "done") /\ UNCHANGED <<saved, dismissed>>
  /\ UNCHANGED <<known, read, names, members, raced, bounds>>

CommandSaved(t) ==
  /\ req[t].at = "command saved"
  /\ Goto(t, IF req[t].paper \in saved THEN "command group" ELSE "aborted")
  /\ UNCHANGED <<known, state, names, members, raced, bounds>>

CommandGroup(t) ==
  /\ req[t].at = "command group"
  /\ Goto(t, IF req[t].picks \subseteq Live THEN "command write" ELSE "aborted")
  /\ UNCHANGED <<known, state, names, members, raced, bounds>>

CommandWrite(t) ==
  /\ req[t].at = "command write"
  /\ \/ /\ req[t].picks \subseteq Live
        /\ members' = members \union (req[t].picks \X {req[t].paper})
        /\ Commit(t, "command save")
     \/ /\ ~(req[t].picks \subseteq Live)
        /\ Goto(t, "aborted")
        /\ UNCHANGED members
  /\ UNCHANGED <<known, state, names, raced, bounds>>

-----------------------------------------------------------------------------
(* recommend: four reads, between which the user goes on clicking.         *)

\* Mutant: the candidates leave out what is saved or read, not what is dismissed.
LeavesDismissed == saved \union read
Excluded == saved \union read \union dismissed

\* The saved papers make the profile; without any, the newest papers are listed.
FeedSaved(t) ==
  /\ Begin(t, [NoRequest EXCEPT !.at = IF saved = {} THEN "feed list" ELSE "feed profile",
                                !.settled = Interacted])
  /\ UNCHANGED <<known, state, names, members, raced, changes>>

\* The vectors and the dismissed papers give a profile, or there is none yet.
FeedProfile(t) ==
  /\ req[t].at = "feed profile"
  /\ Goto(t, "feed candidates") \/ Goto(t, "feed show")
  /\ UNCHANGED <<known, state, names, members, raced, bounds>>

\* candidate_ids; the category, the date, the embedded papers and the limit of the
\* page select some of them.
FeedCandidates(t) ==
  /\ req[t].at = "feed candidates"
  /\ \E shown \in SUBSET (known \ Excluded) :
       req' = [req EXCEPT ![t].at = "feed show", ![t].shown = shown]
  /\ UNCHANGED <<known, state, names, members, raced, bounds>>

\* _query_parts with exclude_interacted: some of the papers without such a state.
Listed(papers) == papers \subseteq known \ Excluded

\* list: one SELECT, of the newest ones, for a library that is empty.
FeedList(t) ==
  /\ req[t].at = "feed list"
  /\ \E shown \in SUBSET Papers :
       /\ Listed(shown)
       /\ req' = [req EXCEPT ![t].at = "done", ![t].shown = shown]
  /\ UNCHANGED <<known, state, names, members, raced, bounds>>

\* get_by_database_ids: the cards, with the state each paper has by now.
FeedShow(t) ==
  /\ req[t].at = "feed show"
  /\ Goto(t, "done")
  /\ UNCHANGED <<known, state, names, members, raced, bounds>>

-----------------------------------------------------------------------------
PaperClick(p) == Save(p) \/ Unsave(p) \/ SetRead(p) \/ Dismiss(p) \/ Undismiss(p)
GroupClick(n) == CreateGroup(n) \/ \E g \in Ids : RenameGroup(g, n)

AssignStep(t)  == AssignForm(t) \/ AssignSaved(t) \/ AssignGroups(t) \/ AssignWrite(t)
ImportStep(t)  == ImportForm(t) \/ ImportGroup(t) \/ ImportFetch(t) \/ ImportLookup(t)
                    \/ ImportWrite(t)
DeleteStep(t)  == DeleteForm(t) \/ DeleteGet(t) \/ DeleteWrite(t)
CommandStep(t) ==
  \/ Command(t) \/ CommandFind(t) \/ CommandGet(t) \/ CommandCreate(t) \/ CommandCreated(t)
  \/ CommandFetch(t) \/ CommandSave(t) \/ CommandSaved(t) \/ CommandGroup(t) \/ CommandWrite(t)
FeedStep(t)    == FeedSaved(t) \/ FeedProfile(t) \/ FeedCandidates(t) \/ FeedShow(t)
                    \/ FeedList(t)

Next ==
  \/ \E p \in Papers : PaperClick(p)
  \/ \E n \in Names : GroupClick(n)
  \/ \E t \in Requests :
       AssignStep(t) \/ ImportStep(t) \/ DeleteStep(t) \/ CommandStep(t) \/ FeedStep(t)
         \/ Finish(t)

Spec == Init /\ [][Next]_vars

-----------------------------------------------------------------------------
(* Properties.                                                             *)

\* "Saved and dismissed are mutually exclusive" (docs/PLAN.md:32), whichever of
\* the buttons, an import or a command comes last; no write runs into the CHECK
\* of migrations/001_initial.sql that would turn it into an error page.
SavedXorDismissed == saved \intersect dismissed = {}

\* Only saved papers are in a group ("removing from library clears membership",
\* tests/test_groups.py:44), except one that left the library between the lookup
\* and the write of a request that puts it in a group: that membership stays,
\* unseen, and shows again when the paper is saved.
GroupedAreSaved == \A m \in members : m[2] \in saved \union raced

\* A web request that ends in an error has changed neither the library nor its
\* groups; an import may have added the paper itself, never half of its saving.
RefusedChangesNothing == \A t \in Requests : req[t].at = "refused" => ~req[t].wrote

\* "Saved, dismissed, and read papers are excluded from recommendation
\* candidates" (docs/PLAN.md:56): a feed never shows a paper the user had dealt
\* with before it was asked for and has not taken back since.
SettledIsNotShown == \A t \in Requests : req[t].shown \intersect req[t].settled = {}
=============================================================================
