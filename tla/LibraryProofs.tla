--------------------------- MODULE LibraryProofs ---------------------------
(***************************************************************************)
(* Proofs about Library, for every set of requests, papers and names: the  *)
(* types, and the four invariants that Library_requests checks.            *)
(***************************************************************************)
EXTENDS Library, TLAPS

USE LibraryAssumption

Request ==
  [at : Points, paper : Papers \union {NoPaper}, picks : SUBSET Ids,
   name : Names \union {NoName}, todo : SUBSET Papers, shown : SUBSET Papers,
   settled : SUBSET Papers, wrote : BOOLEAN]

-----------------------------------------------------------------------------
(* Types.  A membership refers to a paper that a request names, so types    *)
(* are inductive only with what a request knows of its papers.              *)

Found ==
  {"assign saved", "assign groups", "assign write", "import lookup", "import write",
   "command saved", "command group", "command write"}

Named == {"import group", "import fetch"}

\* The tables, and the requests.
TablesOK ==
  /\ known \subseteq Papers
  /\ saved \subseteq known /\ dismissed \subseteq known /\ read \subseteq known
  /\ names \in [Ids -> Names \union {NoName}]
  /\ members \subseteq Live \X known
  /\ raced \subseteq Papers
  /\ changes \in 0..MaxChanges /\ begun \in 0..MaxRequests

Knows(r, papers) ==
  /\ r.todo \subseteq papers
  /\ r.at \in Found => r.paper \in papers
  /\ r.at \in Named => r.paper \in Papers

RequestsOK ==
  /\ req \in [Requests -> Request]
  /\ \A t \in Requests : Knows(req[t], known)

TypeInv == TablesOK /\ RequestsOK

LEMMA TypeInit == Init => TypeInv
<1> SUFFICES ASSUME Init PROVE TypeInv OBVIOUS
<1>1. TablesOK BY DEF Init, TablesOK, Live
<1>2. NoRequest \in Request BY DEF NoRequest, Request, Points
<1>3. Knows(NoRequest, known) BY DEF NoRequest, Knows, Found, Named
<1>4. RequestsOK BY <1>2, <1>3 DEF Init, RequestsOK
<1> QED BY <1>1, <1>4 DEF TypeInv

\* A request whose type and knowledge are right takes the place of one.
LEMMA OneRequest ==
  ASSUME RequestsOK, NEW t \in Requests, NEW r \in Request,
         req' = [req EXCEPT ![t] = r], known \subseteq known', Knows(r, known')
  PROVE  RequestsOK'
BY DEF RequestsOK, Knows

LEMMA Noticing ==
  ASSUME RequestsOK, Notice, known' = known
  PROVE  RequestsOK'
<1>1. ASSUME NEW t \in Requests
      PROVE  /\ req'[t] = [req[t] EXCEPT !.settled = @ \intersect Interacted']
             /\ req'[t] \in Request /\ Knows(req'[t], known')
  <2>1. req[t] \in Request /\ Knows(req[t], known) BY DEF RequestsOK
  <2>2. req'[t] = [req[t] EXCEPT !.settled = @ \intersect Interacted'] BY DEF Notice
  <2> QED BY <2>1, <2>2 DEF Request, Knows
<1> QED BY <1>1 DEF RequestsOK, Notice

LEMMA TypeClick ==
  ASSUME TypeInv, NEW p \in Papers, PaperClick(p)
  PROVE  TypeInv'
<1> USE DEF TypeInv, TablesOK
<1>1. known' = known /\ Notice
  BY DEF PaperClick, Save, Unsave, SetRead, Dismiss, Undismiss
<1>2. RequestsOK' BY <1>1, Noticing
<1>3. CASE Save(p)
  BY <1>2, <1>3 DEF Save, Click, Live
<1>4. CASE Unsave(p)
  BY <1>2, <1>4 DEF Unsave, Leaves, Groupless, Click, Live
<1>5. CASE SetRead(p)
  BY <1>2, <1>5 DEF SetRead, Click, Live
<1>6. CASE Dismiss(p)
  BY <1>2, <1>6 DEF Dismiss, Leaves, Groupless, Click, Live
<1>7. CASE Undismiss(p)
  BY <1>2, <1>7 DEF Undismiss, Click, Live
<1> QED BY <1>3, <1>4, <1>5, <1>6, <1>7 DEF PaperClick

LEMMA NewName ==
  ASSUME TablesOK, NEW g \in Ids, NEW n \in Names, names' = [names EXCEPT ![g] = n],
         known' = known
  PROVE  /\ names' \in [Ids -> Names \union {NoName}]
         /\ members \subseteq (Live \X known)'
BY DEF TablesOK, Live

LEMMA TypeGroup ==
  ASSUME TypeInv, NEW n \in Names, GroupClick(n)
  PROVE  TypeInv'
<1> USE DEF TypeInv
<1>1. PICK g \in Ids : names' = [names EXCEPT ![g] = n]
  BY DEF GroupClick, CreateGroup, RenameGroup, Insert
<1>2. /\ UNCHANGED <<known, state, members, req, raced, begun>> /\ Click
  BY DEF GroupClick, CreateGroup, RenameGroup
<1>3. names' \in [Ids -> Names \union {NoName}] /\ members \subseteq (Live \X known)'
  BY <1>1, <1>2, NewName
<1>4. TablesOK' BY <1>2, <1>3 DEF TablesOK, state, Click
<1>5. RequestsOK' BY <1>2 DEF RequestsOK, Knows
<1> QED BY <1>4, <1>5

LEMMA Going ==
  ASSUME RequestsOK, NEW t \in Requests, NEW point \in Points,
         Goto(t, point) \/ Commit(t, point),
         known \subseteq known', point \in Found => req[t].paper \in known',
         point \in Named => req[t].paper \in Papers
  PROVE  RequestsOK'
<1>1. req[t] \in Request /\ req[t].todo \subseteq known BY DEF RequestsOK, Knows
<1>2. CASE Goto(t, point)
  <2> DEFINE r == [req[t] EXCEPT !.at = point]
  <2>1. r \in Request /\ r.at = point /\ r.paper = req[t].paper /\ r.todo = req[t].todo
    BY <1>1 DEF Request
  <2>2. req' = [req EXCEPT ![t] = r] BY <1>2 DEF Goto
  <2>3. Knows(r, known') BY <1>1, <2>1 DEF Knows
  <2> HIDE DEF r
  <2> QED BY <2>1, <2>2, <2>3, OneRequest
<1>3. CASE Commit(t, point)
  <2> DEFINE r == [req[t] EXCEPT !.at = point, !.wrote = TRUE]
  <2>1. r \in Request /\ r.at = point /\ r.paper = req[t].paper /\ r.todo = req[t].todo
    BY <1>1 DEF Request
  <2>2. req' = [req EXCEPT ![t] = r] BY <1>3 DEF Commit
  <2>3. Knows(r, known') BY <1>1, <2>1 DEF Knows
  <2> HIDE DEF r
  <2> QED BY <2>1, <2>2, <2>3, OneRequest
<1> QED BY <1>2, <1>3

LEMMA Beginning ==
  ASSUME RequestsOK, TablesOK, NEW t \in Requests, NEW r \in Request, Begin(t, r),
         known' = known, Knows(r, known)
  PROVE  RequestsOK' /\ begun' \in 0..MaxRequests
<1>1. Knows(r, known') BY DEF Knows
<1>2. RequestsOK' BY <1>1, OneRequest DEF Begin
<1> QED BY <1>2 DEF Begin, TablesOK

LEMMA TypeAssign ==
  ASSUME TypeInv, NEW t \in Requests, AssignStep(t)
  PROVE  TypeInv'
<1> USE DEF TypeInv
<1>1. req[t].at \in Found => req[t].paper \in known BY DEF RequestsOK, Knows
<1>2. CASE AssignForm(t)
  <2>1. PICK p \in saved, picks \in SUBSET Live :
          Begin(t, [NoRequest EXCEPT !.at = "assign saved", !.paper = p, !.picks = picks])
    BY <1>2 DEF AssignForm
  <2> DEFINE r == [NoRequest EXCEPT !.at = "assign saved", !.paper = p, !.picks = picks]
  <2>2. p \in known /\ p \in Papers BY DEF TablesOK
  <2>3. r \in Request /\ Knows(r, known)
    BY <2>2 DEF NoRequest, Request, Points, Live, Knows, Named
  <2>4. UNCHANGED <<known, state, names, members, raced, changes>> BY <1>2 DEF AssignForm
  <2> HIDE DEF r
  <2>5. RequestsOK' /\ begun' \in 0..MaxRequests BY <2>1, <2>3, <2>4, Beginning DEF r
  <2> QED BY <2>4, <2>5 DEF TablesOK, state, Live
<1>3. CASE AssignSaved(t)
  <2>1. RequestsOK'
    BY <1>1, <1>3, Going DEF AssignSaved, Found, Named, Points
  <2> QED BY <1>3, <2>1 DEF AssignSaved, TablesOK, state, bounds, Live
<1>4. CASE AssignGroups(t)
  <2>1. RequestsOK' BY <1>1, <1>4, Going DEF AssignGroups, Found, Named, Points
  <2> QED BY <1>4, <2>1 DEF AssignGroups, TablesOK, state, bounds, Live
<1>5. CASE AssignWrite(t)
  <2>1. RequestsOK' BY <1>1, <1>5, Going DEF AssignWrite, Found, Named, Points
  <2>2. members' \subseteq (Live \X known)'
    BY <1>1, <1>5 DEF AssignWrite, Groupless, TablesOK, Found, Live
  <2> QED BY <1>5, <2>1, <2>2 DEF AssignWrite, TablesOK, state, bounds
<1> QED BY <1>2, <1>3, <1>4, <1>5 DEF AssignStep

LEMMA TypeImport ==
  ASSUME TypeInv, NEW t \in Requests, ImportStep(t)
  PROVE  TypeInv'
<1> USE DEF TypeInv
<1>1. /\ req[t].at \in Found => req[t].paper \in known
      /\ req[t].at \in Named => req[t].paper \in Papers
  BY DEF RequestsOK, Knows
<1>2. CASE ImportForm(t)
  <2>1. PICK p \in Papers, picks \in {{}} \union {{g} : g \in Live} :
          Begin(t, [NoRequest EXCEPT !.at = "import group", !.paper = p, !.picks = picks])
    BY <1>2 DEF ImportForm
  <2> DEFINE r == [NoRequest EXCEPT !.at = "import group", !.paper = p, !.picks = picks]
  <2>2. picks \in SUBSET Ids BY DEF Live
  <2>3. r \in Request /\ Knows(r, known)
    BY <2>2 DEF NoRequest, Request, Points, Knows, Found, Named
  <2>4. UNCHANGED <<known, state, names, members, raced, changes>> BY <1>2 DEF ImportForm
  <2> HIDE DEF r
  <2>5. RequestsOK' /\ begun' \in 0..MaxRequests BY <2>1, <2>3, <2>4, Beginning DEF r
  <2> QED BY <2>4, <2>5 DEF TablesOK, state, Live
<1>3. CASE ImportGroup(t)
  <2>1. RequestsOK' BY <1>1, <1>3, Going DEF ImportGroup, Found, Named, Points
  <2> QED BY <1>3, <2>1 DEF ImportGroup, TablesOK, state, bounds, Live
<1>4. CASE ImportFetch(t)
  <2>1. CASE known' = known \union {req[t].paper} /\ Goto(t, "import lookup")
    <3>1. RequestsOK' BY <2>1, Going DEF Found, Named, Points
    <3>2. req[t].paper \in Papers BY <1>1, <1>4 DEF ImportFetch, Named
    <3> QED BY <1>4, <2>1, <3>1, <3>2 DEF ImportFetch, TablesOK, state, bounds, Live
  <2>2. CASE Goto(t, "refused") /\ UNCHANGED known
    <3>1. RequestsOK' BY <2>2, Going DEF Found, Named, Points
    <3> QED BY <1>4, <2>2, <3>1 DEF ImportFetch, TablesOK, state, bounds, Live
  <2> QED BY <1>4, <2>1, <2>2 DEF ImportFetch
<1>5. CASE ImportLookup(t)
  <2>1. RequestsOK' BY <1>1, <1>5, Going DEF ImportLookup, Found, Named, Points
  <2> QED BY <1>5, <2>1 DEF ImportLookup, TablesOK, state, bounds, Live
<1>6. CASE ImportWrite(t)
  <2>1. RequestsOK' BY <1>1, <1>6, Going DEF ImportWrite, Found, Named, Points
  <2>2. req[t].paper \in known BY <1>1, <1>6 DEF ImportWrite, Found
  <2>3. members' \subseteq (Live \X known)'
    BY <1>6, <2>2 DEF ImportWrite, TablesOK, Live
  <2>4. saved' \subseteq known' /\ dismissed' \subseteq known'
    BY <1>6, <2>2 DEF ImportWrite, Undismissed, TablesOK
  <2> QED BY <1>6, <2>1, <2>3, <2>4 DEF ImportWrite, TablesOK, bounds
<1> QED BY <1>2, <1>3, <1>4, <1>5, <1>6 DEF ImportStep
LEMMA TypeDelete ==
  ASSUME TypeInv, NEW t \in Requests, DeleteStep(t)
  PROVE  TypeInv'
<1> USE DEF TypeInv
<1>1. CASE DeleteForm(t)
  <2>1. PICK g \in Live : Begin(t, [NoRequest EXCEPT !.at = "delete get", !.picks = {g}])
    BY <1>1 DEF DeleteForm
  <2> DEFINE r == [NoRequest EXCEPT !.at = "delete get", !.picks = {g}]
  <2>2. r \in Request /\ Knows(r, known)
    BY DEF NoRequest, Request, Points, Knows, Found, Named, Live
  <2>3. UNCHANGED <<known, state, names, members, raced, changes>> BY <1>1 DEF DeleteForm
  <2> HIDE DEF r
  <2>4. RequestsOK' /\ begun' \in 0..MaxRequests BY <2>1, <2>2, <2>3, Beginning DEF r
  <2> QED BY <2>3, <2>4 DEF TablesOK, state, Live
<1>2. CASE DeleteGet(t)
  <2>1. RequestsOK' BY <1>2, Going DEF DeleteGet, Found, Named, Points
  <2> QED BY <1>2, <2>1 DEF DeleteGet, TablesOK, state, bounds, Live
<1>3. CASE DeleteWrite(t)
  <2>1. RequestsOK' BY <1>3, Going DEF DeleteWrite, Found, Named, Points
  <2>2. names' \in [Ids -> Names \union {NoName}]
    BY <1>3 DEF DeleteWrite, TablesOK
  <2>3. members' \subseteq (Live \X known)'
    BY <1>3 DEF DeleteWrite, TablesOK, Live
  <2> QED BY <1>3, <2>1, <2>2, <2>3 DEF DeleteWrite, TablesOK, state, bounds
<1> QED BY <1>1, <1>2, <1>3 DEF DeleteStep

\* The command's steps that leave the tables alone.
LEMMA TypeCommandReads ==
  ASSUME TypeInv, NEW t \in Requests,
         CommandFind(t) \/ CommandGet(t) \/ CommandCreated(t) \/ CommandSaved(t)
           \/ CommandGroup(t)
  PROVE  TypeInv'
<1> USE DEF TypeInv
<1>1. /\ req[t] \in Request /\ Knows(req[t], known) BY DEF RequestsOK
<1>2. UNCHANGED <<known, state, names, members, raced, bounds>>
  BY DEF CommandFind, CommandGet, CommandCreated, CommandSaved, CommandGroup
<1>3. TablesOK' BY <1>2 DEF TablesOK, state, bounds, Live
<1>4. CASE CommandFind(t)
  <2> DEFINE found == {g \in Live : names[g] = req[t].name}
             r == [req[t] EXCEPT !.picks = found,
                                 !.at = IF found = {} THEN "command create" ELSE "command get"]
  <2>1. req' = [req EXCEPT ![t] = r] BY <1>4 DEF CommandFind
  <2>2. found \subseteq Ids BY DEF Live
  <2> HIDE DEF found
  <2>3. r \in Request BY <1>1, <2>2 DEF Request, Points
  <2>4. Knows(r, known') BY <1>1, <1>2 DEF Knows, Found, Named, Request
  <2> HIDE DEF r
  <2> QED BY <1>2, <1>3, <2>1, <2>3, <2>4, OneRequest
<1>5. CASE CommandGet(t)
  BY <1>2, <1>3, <1>5, Going DEF CommandGet, Found, Named, Points
<1>6. CASE CommandCreated(t)
  BY <1>2, <1>3, <1>6, Going DEF CommandCreated, Found, Named, Points
<1>7. CASE CommandSaved(t)
  <2>1. req[t].paper \in known BY <1>1, <1>7 DEF CommandSaved, Knows, Found
  <2> QED BY <1>2, <1>3, <1>7, <2>1, Going DEF CommandSaved, Found, Named, Points
<1>8. CASE CommandGroup(t)
  <2>1. req[t].paper \in known BY <1>1, <1>8 DEF CommandGroup, Knows, Found
  <2> QED BY <1>2, <1>3, <1>8, <2>1, Going DEF CommandGroup, Found, Named, Points
<1> QED BY <1>4, <1>5, <1>6, <1>7, <1>8

LEMMA TypeCommand ==
  ASSUME TypeInv, NEW t \in Requests, CommandStep(t)
  PROVE  TypeInv'
<1> USE DEF TypeInv
<1>1. /\ req[t] \in Request /\ Knows(req[t], known) BY DEF RequestsOK
<1>2. CASE Command(t)
  <2>1. PICK n \in Names : Begin(t, [NoRequest EXCEPT !.at = "command find", !.name = n])
    BY <1>2 DEF Command
  <2> DEFINE r == [NoRequest EXCEPT !.at = "command find", !.name = n]
  <2>2. r \in Request /\ Knows(r, known)
    BY DEF NoRequest, Request, Points, Knows, Found, Named
  <2>3. UNCHANGED <<known, state, names, members, raced, changes>> BY <1>2 DEF Command
  <2> HIDE DEF r
  <2>4. RequestsOK' /\ begun' \in 0..MaxRequests BY <2>1, <2>2, <2>3, Beginning DEF r
  <2> QED BY <2>3, <2>4 DEF TablesOK, state, Live
<1>3. CASE CommandCreate(t)
  <2>1. UNCHANGED <<known, state, members, raced, bounds>> BY <1>3 DEF CommandCreate
  <2>2. CASE Goto(t, "aborted") /\ UNCHANGED names
    <3>1. RequestsOK' BY <2>1, <2>2, Going DEF Found, Named, Points
    <3> QED BY <2>1, <2>2, <3>1 DEF TablesOK, state, bounds, Live
  <2>3. ASSUME NEW g \in Ids, Insert(g, req[t].name),
               req' = [req EXCEPT ![t].at = "command created", ![t].picks = {g}]
        PROVE  TypeInv'
    <3> DEFINE r == [req[t] EXCEPT !.at = "command created", !.picks = {g}]
    <3>1. r \in Request /\ Knows(r, known')
      BY <1>1, <2>1 DEF Request, Points, Knows, Found, Named
    <3>2. req' = [req EXCEPT ![t] = r] BY <2>3
    <3> HIDE DEF r
    <3>3. RequestsOK' BY <2>1, <3>1, <3>2, OneRequest
    <3>4. req[t].name \in Names
      <4>1. g \notin Live
        <5>1. \A h \in Live : h < g BY <2>3 DEF Insert, IsNext
        <5>2. ~(g < g) BY DEF Ids
        <5> QED BY <5>1, <5>2
      <4>2. names[g] = NoName BY <4>1 DEF Live
      <4>3. req[t].name # NoName BY <2>3, <4>2 DEF Insert
      <4> QED BY <1>1, <4>3 DEF Request
    <3>5. names' \in [Ids -> Names \union {NoName}] /\ members \subseteq (Live \X known)'
      BY <2>1, <2>3, <3>4, NewName DEF Insert
    <3> QED BY <2>1, <3>3, <3>5 DEF TablesOK, state, bounds
  <2>4. req[t].at = "command create" BY <1>3 DEF CommandCreate
  <2> QED BY <1>3, <2>2, <2>3, <2>4 DEF CommandCreate<1>4. CASE CommandFetch(t)
  <2>1. UNCHANGED <<state, names, members, raced, bounds>> BY <1>4 DEF CommandFetch
  <2>2. CASE Goto(t, "command save") /\ UNCHANGED known
    <3>1. RequestsOK' BY <2>2, Going DEF Found, Named, Points
    <3> QED BY <2>1, <2>2, <3>1 DEF TablesOK, state, bounds, Live
  <2>3. ASSUME NEW p \in Papers, known' = known \union {p},
               req' = [req EXCEPT ![t].todo = @ \union {p}]
        PROVE  TypeInv'
    <3> DEFINE r == [req[t] EXCEPT !.todo = @ \union {p}]
    <3>1. req' = [req EXCEPT ![t] = r] BY <2>3
    <3>2. r \in Request /\ Knows(r, known') BY <1>1, <2>3 DEF Request, Knows
    <3> HIDE DEF r
    <3>3. RequestsOK' BY <2>3, <3>1, <3>2, OneRequest
    <3> QED BY <2>1, <2>3, <3>3 DEF TablesOK, state, bounds, Live
  <2> QED BY <1>4, <2>2, <2>3 DEF CommandFetch
<1>5. CASE CommandSave(t)
  <2>1. UNCHANGED <<known, read, names, members, raced, bounds>> BY <1>5 DEF CommandSave
  <2>2. CASE Goto(t, "done") /\ UNCHANGED <<saved, dismissed>>
    <3>1. RequestsOK' BY <2>1, <2>2, Going DEF Found, Named, Points
    <3> QED BY <2>1, <2>2, <3>1 DEF TablesOK, bounds, Live
  <2>3. ASSUME NEW p \in req[t].todo,
               saved' = saved \union {p}, dismissed' = dismissed \ {p},
               req' = [req EXCEPT ![t].at = "command saved", ![t].paper = p,
                                  ![t].todo = @ \ {p}, ![t].wrote = TRUE]
        PROVE  TypeInv'
    <3> DEFINE r == [req[t] EXCEPT !.at = "command saved", !.paper = p,
                                   !.todo = @ \ {p}, !.wrote = TRUE]
    <3>1. req' = [req EXCEPT ![t] = r] BY <2>3
    <3>2. p \in known /\ p \in Papers BY <1>1 DEF Knows, TablesOK
    <3>3. r \in Request /\ Knows(r, known')
      BY <1>1, <2>1, <3>2 DEF Request, Knows, Found, Named, Points
    <3> HIDE DEF r
    <3>4. RequestsOK' BY <2>1, <3>1, <3>3, OneRequest
    <3> QED BY <2>1, <2>3, <3>2, <3>4 DEF TablesOK, bounds, Live
  <2> QED BY <1>5, <2>2, <2>3 DEF CommandSave
<1>6. CASE CommandWrite(t)
  <2>1. RequestsOK' BY <1>6, Going DEF CommandWrite, Found, Named, Points
  <2>2. req[t].paper \in known BY <1>1, <1>6 DEF CommandWrite, Knows, Found
  <2>3. members' \subseteq (Live \X known)'
    BY <1>6, <2>2 DEF CommandWrite, TablesOK, Live
  <2> QED BY <1>6, <2>1, <2>3 DEF CommandWrite, TablesOK, state, bounds
<1> QED BY <1>2, <1>3, <1>4, <1>5, <1>6, TypeCommandReads DEF CommandStep

LEMMA TypeFeed ==
  ASSUME TypeInv, NEW t \in Requests, FeedStep(t)
  PROVE  TypeInv'
<1> USE DEF TypeInv
<1>1. /\ req[t] \in Request /\ Knows(req[t], known) BY DEF RequestsOK
<1>2. CASE FeedSaved(t)
  <2> DEFINE r == [NoRequest EXCEPT
                    !.at = IF saved = {} THEN "feed list" ELSE "feed profile",
                    !.settled = Interacted]
  <2>1. Begin(t, r) BY <1>2 DEF FeedSaved
  <2>2. Interacted \subseteq Papers BY DEF Interacted, TablesOK
  <2>3. r \in Request /\ Knows(r, known)
    BY <2>2 DEF NoRequest, Request, Points, Knows, Found, Named
  <2>4. UNCHANGED <<known, state, names, members, raced, changes>> BY <1>2 DEF FeedSaved
  <2> HIDE DEF r
  <2>5. RequestsOK' /\ begun' \in 0..MaxRequests BY <2>1, <2>3, <2>4, Beginning
  <2> QED BY <2>4, <2>5 DEF TablesOK, state, Live
<1>3. CASE FeedProfile(t)
  <2>1. RequestsOK' BY <1>3, Going DEF FeedProfile, Found, Named, Points
  <2> QED BY <1>3, <2>1 DEF FeedProfile, TablesOK, state, bounds, Live
<1>4. CASE FeedCandidates(t)
  <2>1. UNCHANGED <<known, state, names, members, raced, bounds>>
    BY <1>4 DEF FeedCandidates
  <2>2. PICK shown \in SUBSET (known \ Excluded) :
          req' = [req EXCEPT ![t].at = "feed show", ![t].shown = shown]
    BY <1>4 DEF FeedCandidates
  <2> DEFINE r == [req[t] EXCEPT !.at = "feed show", !.shown = shown]
  <2>3. req' = [req EXCEPT ![t] = r] BY <2>2
  <2>4. r \in Request /\ Knows(r, known')
    BY <1>1, <2>1 DEF Request, Points, Knows, Found, Named, TablesOK
  <2> HIDE DEF r
  <2>5. RequestsOK' BY <2>1, <2>3, <2>4, OneRequest
  <2> QED BY <2>1, <2>5 DEF TablesOK, state, bounds, Live
<1>5. CASE FeedShow(t)
  <2>1. RequestsOK' BY <1>5, Going DEF FeedShow, Found, Named, Points
  <2> QED BY <1>5, <2>1 DEF FeedShow, TablesOK, state, bounds, Live
<1>6. CASE FeedList(t)
  <2>1. UNCHANGED <<known, state, names, members, raced, bounds>> BY <1>6 DEF FeedList
  <2>2. PICK shown \in SUBSET Papers :
          req' = [req EXCEPT ![t].at = "done", ![t].shown = shown]
    BY <1>6 DEF FeedList
  <2> DEFINE r == [req[t] EXCEPT !.at = "done", !.shown = shown]
  <2>3. req' = [req EXCEPT ![t] = r] BY <2>2
  <2>4. r \in Request /\ Knows(r, known')
    BY <1>1, <2>1 DEF Request, Points, Knows, Found, Named, TablesOK
  <2> HIDE DEF r
  <2>5. RequestsOK' BY <2>1, <2>3, <2>4, OneRequest
  <2> QED BY <2>1, <2>5 DEF TablesOK, state, bounds, Live
<1> QED BY <1>2, <1>3, <1>4, <1>5, <1>6 DEF FeedStep

LEMMA TypeFinish ==
  ASSUME TypeInv, NEW t \in Requests, Finish(t)
  PROVE  TypeInv'
<1> USE DEF TypeInv
<1>1. NoRequest \in Request /\ Knows(NoRequest, known')
  BY DEF NoRequest, Request, Points, Knows, Found, Named
<1>2. UNCHANGED <<known, state, names, members, raced, bounds>> BY DEF Finish
<1>3. RequestsOK' BY <1>1, <1>2, OneRequest DEF Finish
<1> QED BY <1>2, <1>3 DEF TablesOK, state, bounds, Live

LEMMA TypeStep == TypeInv /\ [Next]_vars => TypeInv'
<1> SUFFICES ASSUME TypeInv, [Next]_vars PROVE TypeInv' OBVIOUS
<1>1. CASE UNCHANGED vars
  BY <1>1 DEF TypeInv, TablesOK, RequestsOK, Knows, Live, vars, state, bounds
<1>2. ASSUME NEW t \in Requests,
             AssignStep(t) \/ ImportStep(t) \/ DeleteStep(t) \/ CommandStep(t)
               \/ FeedStep(t) \/ Finish(t)
      PROVE  TypeInv'
  BY <1>2, TypeAssign, TypeImport, TypeDelete, TypeCommand, TypeFeed, TypeFinish
<1> QED BY <1>1, <1>2, TypeClick, TypeGroup DEF Next

LEMMA Types == Spec => []TypeInv
BY TypeInit, TypeStep, PTL DEF Spec

\* The types of Library, for any number of requests, papers and groups: no write
\* leaves a membership of a group or a paper that is not there.
THEOREM TypeCorrect == Spec => []TypeOK
<1>1. TypeInv => TypeOK BY DEF TypeInv, TablesOK, RequestsOK, TypeOK, Request
<1> QED BY <1>1, Types, PTL
-----------------------------------------------------------------------------
(* Saved or dismissed.                                                     *)

\* A paper is never saved and dismissed at once: whoever saves it takes the
\* dismissal back in the same transaction, and the other way round.
THEOREM SavedOrDismissed == Spec => []SavedXorDismissed
<1> USE DEF SavedXorDismissed
<1>1. Init => SavedXorDismissed BY DEF Init
<1>2. SavedXorDismissed /\ [Next]_vars => SavedXorDismissed'
  <2> SUFFICES ASSUME SavedXorDismissed, [Next]_vars PROVE SavedXorDismissed' OBVIOUS
  <2>1. CASE UNCHANGED vars BY <2>1 DEF vars, state
  <2>2. ASSUME NEW p \in Papers, PaperClick(p) PROVE SavedXorDismissed'
    BY <2>2 DEF PaperClick, Save, Unsave, SetRead, Dismiss, Undismiss
  <2>3. ASSUME NEW n \in Names, GroupClick(n) PROVE SavedXorDismissed'
    BY <2>3 DEF GroupClick, CreateGroup, RenameGroup, state
  <2>4. ASSUME NEW t \in Requests, AssignStep(t) \/ DeleteStep(t) \/ FeedStep(t) \/ Finish(t)
        PROVE  SavedXorDismissed'
    BY <2>4 DEF AssignStep, AssignForm, AssignSaved, AssignGroups, AssignWrite,
                DeleteStep, DeleteForm, DeleteGet, DeleteWrite,
                FeedStep, FeedSaved, FeedProfile, FeedCandidates, FeedShow, FeedList, Finish,
                state
  <2>5. ASSUME NEW t \in Requests, ImportStep(t) PROVE SavedXorDismissed'
    BY <2>5 DEF ImportStep, ImportForm, ImportGroup, ImportFetch, ImportLookup, ImportWrite,
                Undismissed, state
  <2>6. ASSUME NEW t \in Requests, CommandStep(t) PROVE SavedXorDismissed'
    BY <2>6 DEF CommandStep, Command, CommandFind, CommandGet, CommandCreate, CommandCreated,
                CommandFetch, CommandSave, CommandSaved, CommandGroup, CommandWrite, state
  <2> QED BY <2>1, <2>2, <2>3, <2>4, <2>5, <2>6 DEF Next
<1> QED BY <1>1, <1>2, PTL DEF Spec

-----------------------------------------------------------------------------
(* Memberships, refusals and recommendations, by what each request may      *)
(* count on: kept are the papers that are saved or were unsaved behind      *)
(* somebody's back, dealt those that the user has dealt with.               *)

Passes == {"assign groups", "assign write", "command group", "command write"}
Writes == {"done", "aborted", "command save", "command saved", "command group", "command write"}

CountsOn(r, kept, dealt) ==
  /\ r.at \in Passes => r.paper \in kept
  /\ r.wrote => r.at \in Writes
  /\ r.settled \subseteq dealt
  /\ r.shown \intersect r.settled = {}

Kept == saved \union raced

LibraryInv ==
  /\ GroupedAreSaved
  /\ \A t \in Requests : CountsOn(req[t], Kept, Interacted)

LEMMA LibraryInit == Init => LibraryInv
<1> SUFFICES ASSUME Init PROVE LibraryInv OBVIOUS
<1>1. CountsOn(NoRequest, Kept, Interacted) BY DEF CountsOn, NoRequest, Passes, Writes
<1>2. GroupedAreSaved BY DEF Init, GroupedAreSaved
<1> QED BY <1>1, <1>2 DEF Init, LibraryInv

\* One request goes on, and nobody unsaves anything.
LEMMA OneCounts ==
  ASSUME TypeInv, LibraryInv, NEW t \in Requests, NEW r,
         req' = [req EXCEPT ![t] = r], CountsOn(r, Kept', Interacted'),
         Kept \subseteq Kept', Interacted \subseteq Interacted',
         \A m \in members' : m[2] \in Kept'
  PROVE  LibraryInv'
<1>1. ASSUME NEW q \in Requests PROVE CountsOn(req'[q], Kept', Interacted')
  <2>1. CASE q = t BY <2>1 DEF TypeInv, RequestsOK
  <2>2. CASE q # t
    <3>1. req'[q] = req[q] BY <2>2 DEF TypeInv, RequestsOK
    <3>2. CountsOn(req[q], Kept, Interacted) BY DEF LibraryInv
    <3> QED BY <3>1, <3>2 DEF CountsOn
  <2> QED BY <2>1, <2>2
<1>2. GroupedAreSaved' BY DEF GroupedAreSaved, Kept
<1> QED BY <1>1, <1>2 DEF LibraryInv

LEMMA CountClick ==
  ASSUME TypeInv, LibraryInv, NEW p \in Papers, PaperClick(p)
  PROVE  LibraryInv'
<1>1. Notice BY DEF PaperClick, Save, Unsave, SetRead, Dismiss, Undismiss
<1>2. ASSUME NEW t \in Requests, req[t].at \in Passes PROVE req[t].paper \in Kept'
  <2>1. req[t].paper \in Kept BY <1>2 DEF LibraryInv, CountsOn
  <2>2. CASE Save(p) \/ SetRead(p) \/ Undismiss(p)
    BY <2>1, <2>2 DEF Save, SetRead, Undismiss, Kept
  <2>3. CASE Unsave(p) \/ Dismiss(p)
    <3>1. saved' = saved \ {p} /\ Leaves(p) BY <2>3 DEF Unsave, Dismiss
    <3>2. Passed(t) BY <1>2 DEF Passed, Passes
    <3>3. req[t].paper = p => p \in raced' BY <3>1, <3>2 DEF Leaves
    <3>4. raced \ {p} \subseteq raced' BY <3>1 DEF Leaves
    <3> QED BY <2>1, <3>1, <3>3, <3>4 DEF Kept
  <2> QED BY <2>2, <2>3 DEF PaperClick
<1>3. ASSUME NEW t \in Requests PROVE CountsOn(req'[t], Kept', Interacted')
  <2>1. req'[t] = [req[t] EXCEPT !.settled = @ \intersect Interacted'] BY <1>1 DEF Notice
  <2>2. req[t] \in Request BY DEF TypeInv, RequestsOK
  <2>3. CountsOn(req[t], Kept, Interacted) BY DEF LibraryInv
  <2> QED BY <1>2, <2>1, <2>2, <2>3 DEF CountsOn, Request
<1>4. \A m \in members' : m[2] \in Kept'
  <2>1. \A m \in members : m[2] \in Kept BY DEF LibraryInv, GroupedAreSaved, Kept
  <2>2. CASE Save(p) \/ SetRead(p) \/ Undismiss(p)
    BY <2>1, <2>2 DEF Save, SetRead, Undismiss, Kept
  <2>3. CASE Unsave(p) \/ Dismiss(p)
    <3>1. saved' = saved \ {p} /\ Leaves(p) BY <2>3 DEF Unsave, Dismiss
    <3>2. raced \ {p} \subseteq raced' BY <3>1 DEF Leaves
    <3> QED BY <2>1, <3>1, <3>2 DEF Kept, Leaves, Groupless
  <2> QED BY <2>2, <2>3 DEF PaperClick
<1> QED BY <1>3, <1>4 DEF LibraryInv, GroupedAreSaved, Kept
\* A step that leaves the tables alone but may begin, end or move on a request.
LEMMA CountQuiet ==
  ASSUME TypeInv, LibraryInv, NEW t \in Requests, NEW r,
         req' = [req EXCEPT ![t] = r], CountsOn(r, Kept, Interacted),
         UNCHANGED <<saved, dismissed, read, members, raced>>
  PROVE  LibraryInv'
<1>1. Kept' = Kept /\ Interacted' = Interacted BY DEF Kept, Interacted
<1>2. \A m \in members' : m[2] \in Kept' BY <1>1 DEF LibraryInv, GroupedAreSaved, Kept
<1> HIDE DEF Kept, Interacted
<1> QED BY <1>1, <1>2, OneCounts

\* It goes to a point where it need not have found anything.
LEMMA CountGoto ==
  ASSUME TypeInv, LibraryInv, NEW t \in Requests, NEW point, Goto(t, point),
         point \in Passes => req[t].paper \in Kept,
         req[t].at \in Writes => point \in Writes,
         UNCHANGED <<saved, dismissed, read, members, raced>>
  PROVE  LibraryInv'
<1> DEFINE r == [req[t] EXCEPT !.at = point]
<1>1. req' = [req EXCEPT ![t] = r] BY DEF Goto
<1>2. req[t] \in Request /\ CountsOn(req[t], Kept, Interacted)
  BY DEF TypeInv, RequestsOK, LibraryInv
<1>3. CountsOn(r, Kept, Interacted) BY <1>2 DEF CountsOn, Request
<1> HIDE DEF r
<1> QED BY <1>1, <1>3, CountQuiet

LEMMA CountBegin ==
  ASSUME TypeInv, LibraryInv, NEW t \in Requests, NEW r, Begin(t, r),
         r.at \notin Passes, r.wrote = FALSE, r.settled \subseteq Interacted, r.shown = {},
         UNCHANGED <<saved, dismissed, read, members, raced>>
  PROVE  LibraryInv'
<1>1. CountsOn(r, Kept, Interacted) BY DEF CountsOn
<1> QED BY <1>1, CountQuiet DEF Begin

\* It commits a membership of its paper, or none, with what else it writes.
LEMMA CountCommit ==
  ASSUME TypeInv, LibraryInv, NEW t \in Requests, NEW point \in {"done", "command save"},
         Commit(t, point), Kept \subseteq Kept', Interacted \subseteq Interacted',
         \A m \in members' : m \in members \/ m[2] \in Kept'
  PROVE  LibraryInv'
<1> DEFINE r == [req[t] EXCEPT !.at = point, !.wrote = TRUE]
<1>1. req' = [req EXCEPT ![t] = r] BY DEF Commit
<1>2. req[t] \in Request /\ CountsOn(req[t], Kept, Interacted)
  BY DEF TypeInv, RequestsOK, LibraryInv
<1>3. CountsOn(r, Kept', Interacted') BY <1>2 DEF CountsOn, Request, Passes, Writes
<1>4. \A m \in members' : m[2] \in Kept' BY DEF LibraryInv, GroupedAreSaved, Kept
<1> HIDE DEF r
<1> QED BY <1>1, <1>3, <1>4, OneCounts

LEMMA CountAssign ==
  ASSUME TypeInv, LibraryInv, NEW t \in Requests, AssignStep(t)
  PROVE  LibraryInv'
<1>1. CountsOn(req[t], Kept, Interacted) BY DEF LibraryInv
<1>2. CASE AssignForm(t)
  <2>1. PICK p \in saved, picks \in SUBSET Live :
          Begin(t, [NoRequest EXCEPT !.at = "assign saved", !.paper = p, !.picks = picks])
    BY <1>2 DEF AssignForm
  <2> QED BY <1>2, <2>1, CountBegin DEF AssignForm, NoRequest, Passes, state
<1>3. CASE AssignSaved(t)
  BY <1>3, CountGoto DEF AssignSaved, Passes, Writes, Kept, state
<1>4. CASE AssignGroups(t)
  <2>1. req[t].paper \in Kept BY <1>1, <1>4 DEF AssignGroups, CountsOn, Passes
  <2> QED BY <1>4, <2>1, CountGoto DEF AssignGroups, Passes, Writes, state
<1>5. CASE AssignWrite(t)
  <2>1. req[t].paper \in Kept BY <1>1, <1>5 DEF AssignWrite, CountsOn, Passes
  <2>2. CASE Goto(t, "refused") /\ UNCHANGED members
    BY <1>5, <2>2, CountGoto DEF AssignWrite, Passes, Writes, state
  <2>3. CASE /\ Commit(t, "done")
             /\ members' = Groupless(req[t].paper) \union (req[t].picks \X {req[t].paper})
    <3>1. Kept' = Kept /\ Interacted' = Interacted
      BY <1>5 DEF AssignWrite, state, Kept, Interacted
    <3>2. \A m \in members' : m \in members \/ m[2] \in Kept'
      BY <2>1, <2>3, <3>1 DEF Groupless
    <3> QED BY <2>3, <3>1, <3>2, CountCommit
  <2> QED BY <1>5, <2>2, <2>3 DEF AssignWrite
<1> QED BY <1>2, <1>3, <1>4, <1>5 DEF AssignStep
LEMMA CountImport ==
  ASSUME TypeInv, LibraryInv, NEW t \in Requests, ImportStep(t)
  PROVE  LibraryInv'
<1>1. CASE ImportForm(t)
  <2>1. PICK p \in Papers, picks \in {{}} \union {{g} : g \in Live} :
          Begin(t, [NoRequest EXCEPT !.at = "import group", !.paper = p, !.picks = picks])
    BY <1>1 DEF ImportForm
  <2> QED BY <1>1, <2>1, CountBegin DEF ImportForm, NoRequest, Passes, state
<1>2. CASE ImportGroup(t)
  BY <1>2, CountGoto DEF ImportGroup, Passes, Writes, state
<1>3. CASE ImportFetch(t)
  BY <1>3, CountGoto DEF ImportFetch, Passes, Writes, state
<1>4. CASE ImportLookup(t)
  BY <1>4, CountGoto DEF ImportLookup, Passes, Writes, state
<1>5. CASE ImportWrite(t)
  <2>1. CASE Goto(t, "refused") /\ UNCHANGED <<saved, dismissed, members>>
    BY <1>5, <2>1, CountGoto DEF ImportWrite, Passes, Writes
  <2>2. CASE /\ Commit(t, "done")
             /\ saved' = saved \union {req[t].paper}
             /\ dismissed' = Undismissed(req[t].paper)
             /\ members' = members \union (req[t].picks \X {req[t].paper})
    <3>1. Kept \subseteq Kept' /\ req[t].paper \in Kept'
      BY <1>5, <2>2 DEF ImportWrite, Kept
    <3>2. Interacted \subseteq Interacted'
      BY <1>5, <2>2 DEF ImportWrite, Interacted, Undismissed
    <3>3. \A m \in members' : m \in members \/ m[2] \in Kept' BY <2>2, <3>1
    <3> QED BY <2>2, <3>1, <3>2, <3>3, CountCommit
  <2> QED BY <1>5, <2>1, <2>2 DEF ImportWrite
<1> QED BY <1>1, <1>2, <1>3, <1>4, <1>5 DEF ImportStep

LEMMA CountDelete ==
  ASSUME TypeInv, LibraryInv, NEW t \in Requests, DeleteStep(t)
  PROVE  LibraryInv'
<1>1. CASE DeleteForm(t)
  <2>1. PICK g \in Live : Begin(t, [NoRequest EXCEPT !.at = "delete get", !.picks = {g}])
    BY <1>1 DEF DeleteForm
  <2> QED BY <1>1, <2>1, CountBegin DEF DeleteForm, NoRequest, Passes, state
<1>2. CASE DeleteGet(t)
  BY <1>2, CountGoto DEF DeleteGet, Passes, Writes, state
<1>3. CASE DeleteWrite(t)
  <2>1. Kept' = Kept /\ Interacted' = Interacted
    BY <1>3 DEF DeleteWrite, state, Kept, Interacted
  <2>2. \A m \in members' : m \in members BY <1>3 DEF DeleteWrite
  <2>3. Commit(t, "done") BY <1>3 DEF DeleteWrite
  <2> QED BY <2>1, <2>2, <2>3, CountCommit
<1> QED BY <1>1, <1>2, <1>3 DEF DeleteStep

LEMMA CountCommand ==
  ASSUME TypeInv, LibraryInv, NEW t \in Requests, CommandStep(t)
  PROVE  LibraryInv'
<1>1. req[t] \in Request /\ CountsOn(req[t], Kept, Interacted)
  BY DEF TypeInv, RequestsOK, LibraryInv
<1>2. CASE Command(t)
  <2>1. PICK n \in Names : Begin(t, [NoRequest EXCEPT !.at = "command find", !.name = n])
    BY <1>2 DEF Command
  <2> QED BY <1>2, <2>1, CountBegin DEF Command, NoRequest, Passes, state
<1>3. CASE CommandFind(t)
  <2> DEFINE found == {g \in Live : names[g] = req[t].name}
             r == [req[t] EXCEPT !.picks = found,
                                 !.at = IF found = {} THEN "command create" ELSE "command get"]
  <2>1. req' = [req EXCEPT ![t] = r] BY <1>3 DEF CommandFind
  <2>2. req[t].at = "command find" BY <1>3 DEF CommandFind
  <2> HIDE DEF found
  <2>3. CountsOn(r, Kept, Interacted) BY <1>1, <2>2 DEF CountsOn, Request, Passes, Writes
  <2> HIDE DEF r
  <2> QED BY <1>3, <2>1, <2>3, CountQuiet DEF CommandFind, state
<1>4. CASE CommandGet(t)
  BY <1>4, CountGoto DEF CommandGet, Passes, Writes, state
<1>5. CASE CommandCreate(t)
  <2>1. CASE Goto(t, "aborted")
    BY <1>5, <2>1, CountGoto DEF CommandCreate, Passes, Writes, state
  <2>2. ASSUME NEW g \in Ids,
               req' = [req EXCEPT ![t].at = "command created", ![t].picks = {g}]
        PROVE  LibraryInv'
    <3> DEFINE r == [req[t] EXCEPT !.at = "command created", !.picks = {g}]
    <3>1. req' = [req EXCEPT ![t] = r] BY <2>2
    <3>2. req[t].at = "command create" BY <1>5 DEF CommandCreate
    <3>3. CountsOn(r, Kept, Interacted) BY <1>1, <3>2 DEF CountsOn, Request, Passes, Writes
    <3> HIDE DEF r
    <3> QED BY <1>5, <3>1, <3>3, CountQuiet DEF CommandCreate, state
  <2> QED BY <1>5, <2>1, <2>2 DEF CommandCreate
<1>6. CASE CommandCreated(t)
  BY <1>6, CountGoto DEF CommandCreated, Passes, Writes, state
<1>7. CASE CommandFetch(t)
  <2>1. CASE Goto(t, "command save")
    BY <1>7, <2>1, CountGoto DEF CommandFetch, Passes, Writes, state
  <2>2. ASSUME NEW p \in Papers, req' = [req EXCEPT ![t].todo = @ \union {p}]
        PROVE  LibraryInv'
    <3> DEFINE r == [req[t] EXCEPT !.todo = @ \union {p}]
    <3>1. req' = [req EXCEPT ![t] = r] BY <2>2
    <3>2. CountsOn(r, Kept, Interacted) BY <1>1 DEF CountsOn, Request
    <3> HIDE DEF r
    <3> QED BY <1>7, <3>1, <3>2, CountQuiet DEF CommandFetch, state
  <2> QED BY <1>7, <2>1, <2>2 DEF CommandFetch
<1>8. CASE CommandSave(t)
  <2>1. CASE Goto(t, "done") /\ UNCHANGED <<saved, dismissed>>
    BY <1>8, <2>1, CountGoto DEF CommandSave, Passes, Writes
  <2>2. ASSUME NEW p, saved' = saved \union {p}, dismissed' = dismissed \ {p},
               req' = [req EXCEPT ![t].at = "command saved", ![t].paper = p,
                                  ![t].todo = @ \ {p}, ![t].wrote = TRUE]
        PROVE  LibraryInv'
    <3> DEFINE r == [req[t] EXCEPT !.at = "command saved", !.paper = p,
                                   !.todo = @ \ {p}, !.wrote = TRUE]
    <3>1. req' = [req EXCEPT ![t] = r] BY <2>2
    <3>2. Kept \subseteq Kept' BY <1>8, <2>2 DEF CommandSave, Kept
    <3>3. Interacted \subseteq Interacted' BY <1>8, <2>2 DEF CommandSave, Interacted
    <3>4. CountsOn(r, Kept', Interacted')
      BY <1>1, <3>3 DEF CountsOn, Request, Passes, Writes
    <3>5. \A m \in members' : m[2] \in Kept'
      BY <1>8, <3>2 DEF CommandSave, LibraryInv, GroupedAreSaved, Kept
    <3> HIDE DEF r
    <3> QED BY <3>1, <3>2, <3>3, <3>4, <3>5, OneCounts
  <2> QED BY <1>8, <2>1, <2>2 DEF CommandSave
<1>9. CASE CommandSaved(t)
  BY <1>9, CountGoto DEF CommandSaved, Passes, Writes, Kept, state
<1>10. CASE CommandGroup(t)
  <2>1. req[t].paper \in Kept BY <1>1, <1>10 DEF CommandGroup, CountsOn, Passes
  <2> QED BY <1>10, <2>1, CountGoto DEF CommandGroup, Passes, Writes, state
<1>11. CASE CommandWrite(t)
  <2>1. req[t].paper \in Kept BY <1>1, <1>11 DEF CommandWrite, CountsOn, Passes
  <2>2. CASE Goto(t, "aborted") /\ UNCHANGED members
    BY <1>11, <2>2, CountGoto DEF CommandWrite, Passes, Writes, state
  <2>3. CASE Commit(t, "command save") /\ members' = members \union (req[t].picks \X {req[t].paper})
    <3>1. Kept' = Kept /\ Interacted' = Interacted
      BY <1>11 DEF CommandWrite, state, Kept, Interacted
    <3>2. \A m \in members' : m \in members \/ m[2] \in Kept' BY <2>1, <2>3, <3>1
    <3> QED BY <2>3, <3>1, <3>2, CountCommit
  <2> QED BY <1>11, <2>2, <2>3 DEF CommandWrite
<1> QED BY <1>2, <1>3, <1>4, <1>5, <1>6, <1>7, <1>8, <1>9, <1>10, <1>11 DEF CommandStep

LEMMA CountFeed ==
  ASSUME TypeInv, LibraryInv, NEW t \in Requests, FeedStep(t)
  PROVE  LibraryInv'
<1>1. req[t] \in Request /\ CountsOn(req[t], Kept, Interacted)
  BY DEF TypeInv, RequestsOK, LibraryInv
<1>2. CASE FeedSaved(t)
  BY <1>2, CountBegin DEF FeedSaved, NoRequest, Passes, state
<1>3. CASE FeedProfile(t)
  BY <1>3, CountGoto DEF FeedProfile, Passes, Writes, state
<1>4. CASE FeedCandidates(t)
  <2>1. PICK shown \in SUBSET (known \ Excluded) :
          req' = [req EXCEPT ![t].at = "feed show", ![t].shown = shown]
    BY <1>4 DEF FeedCandidates
  <2> DEFINE r == [req[t] EXCEPT !.at = "feed show", !.shown = shown]
  <2>2. req' = [req EXCEPT ![t] = r] BY <2>1
  <2>3. shown \intersect req[t].settled = {}
    BY <1>1 DEF Excluded, Interacted, CountsOn
  <2>4. req[t].at = "feed candidates" BY <1>4 DEF FeedCandidates
  <2>5. CountsOn(r, Kept, Interacted) BY <1>1, <2>3, <2>4 DEF CountsOn, Request, Passes, Writes
  <2> HIDE DEF r
  <2> QED BY <1>4, <2>2, <2>5, CountQuiet DEF FeedCandidates, state
<1>5. CASE FeedShow(t)
  BY <1>5, CountGoto DEF FeedShow, Passes, Writes, state
<1>6. CASE FeedList(t)
  <2>1. PICK shown \in SUBSET Papers :
          /\ Listed(shown)
          /\ req' = [req EXCEPT ![t].at = "done", ![t].shown = shown]
    BY <1>6 DEF FeedList
  <2> DEFINE r == [req[t] EXCEPT !.at = "done", !.shown = shown]
  <2>2. req' = [req EXCEPT ![t] = r] BY <2>1
  <2>3. shown \intersect req[t].settled = {}
    BY <1>1, <2>1 DEF Listed, Excluded, Interacted, CountsOn
  <2>4. req[t].at = "feed list" BY <1>6 DEF FeedList
  <2>5. CountsOn(r, Kept, Interacted) BY <1>1, <2>3, <2>4 DEF CountsOn, Request, Passes, Writes
  <2> HIDE DEF r
  <2> QED BY <1>6, <2>2, <2>5, CountQuiet DEF FeedList, state
<1> QED BY <1>2, <1>3, <1>4, <1>5, <1>6 DEF FeedStep

LEMMA CountFinish ==
  ASSUME TypeInv, LibraryInv, NEW t \in Requests, Finish(t)
  PROVE  LibraryInv'
<1>1. CountsOn(NoRequest, Kept, Interacted) BY DEF CountsOn, NoRequest, Passes, Writes
<1> QED BY <1>1, CountQuiet DEF Finish, state

LEMMA LibraryStep == TypeInv /\ LibraryInv /\ [Next]_vars => LibraryInv'
<1> SUFFICES ASSUME TypeInv, LibraryInv, [Next]_vars PROVE LibraryInv' OBVIOUS
<1>1. CASE UNCHANGED vars
  BY <1>1 DEF LibraryInv, GroupedAreSaved, CountsOn, Kept, Interacted, vars, state
<1>2. ASSUME NEW n \in Names, GroupClick(n) PROVE LibraryInv'
  <2>1. UNCHANGED <<saved, dismissed, read, members, req, raced>>
    BY <1>2 DEF GroupClick, CreateGroup, RenameGroup, state
  <2> QED BY <2>1 DEF LibraryInv, GroupedAreSaved, CountsOn, Kept, Interacted
<1>3. ASSUME NEW t \in Requests,
             AssignStep(t) \/ ImportStep(t) \/ DeleteStep(t) \/ CommandStep(t)
               \/ FeedStep(t) \/ Finish(t)
      PROVE  LibraryInv'
  BY <1>3, CountAssign, CountImport, CountDelete, CountCommand, CountFeed, CountFinish
<1> QED BY <1>1, <1>2, <1>3, CountClick DEF Next

LEMMA Counts == Spec => []LibraryInv
BY LibraryInit, LibraryStep, Types, PTL DEF Spec

\* Groups hold saved papers, and papers that were unsaved while a request was
\* about to put them there: the lookup and the write of each are one request's.
THEOREM GroupsHoldSavedPapers == Spec => []GroupedAreSaved
<1>1. LibraryInv => GroupedAreSaved BY DEF LibraryInv
<1> QED BY <1>1, Counts, PTL

\* A refused web request has written nothing, whatever was deleted meanwhile.
THEOREM RefusalsChangeNothing == Spec => []RefusedChangesNothing
<1>1. LibraryInv => RefusedChangesNothing
  BY DEF LibraryInv, CountsOn, Writes, RefusedChangesNothing
<1> QED BY <1>1, Counts, PTL

\* A feed shows no paper that was dealt with before it was asked for and ever
\* since, whatever the user clicks between its reads.
THEOREM DealtPapersStayOut == Spec => []SettledIsNotShown
<1>1. LibraryInv => SettledIsNotShown BY DEF LibraryInv, CountsOn, SettledIsNotShown
<1> QED BY <1>1, Counts, PTL
=============================================================================
