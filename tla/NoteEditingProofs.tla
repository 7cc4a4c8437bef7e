------------------------- MODULE NoteEditingProofs -------------------------
(***************************************************************************)
(* Proofs about NoteEditing, for every set of pages and browsers: the      *)
(* types, that what is acknowledged is stored, that no save is blind, that *)
(* what a page calls saved is, and that the server's statements implement  *)
(* a register with compare-and-set.                                        *)
(***************************************************************************)
EXTENDS NoteEditing, SequenceTheorems, TLAPS

USE NoteAssumption

-----------------------------------------------------------------------------
(* Types.                                                                  *)

Fetches ==
  [for : {"open", "select", "retry"}, phase : {"sent"}, text : Texts, known : Nat]
  \union [for : {"open", "select", "retry"}, phase : {"answered"}, text : Texts, known : Nat,
          revision : Nat, body : Texts]
  \union [for : {"open", "select"}, phase : {"shown"}, text : Texts, known : Nat]

StoreOK ==
  /\ versions \in Seq(Texts) /\ blind \in BOOLEAN
  /\ drafts \in [Browsers -> Texts \union {NoDraft}]

ScreenOK ==
  /\ open \in [Pages -> BOOLEAN] /\ text \in [Pages -> Texts]
  /\ status \in [Pages -> {"empty", "unsaved", "recovered", "saving", "loading", "saved",
                           "conflict", "error"}]
  /\ retry \in [Pages -> {"hidden", "save", "reload"}]
  /\ timer \in [Pages -> BOOLEAN]

KnownOK ==
  /\ known \in [Pages -> Nat] /\ seen \in [Pages -> SUBSET Nat]
  /\ \A p \in Pages : known[p] <= Revision /\ \A v \in seen[p] : v <= Revision

FetchOK ==
  /\ fetch \in [Pages -> Fetches \union {NoFetch}]
  /\ \A p \in Pages : fetch[p] # NoFetch =>
       /\ fetch[p].known <= Revision
       /\ fetch[p].phase = "answered" => fetch[p].revision <= Revision

FlightOK ==
  /\ flight \in [Pages -> Seq(Requests)]
  /\ \A p \in Pages : Len(flight[p]) <= MaxFlight
  /\ \A p \in Pages : \A i \in DOMAIN flight[p] : flight[p][i].revision <= Revision

BoundsOK ==
  /\ typed \in 0..MaxTyped /\ faults \in 0..MaxFaults /\ opens \in 0..MaxOpens
  /\ clicks \in 0..MaxClicks

TypeInv == StoreOK /\ ScreenOK /\ KnownOK /\ FetchOK /\ FlightOK /\ BoundsOK

LEMMA FetchTypes ==
  ASSUME FetchOK, NEW p \in Pages
  PROVE  /\ fetch[p].for \in {"none", "open", "select", "retry"}
         /\ fetch[p] = NoFetch <=> fetch[p].for = "none"
         /\ fetch[p] # NoFetch =>
              /\ fetch[p] \in Fetches /\ fetch[p].text \in Texts /\ fetch[p].known \in Nat
              /\ fetch[p].phase \in {"sent", "answered", "shown"}
              /\ fetch[p].phase = "answered" => fetch[p].revision \in Nat /\ fetch[p].body \in Texts
              /\ fetch[p].phase = "shown" => fetch[p].for # "retry"
<1>1. CASE fetch[p] = NoFetch BY <1>1 DEF NoFetch
<1>2. CASE fetch[p] \in Fetches
  <2>1. fetch[p].for \in {"open", "select", "retry"} BY <1>2 DEF Fetches
  <2>2. fetch[p] # NoFetch BY <2>1 DEF NoFetch
  <2> QED BY <1>2, <2>1, <2>2 DEF Fetches
<1> QED BY <1>1, <1>2 DEF FetchOK

LEMMA RevisionTypes ==
  ASSUME StoreOK
  PROVE  Revision \in Nat /\ Body \in Texts
<1>1. Revision \in Nat BY DEF StoreOK, Revision
<1>2. Revision # 0 => Last(versions) \in Texts BY <1>1 DEF StoreOK, Revision, Last
<1> QED BY <1>1, <1>2 DEF Body, Blank, Texts

LEMMA RequestTypes ==
  ASSUME FlightOK, NEW p \in Pages, NEW i \in DOMAIN flight[p]
  PROVE  /\ flight[p][i] \in Requests /\ flight[p][i].text \in Texts
         /\ flight[p][i].base \in Nat /\ flight[p][i].seen \in SUBSET Nat
         /\ flight[p][i].revision \in Nat /\ flight[p][i].revision <= Revision
         /\ flight[p][i].live \in BOOLEAN
         /\ flight[p][i].phase \in {"sent", "checked", "written", "replied"}
<1>1. flight[p] \in Seq(Requests) BY DEF FlightOK
<1>2. flight[p][i] \in Requests BY <1>1
<1> QED BY <1>2 DEF FlightOK, Requests

LEMMA TypeParts == TypeInv => TypeOK
<1> SUFFICES ASSUME TypeInv PROVE TypeOK OBVIOUS
<1>1. \A p \in Pages : known[p] \in 0..Revision /\ seen[p] \subseteq 0..Revision
  BY RevisionTypes DEF TypeInv, KnownOK
<1>2. \A p \in Pages : fetch[p].for \in {"none", "open", "select", "retry"}
  BY FetchTypes DEF TypeInv
<1>3. \A p \in Pages : Len(flight[p]) <= MaxFlight /\
        \A i \in DOMAIN flight[p] :
          flight[p][i] \in Requests /\ flight[p][i].revision <= Revision
  BY DEF TypeInv, FlightOK
<1> QED BY <1>1, <1>2, <1>3 DEF TypeInv, TypeOK, StoreOK, ScreenOK, BoundsOK

-----------------------------------------------------------------------------
(* How the requests in flight change.                                      *)

LEMMA Advanced ==
  ASSUME FlightOK, NEW p \in Pages, NEW i \in DOMAIN flight[p], NEW r \in Requests,
         Advance(p, i, r)
  PROVE  /\ flight' \in [Pages -> Seq(Requests)]
         /\ \A q \in Pages : /\ Len(flight'[q]) = Len(flight[q])
                             /\ DOMAIN flight'[q] = DOMAIN flight[q]
         /\ \A q \in Pages : \A j \in DOMAIN flight[q] :
              flight'[q][j] = IF q = p /\ j = i THEN r ELSE flight[q][j]
<1>1. flight[p] \in Seq(Requests) BY DEF FlightOK
<1> DEFINE s == [flight[p] EXCEPT ![i] = r]
<1>2. flight' = [flight EXCEPT ![p] = s] BY DEF Advance
<1>3. /\ s \in Seq(Requests) /\ Len(s) = Len(flight[p]) /\ DOMAIN s = DOMAIN flight[p]
      /\ \A j \in DOMAIN flight[p] : s[j] = IF j = i THEN r ELSE flight[p][j]
  BY <1>1
<1> HIDE DEF s
<1> QED BY <1>2, <1>3 DEF FlightOK

LEMMA Appended ==
  ASSUME FlightOK, NEW p \in Pages, NEW r \in Requests,
         flight' = [flight EXCEPT ![p] = Append(@, r)]
  PROVE  /\ flight' \in [Pages -> Seq(Requests)]
         /\ \A q \in Pages \ {p} : flight'[q] = flight[q]
         /\ Len(flight'[p]) = Len(flight[p]) + 1 /\ DOMAIN flight[p] \subseteq DOMAIN flight'[p]
         /\ DOMAIN flight'[p] = DOMAIN flight[p] \union {Len(flight[p]) + 1}
         /\ \A j \in DOMAIN flight[p] : flight'[p][j] = flight[p][j] /\ j < Len(flight[p]) + 1
         /\ flight'[p][Len(flight[p]) + 1] = r
<1>1. flight[p] \in Seq(Requests) BY DEF FlightOK
<1> DEFINE s == Append(flight[p], r)
<1>2. flight' = [flight EXCEPT ![p] = s] OBVIOUS
<1>3. /\ s \in Seq(Requests) /\ Len(s) = Len(flight[p]) + 1
      /\ DOMAIN s = DOMAIN flight[p] \union {Len(flight[p]) + 1}
      /\ \A j \in DOMAIN flight[p] : s[j] = flight[p][j] /\ j < Len(flight[p]) + 1
      /\ s[Len(flight[p]) + 1] = r
  BY <1>1
<1> HIDE DEF s
<1> QED BY <1>2, <1>3 DEF FlightOK

LEMMA RemovedAt ==
  ASSUME NEW S, NEW f \in Seq(S), NEW i \in 1..Len(f)
  PROVE  /\ RemoveAt(f, i) \in Seq(S) /\ Len(RemoveAt(f, i)) = Len(f) - 1
         /\ \A j \in 1..(Len(f) - 1) :
              RemoveAt(f, i)[j] = IF j < i THEN f[j] ELSE f[j + 1]
<1> DEFINE a == SubSeq(f, 1, i - 1)
           b == SubSeq(f, i + 1, Len(f))
           c == a \o b
<1>1. RemoveAt(f, i) = c BY DEF RemoveAt
<1>2. /\ a \in Seq(S) /\ Len(a) = i - 1 /\ b \in Seq(S) /\ Len(b) = Len(f) - i
      /\ \A j \in 1..(i - 1) : a[j] = f[j]
      /\ \A j \in 1..(Len(f) - i) : b[j] = f[j + i]
  OBVIOUS
<1>3. Len(f) \in Nat /\ i \in Nat /\ 1 <= i /\ i <= Len(f) OBVIOUS
<1> HIDE DEF a, b
<1>4. /\ c \in Seq(S) /\ Len(c) = Len(a) + Len(b)
      /\ \A j \in 1..(Len(a) + Len(b)) : c[j] = IF j <= Len(a) THEN a[j] ELSE b[j - Len(a)]
  BY <1>2, ConcatProperties
<1> HIDE DEF c
<1>5. Len(c) = Len(f) - 1 BY <1>2, <1>3, <1>4
<1>6. \A j \in 1..(Len(f) - 1) : c[j] = IF j < i THEN f[j] ELSE f[j + 1]
  <2> TAKE j \in 1..(Len(f) - 1)
  <2>1. c[j] = IF j <= i - 1 THEN a[j] ELSE b[j - (i - 1)]
    <3>1. j \in 1..(Len(a) + Len(b)) BY <1>2, <1>3
    <3> QED BY <1>2, <1>4, <3>1
  <2>2. j < i => a[j] = f[j] BY <1>2, <1>3
  <2>3. j >= i => b[j - (i - 1)] = f[j + 1]
    <3> SUFFICES ASSUME j >= i PROVE b[j - (i - 1)] = f[j + 1] OBVIOUS
    <3>1. j - (i - 1) \in 1..(Len(f) - i) /\ j - (i - 1) + i = j + 1 BY <1>3
    <3> QED BY <1>2, <3>1
  <2> QED BY <1>3, <2>1, <2>2, <2>3
<1> QED BY <1>1, <1>4, <1>5, <1>6

LEMMA Removed ==
  ASSUME FlightOK, NEW p \in Pages, NEW i \in DOMAIN flight[p],
         flight' = [flight EXCEPT ![p] = RemoveAt(@, i)]
  PROVE  /\ flight' \in [Pages -> Seq(Requests)]
         /\ \A q \in Pages \ {p} : flight'[q] = flight[q]
         /\ Len(flight'[p]) = Len(flight[p]) - 1
         /\ \A j \in DOMAIN flight'[p] :
              /\ j < i => j \in DOMAIN flight[p] /\ flight'[p][j] = flight[p][j]
              /\ j >= i => j + 1 \in DOMAIN flight[p] /\ flight'[p][j] = flight[p][j + 1]
         /\ \A j \in DOMAIN flight[p] :
              /\ j < i => j \in DOMAIN flight'[p]
              /\ j > i => j - 1 \in DOMAIN flight'[p]
<1>1. flight[p] \in Seq(Requests) /\ i \in 1..Len(flight[p]) BY DEF FlightOK
<1> DEFINE f == flight[p]
           s == RemoveAt(f, i)
<1>2. flight' = [flight EXCEPT ![p] = s] OBVIOUS
<1>4. /\ s \in Seq(Requests) /\ Len(s) = Len(f) - 1
      /\ \A j \in 1..(Len(f) - 1) : s[j] = IF j < i THEN f[j] ELSE f[j + 1]
  BY <1>1, RemovedAt
<1> HIDE DEF s
<1>5. DOMAIN s = 1..(Len(f) - 1) /\ DOMAIN f = 1..Len(f) /\ Len(f) \in Nat
  BY <1>1, <1>4
<1>6. flight'[p] = s /\ \A q \in Pages \ {p} : flight'[q] = flight[q] BY <1>2 DEF FlightOK
<1>7. flight' \in [Pages -> Seq(Requests)] BY <1>2, <1>4 DEF FlightOK
<1>8. \A j \in DOMAIN s :
        /\ j < i => j \in DOMAIN f /\ s[j] = f[j]
        /\ j >= i => j + 1 \in DOMAIN f /\ s[j] = f[j + 1]
  BY <1>1, <1>4, <1>5
<1>9. \A j \in DOMAIN f : (j < i => j \in DOMAIN s) /\ (j > i => j - 1 \in DOMAIN s)
  BY <1>1, <1>5
<1> QED BY <1>4, <1>6, <1>7, <1>8, <1>9

LEMMA Unheeded ==
  ASSUME FlightOK, NEW p \in Pages,
         flight' = [flight EXCEPT ![p] = [i \in DOMAIN @ |-> [@[i] EXCEPT !.live = FALSE]]]
  PROVE  /\ flight' \in [Pages -> Seq(Requests)]
         /\ \A q \in Pages \ {p} : flight'[q] = flight[q]
         /\ Len(flight'[p]) = Len(flight[p]) /\ DOMAIN flight'[p] = DOMAIN flight[p]
         /\ \A j \in DOMAIN flight[p] : flight'[p][j] = [flight[p][j] EXCEPT !.live = FALSE]
<1>1. flight[p] \in Seq(Requests) BY DEF FlightOK
<1> DEFINE s == [i \in DOMAIN flight[p] |-> [flight[p][i] EXCEPT !.live = FALSE]]
<1>2. flight' = [flight EXCEPT ![p] = s] OBVIOUS
<1>3. \A j \in DOMAIN flight[p] : [flight[p][j] EXCEPT !.live = FALSE] \in Requests
  <2> TAKE j \in DOMAIN flight[p]
  <2>1. flight[p][j] \in Requests BY <1>1
  <2> QED BY <2>1 DEF Requests
<1>4. /\ s \in Seq(Requests) /\ Len(s) = Len(flight[p]) /\ DOMAIN s = DOMAIN flight[p]
      /\ \A j \in DOMAIN flight[p] : s[j] = [flight[p][j] EXCEPT !.live = FALSE]
  <2>1. DOMAIN flight[p] = 1..Len(flight[p]) /\ Len(flight[p]) \in Nat BY <1>1
  <2>2. DOMAIN s = 1..Len(flight[p]) /\ \A j \in DOMAIN s : s[j] \in Requests
    BY <1>3, <2>1
  <2>3. s \in [1..Len(flight[p]) -> Requests] BY <2>2
  <2>4. s \in Seq(Requests) /\ Len(s) = Len(flight[p])
    <3> HIDE DEF s
    <3> QED BY <2>1, <2>3, SeqDef, LenProperties
  <2> QED BY <2>1, <2>2, <2>4
<1> HIDE DEF s
<1> QED BY <1>2, <1>4 DEF FlightOK

-----------------------------------------------------------------------------
LEMMA TypeInit == Init => TypeInv
<1> SUFFICES ASSUME Init PROVE TypeInv OBVIOUS
<1>1. Revision = 0 /\ versions \in Seq(Texts) BY DEF Init, Revision
<1>2. StoreOK BY <1>1 DEF Init, StoreOK
<1>3. ScreenOK BY DEF Init, ScreenOK, Texts, Blank
<1>4. KnownOK BY <1>1 DEF Init, KnownOK
<1>5. FetchOK BY DEF Init, FetchOK
<1>6. FlightOK
  <2>1. flight = [p \in Pages |-> <<>>] BY DEF Init
  <2>2. <<>> \in Seq(Requests) /\ Len(<<>>) = 0 /\ DOMAIN <<>> = {} OBVIOUS
  <2> QED BY <2>1, <2>2 DEF FlightOK
<1>7. BoundsOK BY DEF Init, BoundsOK
<1> QED BY <1>2, <1>3, <1>4, <1>5, <1>6, <1>7 DEF TypeInv

\* A fetch that starts, and what it holds when it is answered.
LEMMA FetchStarts ==
  ASSUME TypeInv, NEW p \in Pages, NEW for \in {"open", "select", "retry"}, Fetch(p, for),
         UNCHANGED versions
  PROVE  FetchOK'
<1> DEFINE f == [for |-> for, phase |-> "sent", text |-> text[p], known |-> known[p]]
<1>1. f \in Fetches BY DEF TypeInv, ScreenOK, KnownOK, Fetches
<1>2. fetch' = [fetch EXCEPT ![p] = f] BY DEF Fetch
<1>3. f.known <= Revision /\ f.phase = "sent" BY DEF TypeInv, KnownOK
<1>4. Revision' = Revision BY DEF Revision
<1> HIDE DEF f
<1> QED BY <1>1, <1>2, <1>3, <1>4 DEF TypeInv, FetchOK

\* A save that a page sends.
LEMMA SaveTypes ==
  ASSUME TypeInv, NEW p \in Pages, NEW base \in Nat, NEW basis \in SUBSET Nat,
         Save(p, base, basis), UNCHANGED versions
  PROVE  /\ FlightOK' /\ status' = [status EXCEPT ![p] = "saving"]
         /\ \A q \in Pages \ {p} : flight'[q] = flight[q]
         /\ LET n == Len(flight[p]) + 1
            IN  /\ DOMAIN flight'[p] = DOMAIN flight[p] \union {n}
                /\ \A j \in DOMAIN flight[p] : flight'[p][j] = flight[p][j] /\ j < n
                /\ flight'[p][n].phase = "sent" /\ flight'[p][n].answer = "none"
                /\ flight'[p][n].text = text[p] /\ flight'[p][n].live
                /\ flight'[p][n].base = base /\ flight'[p][n].seen = basis
<1> DEFINE r == [phase |-> "sent", text |-> text[p], base |-> base, seen |-> basis,
                 found |-> FALSE, answer |-> "none", revision |-> 0, live |-> TRUE]
<1>1. r \in Requests BY DEF TypeInv, ScreenOK, Requests
<1>2. flight' = [flight EXCEPT ![p] = Append(@, r)] /\ Len(flight[p]) < MaxFlight
      /\ status' = [status EXCEPT ![p] = "saving"]
  BY DEF Save
<1>3. r.phase = "sent" /\ r.answer = "none" /\ r.text = text[p] /\ r.live
      /\ r.base = base /\ r.seen = basis /\ r.revision = 0
  OBVIOUS
<1>4. Revision' = Revision /\ Revision \in Nat /\ FlightOK /\ Len(flight[p]) \in Nat
  BY RevisionTypes DEF Revision, TypeInv, FlightOK
<1> HIDE DEF r
<1> DEFINE n == Len(flight[p]) + 1
<1>5. /\ flight' \in [Pages -> Seq(Requests)]
      /\ \A q \in Pages \ {p} : flight'[q] = flight[q]
      /\ Len(flight'[p]) = n
      /\ DOMAIN flight'[p] = DOMAIN flight[p] \union {n}
      /\ \A j \in DOMAIN flight[p] : flight'[p][j] = flight[p][j] /\ j < n
      /\ flight'[p][n] = r
  BY <1>1, <1>2, <1>4, Appended
<1>6. FlightOK' BY <1>2, <1>3, <1>4, <1>5 DEF FlightOK
<1> QED BY <1>2, <1>3, <1>5, <1>6

\* A step that leaves the note alone leaves what refers to its revisions alone.
LEMMA SameRevision ==
  ASSUME UNCHANGED versions
  PROVE  /\ Revision' = Revision
         /\ KnownOK /\ UNCHANGED <<known, seen>> => KnownOK'
         /\ FetchOK /\ UNCHANGED fetch => FetchOK'
         /\ FlightOK /\ UNCHANGED flight => FlightOK'
BY DEF Revision, KnownOK, FetchOK, FlightOK

\* What the user of a page knows, once they go on from a recovered draft.
LEMMA GoesOnTypes ==
  ASSUME TypeInv, NEW p \in Pages, GoesOn(p), UNCHANGED <<versions, known>>
  PROVE  KnownOK' /\ known[p] \in Nat /\ seen'[p] \in SUBSET Nat
<1>1. /\ known[p] \in Nat /\ known[p] <= Revision /\ seen \in [Pages -> SUBSET Nat]
      /\ \A q \in Pages : \A v \in seen[q] : v <= Revision
  BY DEF TypeInv, KnownOK
<1>2. seen' \in [Pages -> SUBSET Nat] BY <1>1 DEF GoesOn
<1>3. ASSUME NEW q \in Pages, NEW v \in seen'[q] PROVE v <= Revision
  BY <1>1, <1>3 DEF GoesOn
<1>4. Revision' = Revision BY SameRevision
<1> QED BY <1>1, <1>2, <1>3, <1>4 DEF TypeInv, KnownOK

LEMMA TypeUser ==
  ASSUME TypeInv, NEW p \in Pages, UserStep(p)
  PROVE  TypeInv'
<1> USE DEF TypeInv
<1>0. UNCHANGED versions
  BY DEF UserStep, Open, Close, LoadPage, Type, RetrySave, RetryReload
<1>1. CASE Open(p)
  <2>1. FetchOK' BY <1>0, <1>1, FetchStarts DEF Open
  <2> QED BY <1>0, <1>1, <2>1, SameRevision DEF Open, StoreOK, ScreenOK, BoundsOK
<1>2. CASE Close(p)
  <2>1. FlightOK'
    <3>1. /\ flight' \in [Pages -> Seq(Requests)]
          /\ \A q \in Pages \ {p} : flight'[q] = flight[q]
          /\ Len(flight'[p]) = Len(flight[p]) /\ DOMAIN flight'[p] = DOMAIN flight[p]
          /\ \A j \in DOMAIN flight[p] : flight'[p][j] = [flight[p][j] EXCEPT !.live = FALSE]
      BY <1>2, Unheeded DEF Close
    <3>2. \A j \in DOMAIN flight[p] : flight'[p][j].revision = flight[p][j].revision
      <4> TAKE j \in DOMAIN flight[p]
      <4>1. flight[p][j] \in Requests BY RequestTypes
      <4>2. [flight[p][j] EXCEPT !.live = FALSE].revision = flight[p][j].revision
        BY <4>1 DEF Requests
      <4> QED BY <3>1, <4>2
    <3>3. \A q \in Pages : Len(flight'[q]) <= MaxFlight BY <3>1 DEF FlightOK
    <3>4. \A q \in Pages : \A j \in DOMAIN flight'[q] : flight'[q][j].revision <= Revision
      BY <3>1, <3>2 DEF FlightOK
    <3> QED BY <1>0, <3>1, <3>3, <3>4, SameRevision DEF FlightOK
  <2>2. KnownOK' BY <1>0, <1>2, SameRevision, RevisionTypes DEF Close, KnownOK
  <2>3. FetchOK' BY <1>0, <1>2, SameRevision DEF Close, FetchOK
  <2>4. ScreenOK' BY <1>2 DEF Close, ScreenOK, Texts, Blank
  <2> QED BY <1>2, <2>1, <2>2, <2>3, <2>4 DEF Close, StoreOK, BoundsOK, bounds
<1>3. CASE LoadPage(p)
  <2>1. FetchOK' BY <1>0, <1>3, FetchStarts DEF LoadPage
  <2> QED BY <1>0, <1>3, <2>1, SameRevision DEF LoadPage, Click, StoreOK, ScreenOK, BoundsOK
<1>4. CASE Type(p)
  <2>1. typed + 1 \in Texts /\ typed + 1 \in 0..MaxTyped BY <1>4 DEF Type, Texts, BoundsOK
  <2>2. ScreenOK' BY <1>4, <2>1 DEF Type, ScreenOK, Arms
  <2>3. StoreOK' BY <1>4, <2>1 DEF Type, StoreOK
  <2>4. KnownOK' BY <1>0, <1>4, GoesOnTypes DEF Type
  <2> QED BY <1>0, <1>4, <2>1, <2>2, <2>3, <2>4, SameRevision DEF Type, BoundsOK
<1>5. CASE RetrySave(p)
  <2>1. KnownOK' /\ known[p] \in Nat /\ seen'[p] \in SUBSET Nat
    BY <1>0, <1>5, GoesOnTypes DEF RetrySave
  <2>2. FlightOK' /\ status' = [status EXCEPT ![p] = "saving"]
    BY <1>0, <1>5, <2>1, SaveTypes DEF RetrySave
  <2> QED BY <1>0, <1>5, <2>1, <2>2, SameRevision
          DEF RetrySave, Click, StoreOK, ScreenOK, BoundsOK
<1>6. CASE RetryReload(p)
  <2>1. FetchOK' BY <1>0, <1>6, FetchStarts DEF RetryReload
  <2> QED BY <1>0, <1>6, <2>1, SameRevision DEF RetryReload, Click, StoreOK, ScreenOK, BoundsOK
<1> QED BY <1>1, <1>2, <1>3, <1>4, <1>5, <1>6 DEF UserStep

\* What the server does to a request.
LEMMA AdvanceTypes ==
  ASSUME TypeInv, NEW p \in Pages, NEW i \in DOMAIN flight[p], NEW r \in Requests,
         Advance(p, i, r), Revision <= Revision', Revision' \in Nat, r.revision <= Revision'
  PROVE  FlightOK'
<1>1. /\ flight' \in [Pages -> Seq(Requests)]
      /\ \A q \in Pages : /\ Len(flight'[q]) = Len(flight[q])
                          /\ DOMAIN flight'[q] = DOMAIN flight[q]
      /\ \A q \in Pages : \A j \in DOMAIN flight[q] :
           flight'[q][j] = IF q = p /\ j = i THEN r ELSE flight[q][j]
  BY Advanced DEF TypeInv
<1>2. Revision \in Nat BY RevisionTypes DEF TypeInv
<1>3. \A q \in Pages : \A j \in DOMAIN flight[q] : flight[q][j].revision \in Nat
  BY RequestTypes DEF TypeInv
<1>4. \A q \in Pages : Len(flight'[q]) <= MaxFlight BY <1>1 DEF TypeInv, FlightOK
<1>5. \A q \in Pages : \A j \in DOMAIN flight'[q] : flight'[q][j].revision <= Revision'
  <2> SUFFICES ASSUME NEW q \in Pages, NEW j \in DOMAIN flight[q]
               PROVE  flight'[q][j].revision <= Revision'
    BY <1>1
  <2>1. CASE q = p /\ j = i BY <1>1, <2>1
  <2>2. CASE ~(q = p /\ j = i)
    <3>1. flight[q][j].revision <= Revision BY RequestTypes DEF TypeInv
    <3>2. flight'[q][j] = flight[q][j] BY <1>1, <2>2
    <3> QED BY <1>2, <1>3, <3>1, <3>2
  <2> QED BY <2>1, <2>2
<1> QED BY <1>1, <1>4, <1>5 DEF FlightOK

\* The i-th request of p has been answered.
LEMMA TypeReply ==
  ASSUME TypeInv, NEW p \in Pages, NEW i \in DOMAIN flight[p],
         NEW answer \in {"ok", "conflict", "error"}, Reply(p, i, answer), UNCHANGED versions
  PROVE  FlightOK'
<1>0. flight[p][i] \in Requests BY RequestTypes DEF TypeInv
<1>1. PICK r : r = [flight[p][i] EXCEPT !.phase = "replied", !.answer = answer] OBVIOUS
<1>2. r \in Requests /\ r.revision = flight[p][i].revision BY <1>0, <1>1 DEF Requests
<1>3. Advance(p, i, r) BY <1>1 DEF Reply
<1>4. r.revision <= Revision /\ Revision' = Revision /\ Revision \in Nat
  BY <1>2, SameRevision, RevisionTypes, RequestTypes DEF TypeInv
<1> QED BY <1>2, <1>3, <1>4, AdvanceTypes

\* The text that a write adds.
LEMMA Grown ==
  ASSUME StoreOK, NEW t \in Texts, versions' = Append(versions, t)
  PROVE  /\ versions' \in Seq(Texts)
         /\ Revision' = Revision + 1 /\ Revision \in Nat /\ versions'[Revision'] = t
         /\ DOMAIN versions = 1..Revision /\ DOMAIN versions' = 1..(Revision + 1)
         /\ \A v \in 1..Revision : versions'[v] = versions[v]
<1>1. versions \in Seq(Texts) BY DEF StoreOK
<1> QED BY <1>1 DEF Revision

LEMMA TypeServer ==
  ASSUME TypeInv, NEW p \in Pages, ServerStep(p)
  PROVE  TypeInv'
<1> USE DEF TypeInv
<1>1. CASE AnswerFetch(p)
  <2> DEFINE f == [for |-> fetch[p].for, phase |-> "answered", text |-> fetch[p].text,
                   known |-> fetch[p].known, revision |-> Revision, body |-> Body]
  <2>1. fetch[p] # NoFetch /\ fetch' = [fetch EXCEPT ![p] = f] /\ UNCHANGED versions
    BY <1>1 DEF AnswerFetch, Fetching
  <2>2. f \in Fetches /\ f.known <= Revision /\ f.revision = Revision
    <3>1. /\ fetch[p].for \in {"open", "select", "retry"}
          /\ fetch[p].text \in Texts /\ fetch[p].known \in Nat
      BY <2>1, FetchTypes
    <3> QED BY <2>1, <3>1, RevisionTypes DEF Fetches, FetchOK
  <2> HIDE DEF f
  <2>3. FetchOK' BY <2>1, <2>2, SameRevision, RevisionTypes DEF FetchOK
  <2> QED BY <1>1, <2>1, <2>3, SameRevision
        DEF AnswerFetch, StoreOK, ScreenOK, BoundsOK, bounds
<1>2. ASSUME NEW i \in DOMAIN flight[p], CheckNote(p, i) PROVE TypeInv'
  <2>1. UNCHANGED <<versions, blind, drafts, page, bounds>> BY <1>2 DEF CheckNote
  <2>2. FlightOK'
    <3>1. CASE Reply(p, i, "conflict") BY <2>1, <3>1, TypeReply
    <3>2. CASE Advance(p, i, [flight[p][i] EXCEPT !.phase = "checked", !.found = Revision # 0])
      <4> DEFINE r == [flight[p][i] EXCEPT !.phase = "checked", !.found = Revision # 0]
      <4>1. flight[p][i] \in Requests BY DEF FlightOK
      <4>2. r \in Requests /\ r.revision = flight[p][i].revision BY <4>1 DEF Requests
      <4> HIDE DEF r
      <4>3. r.revision <= Revision /\ Revision' = Revision /\ Revision \in Nat
        BY <2>1, <4>2, SameRevision, RevisionTypes DEF FlightOK
      <4>4. Advance(p, i, r) BY <3>2 DEF r
      <4> QED BY <4>2, <4>3, <4>4, AdvanceTypes
    <3> QED BY <1>2, <3>1, <3>2 DEF CheckNote
  <2> QED BY <2>1, <2>2, SameRevision DEF page, bounds, StoreOK, ScreenOK, BoundsOK
<1>3. ASSUME NEW i \in DOMAIN flight[p], WriteNote(p, i) PROVE TypeInv'
  <2> DEFINE r == flight[p][i]
             w == [r EXCEPT !.phase = "written"]
  <2>1. UNCHANGED <<drafts, page, bounds>> BY <1>3 DEF WriteNote
  <2>2. CASE UNCHANGED <<versions, blind>> /\ Refused(p, i)
    <3>1. FlightOK' BY <2>2, TypeReply DEF Refused
    <3> QED BY <2>1, <2>2, <3>1, SameRevision DEF page, bounds, StoreOK, ScreenOK, BoundsOK
  <2>3. CASE /\ versions' = Append(versions, r.text)
             /\ blind' = (blind \/ (Revision # 0 /\ Revision \notin r.seen))
             /\ Advance(p, i, w)
    <3>1. r \in Requests BY DEF FlightOK
    <3>2. r.text \in Texts /\ w \in Requests /\ w.revision = r.revision BY <3>1 DEF Requests
    <3>3. versions' \in Seq(Texts) /\ Revision' = Revision + 1 /\ Revision \in Nat
      BY <2>3, <3>2, Grown
    <3>4. StoreOK' BY <2>1, <2>3, <3>3 DEF StoreOK
    <3>5. r.revision <= Revision /\ r.revision \in Nat BY <3>1 DEF FlightOK, Requests
    <3> HIDE DEF r, w
    <3>6. FlightOK' BY <2>3, <3>2, <3>3, <3>5, AdvanceTypes
    <3>7. KnownOK' BY <2>1, <3>3 DEF page, KnownOK
    <3>8. FetchOK'
      <4>1. \A q \in Pages : fetch[q] # NoFetch =>
              /\ fetch[q].known \in Nat
              /\ fetch[q].phase = "answered" => fetch[q].revision \in Nat
        BY FetchTypes
      <4> QED BY <2>1, <3>3, <4>1 DEF page, FetchOK
    <3> QED BY <2>1, <3>4, <3>6, <3>7, <3>8 DEF page, bounds, ScreenOK, BoundsOK
  <2> QED BY <1>3, <2>2, <2>3 DEF WriteNote
<1>4. ASSUME NEW i \in DOMAIN flight[p], ReadBack(p, i) PROVE TypeInv'
  <2> DEFINE r == [flight[p][i] EXCEPT !.phase = "replied", !.answer = "ok",
                                       !.revision = AnswerRevision]
  <2>1. UNCHANGED <<versions, blind, drafts, page, bounds>> /\ Advance(p, i, r)
    BY <1>4 DEF ReadBack
  <2>2. flight[p][i] \in Requests BY DEF FlightOK
  <2>3. r \in Requests /\ r.revision = Revision
    BY <2>2, RevisionTypes DEF Requests, AnswerRevision
  <2> HIDE DEF r
  <2>4. FlightOK' BY <2>1, <2>3, SameRevision, RevisionTypes, AdvanceTypes
  <2> QED BY <2>1, <2>4, SameRevision DEF page, bounds, StoreOK, ScreenOK, BoundsOK
<1> QED BY <1>1, <1>2, <1>3, <1>4 DEF ServerStep

\* A request leaves the flight.
LEMMA TypeHeard ==
  ASSUME TypeInv, NEW p \in Pages, NEW i \in DOMAIN flight[p],
         flight' = [flight EXCEPT ![p] = RemoveAt(@, i)], UNCHANGED versions
  PROVE  FlightOK'
<1>1. /\ flight' \in [Pages -> Seq(Requests)]
      /\ \A q \in Pages \ {p} : flight'[q] = flight[q]
      /\ Len(flight'[p]) = Len(flight[p]) - 1
      /\ \A j \in DOMAIN flight'[p] :
           /\ j < i => j \in DOMAIN flight[p] /\ flight'[p][j] = flight[p][j]
           /\ j >= i => j + 1 \in DOMAIN flight[p] /\ flight'[p][j] = flight[p][j + 1]
  BY Removed DEF TypeInv
<1>2. Len(flight[p]) \in Nat /\ i \in Nat /\ \A j \in DOMAIN flight'[p] : j \in Nat
  BY <1>1 DEF TypeInv, FlightOK
<1>3. \A j \in DOMAIN flight'[p] : flight'[p][j].revision <= Revision
  BY <1>1, <1>2 DEF TypeInv, FlightOK
<1> QED BY <1>1, <1>2, <1>3, SameRevision DEF TypeInv, FlightOK

LEMMA TypePage ==
  ASSUME TypeInv, NEW p \in Pages, PageStep(p)
  PROVE  TypeInv'
<1> USE DEF TypeInv
<1>1. CASE TimerFires(p)
  <2>1. FlightOK' /\ status' = [status EXCEPT ![p] = "saving"]
    BY <1>1, SaveTypes DEF TimerFires, KnownOK
  <2> QED BY <1>1, <2>1, SameRevision DEF TimerFires, StoreOK, ScreenOK, BoundsOK, bounds
<1>2. CASE PageLoaded(p)
  <2>1. fetch[p] # NoFetch /\ fetch[p].phase = "answered" /\ fetch[p].for \in {"open", "select"}
    BY <1>2 DEF PageLoaded, Fetching, Loading
  <2>2. /\ fetch[p].text \in Texts /\ fetch[p].known \in Nat /\ fetch[p].known <= Revision
        /\ fetch[p].revision \in Nat /\ fetch[p].revision <= Revision /\ fetch[p].body \in Texts
    BY <2>1, FetchTypes DEF FetchOK
  <2> DEFINE f == [for |-> fetch[p].for, phase |-> "shown", text |-> fetch[p].text,
                   known |-> fetch[p].known]
             shown == IF drafts[Browser[p]] = NoDraft THEN fetch[p].body ELSE drafts[Browser[p]]
  <2>3. f \in Fetches /\ f.known = fetch[p].known /\ f.phase = "shown" BY <2>1, <2>2 DEF Fetches
  <2>4. shown \in Texts BY <2>2 DEF StoreOK
  <2>5. /\ fetch' = [fetch EXCEPT ![p] = f]
        /\ known' = [known EXCEPT ![p] = fetch[p].revision]
        /\ \/ seen' = [seen EXCEPT ![p] = @ \union {fetch[p].revision}]
           \/ seen' = [seen EXCEPT ![p] = @]
        /\ UNCHANGED <<versions, blind, drafts, open, timer, flight, bounds>>
    BY <1>2 DEF PageLoaded
  <2>6. ScreenOK'
    <3>1. /\ text' = [text EXCEPT ![p] = shown]
          /\ \/ status' = [status EXCEPT ![p] = "recovered"]
             \/ status' = [status EXCEPT ![p] = "empty"]
          /\ retry' = [retry EXCEPT ![p] = "save"] \/ retry' = [retry EXCEPT ![p] = "hidden"]
      BY <1>2 DEF PageLoaded
    <3> QED BY <2>4, <2>5, <3>1 DEF ScreenOK
  <2> HIDE DEF f, shown
  <2>7. FetchOK' BY <2>2, <2>3, <2>5, SameRevision DEF FetchOK
  <2>8. KnownOK' BY <2>2, <2>5, SameRevision DEF KnownOK
  <2> QED BY <2>5, <2>6, <2>7, <2>8, SameRevision DEF StoreOK, BoundsOK, bounds
<1>3. CASE PdfLoaded(p)
  <2>1. FetchOK' BY <1>3, SameRevision DEF PdfLoaded, FetchOK
  <2> QED BY <1>3, <2>1, SameRevision DEF PdfLoaded, StoreOK, ScreenOK, BoundsOK, bounds
<1>4. CASE RetryLoaded(p)
  <2>1. fetch[p].revision \in Nat /\ fetch[p].revision <= Revision
    BY <1>4, FetchTypes DEF RetryLoaded, Fetching, FetchOK
  <2>2. KnownOK' BY <1>4, <2>1, SameRevision DEF RetryLoaded, KnownOK
  <2>3. FetchOK' BY <1>4, SameRevision DEF RetryLoaded, FetchOK
  <2>4. FlightOK' /\ status' = [status EXCEPT ![p] = "saving"]
    <3>1. known'[p] \in Nat /\ seen'[p] \in SUBSET Nat BY <2>2 DEF KnownOK
    <3> QED BY <1>4, <3>1, SaveTypes DEF RetryLoaded
  <2> QED BY <1>4, <2>2, <2>3, <2>4 DEF RetryLoaded, StoreOK, ScreenOK, BoundsOK, bounds
<1>5. ASSUME NEW i \in DOMAIN flight[p], Saved(p, i) PROVE TypeInv'
  <2>1. FlightOK' BY <1>5, TypeHeard DEF Saved, Hear
  <2>2. flight[p][i].revision \in Nat /\ flight[p][i].revision <= Revision
    BY RequestTypes
  <2>3. KnownOK' BY <1>5, <2>2, SameRevision DEF Saved, KnownOK
  <2>4. StoreOK' BY <1>5 DEF Saved, StoreOK
  <2> QED BY <1>5, <2>1, <2>3, <2>4, SameRevision DEF Saved, ScreenOK, BoundsOK, bounds
<1>6. ASSUME NEW i \in DOMAIN flight[p], NotSaved(p, i) PROVE TypeInv'
  <2>1. FlightOK' BY <1>6, TypeHeard DEF NotSaved, Hear
  <2> QED BY <1>6, <2>1, SameRevision DEF NotSaved, StoreOK, ScreenOK, BoundsOK, bounds
<1>7. ASSUME NEW i \in DOMAIN flight[p], Unheard(p, i) PROVE TypeInv'
  <2>1. FlightOK' BY <1>7, TypeHeard DEF Unheard
  <2> QED BY <1>7, <2>1, SameRevision DEF Unheard, StoreOK, ScreenOK, BoundsOK, bounds, page
<1> QED BY <1>1, <1>2, <1>3, <1>4, <1>5, <1>6, <1>7 DEF PageStep

LEMMA TypeFault ==
  ASSUME TypeInv, NEW p \in Pages, FaultStep(p)
  PROVE  TypeInv'
<1> USE DEF TypeInv
<1>1. CASE LoadFails(p)
  <2>1. fetch[p].for \in {"open", "select"} /\ fetch[p] # NoFetch
    BY <1>1 DEF LoadFails, Loading, NoFetch
  <2>2. fetch[p].text \in Texts /\ fetch[p].known \in Nat /\ fetch[p].known <= Revision
    BY <2>1, FetchTypes DEF FetchOK
  <2> DEFINE f == [for |-> fetch[p].for, phase |-> "sent", text |-> fetch[p].text,
                   known |-> fetch[p].known]
  <2>3. f \in Fetches /\ f.known = fetch[p].known /\ f.phase = "sent" BY <2>1, <2>2 DEF Fetches
  <2>4. /\ UNCHANGED <<versions, blind, drafts, open, seen, status, retry, timer, flight, typed,
                       opens, clicks>>
        /\ fetch' = [fetch EXCEPT ![p] = NoFetch] \/ fetch' = [fetch EXCEPT ![p] = f]
        /\ UNCHANGED text \/ text' = [text EXCEPT ![p] = fetch[p].text]
        /\ UNCHANGED known \/ known' = [known EXCEPT ![p] = fetch[p].known]
        /\ faults' \in 0..MaxFaults
    BY <1>1 DEF LoadFails, Fault, BoundsOK
  <2> HIDE DEF f
  <2>5. FetchOK' BY <2>2, <2>3, <2>4, SameRevision DEF FetchOK
  <2>6. KnownOK' BY <2>2, <2>4, SameRevision DEF KnownOK
  <2>7. ScreenOK' BY <2>2, <2>4 DEF ScreenOK
  <2> QED BY <2>4, <2>5, <2>6, <2>7, SameRevision DEF StoreOK, BoundsOK
<1>2. CASE RetryFails(p)
  <2>1. FetchOK' BY <1>2, SameRevision DEF RetryFails, FetchOK
  <2> QED BY <1>2, <2>1, SameRevision DEF RetryFails, Fault, StoreOK, ScreenOK, BoundsOK
<1>3. ASSUME NEW i \in DOMAIN flight[p], Lose(p, i) PROVE TypeInv'
  <2>1. FlightOK' BY <1>3, TypeReply DEF Lose
  <2> QED BY <1>3, <2>1, SameRevision DEF Lose, Fault, page, StoreOK, ScreenOK, BoundsOK
<1> QED BY <1>1, <1>2, <1>3 DEF FaultStep

LEMMA TypeNext == TypeInv /\ [Next]_vars => TypeInv'
<1> SUFFICES ASSUME TypeInv, [Next]_vars PROVE TypeInv' OBVIOUS
<1>1. CASE UNCHANGED vars
  BY <1>1, SameRevision DEF vars, page, bounds, TypeInv, StoreOK, ScreenOK, BoundsOK
<1> QED BY <1>1, TypeServer, TypePage, TypeUser, TypeFault DEF Next

\* The note, the pages and the requests keep their types, whatever is lost,
\* closed or loaded again.
THEOREM TypeCorrect == Spec => []TypeOK
BY TypeInit, TypeNext, TypeParts, PTL DEF Spec

-----------------------------------------------------------------------------
(* What a step does to the requests.                                       *)

\* A request that has just been sent.
Sent(p, r) ==
  /\ r.phase = "sent" /\ r.answer = "none" /\ r.base = known'[p] /\ r.seen = seen'[p]
  /\ status'[p] = "saving"

\* What may have become of the request s.
Moved(s, r) ==
  /\ r.text = s.text /\ r.base = s.base /\ r.seen = s.seen /\ (r.live => s.live)
  /\ \/ r.phase = s.phase /\ r.answer = s.answer /\ r.revision = s.revision
     \/ r.phase = "checked" /\ r.answer = s.answer /\ r.revision = s.revision
     \/ r.phase = "replied" /\ r.answer \in {"conflict", "error"}
     \/ /\ r.phase = "written" /\ r.answer = s.answer /\ r.revision = s.revision
        /\ versions' = Append(versions, r.text)
     \/ /\ s.phase = "written" /\ r.phase = "replied" /\ r.answer = "ok"
        /\ r.revision = Revision /\ UNCHANGED versions

Follows ==
  \A q \in Pages : \A j \in DOMAIN flight'[q] :
    \/ Sent(q, flight'[q][j])
    \/ \E k \in DOMAIN flight[q] : Moved(flight[q][k], flight'[q][j])

LEMMA Kept ==
  UNCHANGED flight => Follows
BY DEF Follows, Moved

LEMMA SaveFollows ==
  ASSUME TypeInv, NEW p \in Pages, Save(p, known'[p], seen'[p]), UNCHANGED versions,
         known'[p] \in Nat, seen'[p] \in SUBSET Nat
  PROVE  Follows
<1>1. /\ \A q \in Pages \ {p} : flight'[q] = flight[q]
      /\ LET n == Len(flight[p]) + 1
         IN  /\ DOMAIN flight'[p] = DOMAIN flight[p] \union {n}
             /\ \A j \in DOMAIN flight[p] : flight'[p][j] = flight[p][j]
             /\ flight'[p][n].phase = "sent" /\ flight'[p][n].answer = "none"
             /\ flight'[p][n].base = known'[p] /\ flight'[p][n].seen = seen'[p]
  BY SaveTypes
<1> SUFFICES ASSUME NEW q \in Pages, NEW j \in DOMAIN flight'[q]
             PROVE  \/ Sent(q, flight'[q][j])
                    \/ \E k \in DOMAIN flight[q] : Moved(flight[q][k], flight'[q][j])
  BY DEF Follows
<1>2. CASE j \in DOMAIN flight[q] /\ flight'[q][j] = flight[q][j] BY <1>2 DEF Moved
<1>3. CASE q = p /\ j = Len(flight[p]) + 1
  <2>1. status'[p] = "saving" BY DEF Save, TypeInv, ScreenOK
  <2> QED BY <1>1, <1>3, <2>1 DEF Sent
<1> QED BY <1>1, <1>2, <1>3

LEMMA HeardFollows ==
  ASSUME TypeInv, NEW p \in Pages, NEW i \in DOMAIN flight[p],
         flight' = [flight EXCEPT ![p] = RemoveAt(@, i)]
  PROVE  Follows
<1>1. /\ \A q \in Pages \ {p} : flight'[q] = flight[q]
      /\ \A j \in DOMAIN flight'[p] :
           /\ j < i => j \in DOMAIN flight[p] /\ flight'[p][j] = flight[p][j]
           /\ j >= i => j + 1 \in DOMAIN flight[p] /\ flight'[p][j] = flight[p][j + 1]
      /\ flight'[p] \in Seq(Requests)
  BY Removed DEF TypeInv
<1>1a. flight[p] \in Seq(Requests) /\ i \in Nat BY DEF TypeInv, FlightOK
<1> SUFFICES ASSUME NEW q \in Pages, NEW j \in DOMAIN flight'[q]
             PROVE  \E k \in DOMAIN flight[q] : flight'[q][j] = flight[q][k]
  BY DEF Follows, Moved
<1>2. CASE q = p
  <2>1. j \in Nat BY <1>1, <1>2
  <2>2. j < i \/ j >= i BY <1>1a, <2>1
  <2> QED BY <1>1, <1>2, <2>2
<1> QED BY <1>1, <1>2

LEMMA AdvanceFollows ==
  ASSUME TypeInv, NEW p \in Pages, NEW i \in DOMAIN flight[p], NEW r \in Requests,
         Advance(p, i, r), Moved(flight[p][i], r)
  PROVE  Follows
<1>1. /\ \A q \in Pages : DOMAIN flight'[q] = DOMAIN flight[q]
      /\ \A q \in Pages : \A j \in DOMAIN flight[q] :
           flight'[q][j] = IF q = p /\ j = i THEN r ELSE flight[q][j]
  BY Advanced DEF TypeInv
<1>2. \A q \in Pages : \A j \in DOMAIN flight[q] : Moved(flight[q][j], flight[q][j])
  BY DEF Moved
<1> QED BY <1>1, <1>2 DEF Follows

LEMMA ReplyFollows ==
  ASSUME TypeInv, NEW p \in Pages, NEW i \in DOMAIN flight[p],
         NEW answer \in {"conflict", "error"}, Reply(p, i, answer)
  PROVE  Follows
<1>0. flight[p][i] \in Requests BY RequestTypes DEF TypeInv
<1>1. PICK r : r = [flight[p][i] EXCEPT !.phase = "replied", !.answer = answer] OBVIOUS
<1>2. r \in Requests /\ r.phase = "replied" /\ r.answer = answer
      /\ r.text = flight[p][i].text /\ r.base = flight[p][i].base
      /\ r.seen = flight[p][i].seen /\ r.live = flight[p][i].live
  BY <1>0, <1>1 DEF Requests
<1>3. Advance(p, i, r) BY <1>1 DEF Reply
<1>4. Moved(flight[p][i], r) BY <1>2 DEF Moved
<1> QED BY <1>2, <1>3, <1>4, AdvanceFollows

LEMMA ServerFollows ==
  ASSUME TypeInv, NEW p \in Pages, ServerStep(p)
  PROVE  Follows
<1>1. CASE AnswerFetch(p) BY <1>1, Kept DEF AnswerFetch
<1>2. ASSUME NEW i \in DOMAIN flight[p],
             CheckNote(p, i) \/ WriteNote(p, i) \/ ReadBack(p, i)
      PROVE  Follows
  <2> DEFINE s == flight[p][i]
  <2>1. s \in Requests BY RequestTypes DEF TypeInv
  <2>2. CASE CheckNote(p, i)
    <3>1. CASE Reply(p, i, "conflict") BY <3>1, ReplyFollows
    <3>2. CASE Advance(p, i, [s EXCEPT !.phase = "checked", !.found = Revision # 0])
      <4>1. PICK r : r = [s EXCEPT !.phase = "checked", !.found = Revision # 0] OBVIOUS
      <4>2. r \in Requests /\ r.phase = "checked" /\ r.answer = s.answer /\ r.text = s.text
            /\ r.base = s.base /\ r.seen = s.seen /\ r.revision = s.revision
            /\ r.live = s.live
        BY <2>1, <4>1 DEF Requests
      <4> QED BY <3>2, <4>1, <4>2, AdvanceFollows DEF Moved
    <3> QED BY <2>2, <3>1, <3>2 DEF CheckNote
  <2>3. CASE WriteNote(p, i)
    <3>1. CASE Refused(p, i) BY <3>1, ReplyFollows DEF Refused
    <3>2. CASE /\ versions' = Append(versions, s.text)
               /\ Advance(p, i, [s EXCEPT !.phase = "written"])
      <4>1. PICK r : r = [s EXCEPT !.phase = "written"] OBVIOUS
      <4>2. r \in Requests /\ r.phase = "written" /\ r.answer = s.answer /\ r.text = s.text
            /\ r.base = s.base /\ r.seen = s.seen /\ r.revision = s.revision
            /\ r.live = s.live
        BY <2>1, <4>1 DEF Requests
      <4> QED BY <3>2, <4>1, <4>2, AdvanceFollows DEF Moved
    <3> QED BY <2>3, <3>1, <3>2 DEF WriteNote
  <2>4. CASE ReadBack(p, i)
    <3>1. PICK r : r = [s EXCEPT !.phase = "replied", !.answer = "ok",
                                 !.revision = AnswerRevision]
      OBVIOUS
    <3>2. r \in Requests /\ r.phase = "replied" /\ r.answer = "ok" /\ r.text = s.text
          /\ r.base = s.base /\ r.seen = s.seen /\ r.revision = Revision
          /\ r.live = s.live
      BY <2>1, <3>1, RevisionTypes DEF Requests, AnswerRevision, TypeInv
    <3>3. s.phase = "written" /\ UNCHANGED versions /\ Advance(p, i, r)
      BY <2>4, <3>1 DEF ReadBack
    <3> QED BY <3>2, <3>3, AdvanceFollows DEF Moved
  <2> QED BY <1>2, <2>2, <2>3, <2>4
<1> QED BY <1>1, <1>2 DEF ServerStep

\* Every request after a step has just been sent or has been one before.
LEMMA NextFollows ==
  ASSUME TypeInv, Next
  PROVE  Follows
<1>1. PICK p \in Pages : ServerStep(p) \/ PageStep(p) \/ UserStep(p) \/ FaultStep(p) BY DEF Next
<1>2. CASE ServerStep(p) BY <1>2, ServerFollows
<1>3. CASE PageStep(p)
  <2>1. CASE TimerFires(p)
    <3>1. known'[p] = known[p] /\ seen'[p] = seen[p] /\ UNCHANGED versions
          /\ known[p] \in Nat /\ seen[p] \in SUBSET Nat
      BY <2>1 DEF TimerFires, TypeInv, KnownOK
    <3> QED BY <2>1, <3>1, SaveFollows DEF TimerFires
  <2>2. CASE RetryLoaded(p)
    <3>1. TypeInv' BY <1>3, TypePage
    <3>2. known'[p] \in Nat /\ seen'[p] \in SUBSET Nat BY <3>1 DEF TypeInv, KnownOK
    <3> QED BY <2>2, <3>2, SaveFollows DEF RetryLoaded
  <2>3. CASE PageLoaded(p) \/ PdfLoaded(p) BY <2>3, Kept DEF PageLoaded, PdfLoaded
  <2>4. ASSUME NEW i \in DOMAIN flight[p], Saved(p, i) \/ NotSaved(p, i) \/ Unheard(p, i)
        PROVE  Follows
    BY <2>4, HeardFollows DEF Saved, NotSaved, Unheard, Hear
  <2> QED BY <1>3, <2>1, <2>2, <2>3, <2>4 DEF PageStep
<1>4. CASE UserStep(p)
  <2>1. CASE Open(p) \/ LoadPage(p) \/ Type(p) \/ RetryReload(p)
    BY <2>1, Kept DEF Open, LoadPage, Type, RetryReload
  <2>2. CASE RetrySave(p)
    <3>1. known'[p] = known[p] /\ UNCHANGED versions
          /\ known[p] \in Nat /\ seen'[p] \in SUBSET Nat
      BY <2>2, GoesOnTypes DEF RetrySave
    <3> QED BY <2>2, <3>1, SaveFollows DEF RetrySave
  <2>3. CASE Close(p)
    <3>1. /\ \A q \in Pages \ {p} : flight'[q] = flight[q]
          /\ DOMAIN flight'[p] = DOMAIN flight[p]
          /\ \A j \in DOMAIN flight[p] : flight'[p][j] = [flight[p][j] EXCEPT !.live = FALSE]
      BY <2>3, Unheeded DEF Close, TypeInv
    <3>2. ASSUME NEW j \in DOMAIN flight[p] PROVE Moved(flight[p][j], flight'[p][j])
      <4>1. flight[p][j] \in Requests BY RequestTypes DEF TypeInv
      <4>2. flight'[p][j] = [flight[p][j] EXCEPT !.live = FALSE] BY <3>1
      <4> QED BY <4>1, <4>2 DEF Moved, Requests
    <3>3. \A q \in Pages : \A j \in DOMAIN flight[q] : Moved(flight[q][j], flight[q][j])
      BY DEF Moved
    <3> QED BY <3>1, <3>2, <3>3 DEF Follows
  <2> QED BY <1>4, <2>1, <2>2, <2>3 DEF UserStep
<1>5. CASE FaultStep(p)
  <2>1. CASE LoadFails(p) \/ RetryFails(p) BY <2>1, Kept DEF LoadFails, RetryFails
  <2>2. ASSUME NEW i \in DOMAIN flight[p], Lose(p, i) PROVE Follows
    BY <2>2, ReplyFollows DEF Lose
  <2> QED BY <1>5, <2>1, <2>2 DEF FaultStep
<1> QED BY <1>1, <1>2, <1>3, <1>4, <1>5

\* Only a write changes the note.
LEMMA OnlyWrites ==
  ASSUME Next
  PROVE  \/ UNCHANGED <<versions, blind>>
         \/ \E p \in Pages : \E i \in DOMAIN flight[p] :
              /\ WriteNote(p, i) /\ flight[p][i].phase = "checked"
              /\ versions' = Append(versions, flight[p][i].text)
<1>1. PICK p \in Pages : ServerStep(p) \/ PageStep(p) \/ UserStep(p) \/ FaultStep(p) BY DEF Next
<1>2. CASE ServerStep(p)
  <2>1. CASE AnswerFetch(p) BY <2>1 DEF AnswerFetch
  <2>2. ASSUME NEW i \in DOMAIN flight[p], CheckNote(p, i) \/ ReadBack(p, i)
        PROVE  UNCHANGED <<versions, blind>>
    BY <2>2 DEF CheckNote, ReadBack
  <2>3. ASSUME NEW i \in DOMAIN flight[p], WriteNote(p, i)
        PROVE  \/ UNCHANGED <<versions, blind>>
               \/ /\ WriteNote(p, i) /\ flight[p][i].phase = "checked"
                  /\ versions' = Append(versions, flight[p][i].text)
    BY <2>3 DEF WriteNote
  <2> QED BY <1>2, <2>1, <2>2, <2>3 DEF ServerStep
<1>3. CASE PageStep(p)
  BY <1>3 DEF PageStep, TimerFires, PageLoaded, PdfLoaded, RetryLoaded, Saved, NotSaved, Unheard
<1>4. CASE UserStep(p)
  BY <1>4 DEF UserStep, Open, Close, LoadPage, Type, RetrySave, RetryReload
<1>5. CASE FaultStep(p) BY <1>5 DEF FaultStep, LoadFails, RetryFails, Lose
<1> QED BY <1>1, <1>2, <1>3, <1>4, <1>5

-----------------------------------------------------------------------------
(* What is acknowledged is stored.                                         *)

Stored(t) == \E v \in DOMAIN versions : versions[v] = t

\* What has been written stays among the versions.
AckInv ==
  \A p \in Pages : \A i \in DOMAIN flight[p] :
    flight[p][i].phase = "written" \/ flight[p][i].answer = "ok" => Stored(flight[p][i].text)

LEMMA AckNext == TypeInv /\ AckInv /\ [Next]_vars => AckInv'
<1> SUFFICES ASSUME TypeInv, AckInv, Next PROVE AckInv' BY DEF vars, AckInv, Stored
<1>1. \A t : Stored(t) => Stored(t)'
  <2>1. CASE UNCHANGED versions BY <2>1 DEF Stored
  <2>2. ASSUME NEW p \in Pages, NEW i \in DOMAIN flight[p],
               versions' = Append(versions, flight[p][i].text)
        PROVE  \A t : Stored(t) => Stored(t)'
    <3>1. /\ DOMAIN versions = 1..Revision /\ DOMAIN versions' = 1..(Revision + 1)
          /\ \A v \in 1..Revision : versions'[v] = versions[v] /\ Revision \in Nat
      BY <2>2, Grown, RequestTypes, RevisionTypes DEF TypeInv
    <3> QED BY <3>1 DEF Stored
  <2> QED BY <2>1, <2>2, OnlyWrites
<1>2. ASSUME NEW t \in Texts, versions' = Append(versions, t) PROVE Stored(t)'
  <2>1. /\ Revision' = Revision + 1 /\ Revision \in Nat /\ versions'[Revision'] = t
        /\ DOMAIN versions' = 1..(Revision + 1)
    BY <1>2, Grown DEF TypeInv
  <2> QED BY <2>1 DEF Stored
<1> SUFFICES ASSUME NEW q \in Pages, NEW j \in DOMAIN flight'[q],
                    flight'[q][j].phase = "written" \/ flight'[q][j].answer = "ok"
             PROVE  \E v \in DOMAIN versions' : versions'[v] = flight'[q][j].text
  BY DEF AckInv, Stored
<1>3. PICK k \in DOMAIN flight[q] : Moved(flight[q][k], flight'[q][j])
  BY NextFollows DEF Follows, Sent
<1>4. CASE flight[q][k].phase = "written" \/ flight[q][k].answer = "ok"
  <2>1. Stored(flight[q][k].text) /\ flight'[q][j].text = flight[q][k].text
    BY <1>3, <1>4 DEF AckInv, Moved
  <2>2. PICK t : t = flight[q][k].text OBVIOUS
  <2>3. Stored(t)' BY <1>1, <2>1, <2>2
  <2> QED BY <2>1, <2>2, <2>3 DEF Stored
<1>5. CASE versions' = Append(versions, flight'[q][j].text)
  <2>1. flight'[q][j].text \in Texts BY <1>3, RequestTypes DEF Moved, TypeInv
  <2>2. PICK t \in Texts : t = flight'[q][j].text BY <2>1
  <2>3. Stored(t)' BY <1>2, <1>5, <2>2
  <2> QED BY <2>2, <2>3 DEF Stored
<1> QED BY <1>3, <1>4, <1>5 DEF Moved

\* A success is never answered for a text that the note has not had.
THEOREM AcknowledgementsAreTrue == Spec => []AcknowledgedIsStored
<1>1. Init => AckInv BY DEF Init, AckInv
<1>2. AckInv => AcknowledgedIsStored BY DEF AckInv, AcknowledgedIsStored, Stored
<1> QED BY TypeInit, TypeNext, AckNext, <1>1, <1>2, PTL DEF Spec

-----------------------------------------------------------------------------
(* No save is blind.                                                       *)

\* A revision that no longer is the note's, or that the page's user knows.
Passed(p, v) == v = 0 \/ v \in seen[p] \/ v < Revision

\* The page shows a recovered draft, and nobody has gone on from it.
Waits(p) == status[p] = "recovered" /\ ~Editing(p)

\* A save names what the user knows or what is gone: a page that knows another
\* revision waits with its draft; so does one that would go back to another one.
Knows(p) ==
  /\ Passed(p, known[p]) \/ Waits(p)
  /\ fetch[p].for = "select" =>
       Passed(p, fetch[p].known) \/ (Waits(p) /\ fetch[p].known = known[p])
  /\ fetch[p].for # "none" /\ fetch[p].phase = "answered" => fetch[p].known <= fetch[p].revision
  /\ status[p] = "recovered" => retry[p] = "save"
  /\ fetch[p].for = "retry" => status[p] # "recovered"

KnowsWhatItSaw == \A p \in Pages : Knows(p)

\* A request names a revision its page's user knows, or one that is gone; while
\* the row is read back its body is the text just written, which the answer
\* names by its revision.
Told(r) ==
  /\ r.base = 0 \/ r.base \in r.seen \/ r.base < Revision
  /\ r.phase = "written" => Revision # 0 /\ versions[Revision] = r.text
  /\ r.answer = "ok" => r.revision \in 1..Revision /\ versions[r.revision] = r.text

AllTold == \A p \in Pages : \A i \in DOMAIN flight[p] : Told(flight[p][i])

BlindInv == ~blind /\ KnowsWhatItSaw /\ AllTold

LEMMA RevisionGrows ==
  ASSUME TypeInv, Next
  PROVE  Revision \in Nat /\ Revision' \in Nat /\ Revision <= Revision'
<1>0. Revision \in Nat BY RevisionTypes DEF TypeInv
<1>1. CASE UNCHANGED versions BY <1>0, <1>1, SameRevision
<1>2. ASSUME NEW p \in Pages, NEW i \in DOMAIN flight[p],
             versions' = Append(versions, flight[p][i].text)
      PROVE  Revision' \in Nat /\ Revision <= Revision'
  BY <1>0, <1>2, Grown, RequestTypes DEF TypeInv
<1> QED BY <1>0, <1>1, <1>2, OnlyWrites

\* An edit starts with a key or a save.
LEMMA EditStarts ==
  ASSUME TypeInv, Next, NEW q \in Pages, status'[q] # "saving", timer'[q] => timer[q]
  PROVE  Editing(q)' => Editing(q)
<1> SUFFICES ASSUME NEW j \in DOMAIN flight'[q], flight'[q][j].live
             PROVE  \E k \in DOMAIN flight[q] : flight[q][k].live
  BY DEF Editing
<1>1. Follows BY NextFollows
<1> QED BY <1>1 DEF Follows, Sent, Moved

SameScreen(q) ==
  /\ known'[q] = known[q] /\ seen'[q] = seen[q] /\ fetch'[q] = fetch[q]
  /\ status'[q] = status[q] /\ retry'[q] = retry[q] /\ timer'[q] = timer[q]

LEMMA KnowsStill ==
  ASSUME TypeInv, Next, NEW q \in Pages, Knows(q), SameScreen(q)
  PROVE  Knows(q)'
<1>1. Revision \in Nat /\ Revision' \in Nat /\ Revision <= Revision' BY RevisionGrows
<1>2. known[q] \in Nat BY DEF TypeInv, KnownOK
<1>3. fetch[q].for = "select" => fetch[q].known \in Nat
  BY FetchTypes DEF TypeInv, NoFetch
<1>4. Waits(q) => Waits(q)' BY EditStarts DEF Waits, SameScreen
<1>5. Passed(q, known[q]) => Passed(q, known[q])' BY <1>1, <1>2 DEF Passed, SameScreen
<1>6. fetch[q].for = "select" /\ Passed(q, fetch[q].known) => Passed(q, fetch[q].known)'
  BY <1>1, <1>3 DEF Passed, SameScreen
<1>7. fetch'[q] = fetch[q] /\ known'[q] = known[q] /\ status'[q] = status[q]
      /\ retry'[q] = retry[q]
  BY DEF SameScreen
<1> HIDE DEF Passed, Waits
<1> QED BY <1>4, <1>5, <1>6, <1>7 DEF Knows

\* What a load shows is known, unless a draft hides it from a page at rest.
LEMMA KnowsLoaded ==
  ASSUME TypeInv, KnowsWhatItSaw, Next, NEW p \in Pages, PageLoaded(p)
  PROVE  Knows(p)' /\ \A q \in Pages \ {p} : SameScreen(q)
<1>0. /\ known \in [Pages -> Nat] /\ seen \in [Pages -> SUBSET Nat]
      /\ fetch \in [Pages -> Fetches \union {NoFetch}]
      /\ status \in [Pages -> {"empty", "unsaved", "recovered", "saving", "loading", "saved",
                               "conflict", "error"}]
      /\ retry \in [Pages -> {"hidden", "save", "reload"}]
  BY DEF TypeInv, KnownOK, FetchOK, ScreenOK
<1>1. /\ fetch[p] # NoFetch /\ fetch[p].phase = "answered"
      /\ fetch[p].for \in {"open", "select"} /\ fetch[p].known \in Nat
      /\ fetch[p].revision \in Nat /\ fetch[p].revision <= Revision
      /\ fetch[p].known <= fetch[p].revision
  <2>1. fetch[p] # NoFetch /\ fetch[p].phase = "answered" /\ fetch[p].for \in {"open", "select"}
    BY DEF PageLoaded, Fetching, Loading
  <2>2. Knows(p) BY DEF KnowsWhatItSaw
  <2> QED BY <2>1, <2>2, FetchTypes DEF TypeInv, FetchOK, Knows
<1>2. /\ fetch'[p].for = fetch[p].for /\ fetch'[p].phase = "shown"
      /\ fetch'[p].known = fetch[p].known /\ known'[p] = fetch[p].revision
      /\ \A q \in Pages \ {p} : fetch'[q] = fetch[q] /\ known'[q] = known[q]
      /\ UNCHANGED <<timer, flight, versions>>
  BY <1>0 DEF PageLoaded
<1>3. PICK shown :
        /\ status' = [status EXCEPT ![p] = IF shown # fetch[p].body THEN "recovered" ELSE "empty"]
        /\ retry' = [retry EXCEPT ![p] = IF shown # fetch[p].body THEN "save" ELSE "hidden"]
        /\ seen' = [seen EXCEPT ![p] = IF shown = fetch[p].body \/ Editing(p)
                                         THEN @ \union {fetch[p].revision} ELSE @]
  BY DEF PageLoaded
<1>4. Editing(p)' <=> Editing(p) BY <1>2 DEF Editing
<1>5. \A q \in Pages \ {p} : SameScreen(q) BY <1>0, <1>2, <1>3 DEF SameScreen
<1>6. Revision' = Revision /\ Revision \in Nat
  BY <1>2, SameRevision, RevisionTypes DEF TypeInv
<1>7. Passed(p, known[p])' \/ Waits(p)'
  <2>1. CASE shown = fetch[p].body \/ Editing(p)
    BY <1>0, <1>2, <1>3, <2>1 DEF Passed
  <2>2. CASE ~(shown = fetch[p].body \/ Editing(p))
    <3>1. status'[p] = "recovered" BY <1>0, <1>3, <2>2
    <3> QED BY <1>4, <2>2, <3>1 DEF Waits
  <2> QED BY <2>1, <2>2
<1>8. Passed(p, fetch[p].known)' \/ fetch'[p].known = known'[p]
  BY <1>1, <1>2, <1>6 DEF Passed
<1>9. Passed(p, fetch[p].known)' \/ (Waits(p)' /\ fetch'[p].known = known'[p])
  BY <1>7, <1>8 DEF Passed
<1>10. status'[p] = "recovered" => retry'[p] = "save" BY <1>0, <1>3
<1> HIDE DEF Passed, Waits
<1> QED BY <1>1, <1>2, <1>5, <1>7, <1>9, <1>10 DEF Knows

LEMMA KnowsNext ==
  ASSUME TypeInv, KnowsWhatItSaw, AllTold, Next
  PROVE  KnowsWhatItSaw'
<1>0. /\ known \in [Pages -> Nat] /\ seen \in [Pages -> SUBSET Nat]
      /\ fetch \in [Pages -> Fetches \union {NoFetch}]
      /\ status \in [Pages -> {"empty", "unsaved", "recovered", "saving", "loading", "saved",
                               "conflict", "error"}]
      /\ retry \in [Pages -> {"hidden", "save", "reload"}] /\ timer \in [Pages -> BOOLEAN]
  BY DEF TypeInv, KnownOK, FetchOK, ScreenOK
<1>1. Revision \in Nat /\ Revision' \in Nat /\ Revision <= Revision' BY RevisionGrows
<1>2. ASSUME NEW p \in Pages, Knows(p)', \A q \in Pages \ {p} : SameScreen(q)
      PROVE  KnowsWhatItSaw'
  BY <1>2, KnowsStill DEF KnowsWhatItSaw
<1>3. CASE UNCHANGED page
  BY <1>3, KnowsStill DEF KnowsWhatItSaw, SameScreen, page
<1>4. PICK p \in Pages : ServerStep(p) \/ PageStep(p) \/ UserStep(p) \/ FaultStep(p) BY DEF Next
<1>5. /\ Knows(p) /\ known[p] \in Nat /\ known[p] <= Revision
      /\ fetch[p].for \in {"none", "open", "select", "retry"}
      /\ fetch[p] = NoFetch <=> fetch[p].for = "none"
      /\ fetch[p] # NoFetch => fetch[p].known \in Nat /\ fetch[p].known <= Revision
  BY FetchTypes DEF KnowsWhatItSaw, TypeInv, KnownOK, FetchOK
<1>6. NoFetch.for = "none" BY DEF NoFetch
\* Nothing that was known is forgotten.
<1>7. ASSUME NEW v, v \in Nat, seen[p] \subseteq seen'[p], Passed(p, v)
      PROVE  v = 0 \/ v \in seen'[p] \/ v < Revision'
  BY <1>1, <1>7 DEF Passed
\* Steps of a page that is not waiting, or of a user who goes on from its draft.
<1>8. ASSUME status'[p] # "recovered", fetch'[p] = fetch[p] \/ fetch'[p] = NoFetch,
             \A q \in Pages \ {p} : SameScreen(q), seen[p] \subseteq seen'[p],
             Waits(p) => known[p] \in seen'[p],
             known'[p] = known[p] \/ known'[p] \in seen'[p]
      PROVE  KnowsWhatItSaw'
  <2>1. Passed(p, known[p])'
    <3>1. known[p] = 0 \/ known[p] \in seen'[p] \/ known[p] < Revision'
      BY <1>1, <1>5, <1>8 DEF Knows, Passed
    <3> QED BY <1>8, <3>1 DEF Passed
  <2>2. fetch'[p].for = "select" => Passed(p, fetch[p].known)'
    <3> SUFFICES ASSUME fetch[p].for = "select", fetch'[p] = fetch[p]
                 PROVE  Passed(p, fetch[p].known)'
      BY <1>6, <1>8
    <3>1. Passed(p, fetch[p].known) \/ (Waits(p) /\ fetch[p].known = known[p])
      BY <1>5 DEF Knows
    <3>2. fetch[p].known = 0 \/ fetch[p].known \in seen'[p] \/ fetch[p].known < Revision'
      BY <1>1, <1>5, <1>6, <1>8, <3>1 DEF Passed
    <3> QED BY <3>2 DEF Passed
  <2>3. Knows(p)' BY <1>5, <1>6, <1>8, <2>1, <2>2 DEF Knows
  <2> QED BY <1>2, <1>8, <2>3
<1>9. CASE ServerStep(p)
  <2>1. CASE AnswerFetch(p)
    <3>1. /\ fetch'[p].for = fetch[p].for /\ fetch'[p].known = fetch[p].known
          /\ fetch'[p].revision = Revision /\ fetch[p] # NoFetch
          /\ known' = known /\ seen' = seen /\ status' = status /\ retry' = retry
          /\ UNCHANGED <<timer, flight, versions>>
          /\ \A q \in Pages \ {p} : SameScreen(q)
      BY <1>0, <2>1 DEF AnswerFetch, Fetching, SameScreen
    <3>2. Waits(p) => Waits(p)' BY <3>1 DEF Waits, Editing
    <3>3. Passed(p, known[p]) => Passed(p, known[p])' BY <1>1, <1>5, <3>1 DEF Passed
    <3>4. Passed(p, fetch[p].known) => Passed(p, fetch[p].known)'
      BY <1>1, <1>5, <3>1 DEF Passed
    <3>5. Knows(p)'
      <4> HIDE DEF Passed, Waits
      <4> QED BY <1>5, <3>1, <3>2, <3>3, <3>4 DEF Knows
    <3> QED BY <1>2, <3>1, <3>5
  <2>2. CASE UNCHANGED page BY <1>3, <2>2
  <2> QED BY <1>9, <2>1, <2>2 DEF ServerStep, CheckNote, WriteNote, ReadBack
<1>10. CASE PageStep(p)
  <2>1. CASE TimerFires(p)
    <3>1. /\ status' = [status EXCEPT ![p] = "saving"] /\ timer' = [timer EXCEPT ![p] = FALSE]
          /\ UNCHANGED <<known, seen, fetch, retry>> /\ timer[p]
      BY <2>1 DEF TimerFires, Save
    <3>2. status'[p] = "saving" /\ \A q \in Pages \ {p} : SameScreen(q)
      BY <1>0, <3>1 DEF SameScreen
    <3>3. ~Waits(p) BY <3>1 DEF Waits, Editing
    <3> QED BY <1>8, <3>1, <3>2, <3>3
  <2>2. CASE PageLoaded(p) BY <1>2, <2>2, KnowsLoaded
  <2>3. CASE PdfLoaded(p)
    <3>1. /\ fetch'[p] = NoFetch
          /\ UNCHANGED <<known, seen, status, retry, timer, flight, versions>>
          /\ \A q \in Pages \ {p} : SameScreen(q)
      BY <1>0, <2>3 DEF PdfLoaded, SameScreen
    <3>2. Waits(p) => Waits(p)' BY <3>1 DEF Waits, Editing
    <3>3. Passed(p, known[p]) => Passed(p, known[p])' BY <1>1, <1>5, <3>1 DEF Passed
    <3>4. Knows(p)'
      <4> HIDE DEF Passed, Waits
      <4> QED BY <1>5, <1>6, <3>1, <3>2, <3>3 DEF Knows
    <3> QED BY <1>2, <3>1, <3>4
  <2>4. CASE RetryLoaded(p)
    <3>1. /\ fetch' = [fetch EXCEPT ![p] = NoFetch]
          /\ known' = [known EXCEPT ![p] = fetch[p].revision]
          /\ seen' = [seen EXCEPT ![p] = @ \union {fetch[p].revision}]
          /\ status' = [status EXCEPT ![p] = "saving"] /\ UNCHANGED <<retry, timer>>
          /\ fetch[p].for = "retry"
      BY <2>4 DEF RetryLoaded, Save
    <3>2. /\ known'[p] \in seen'[p] /\ seen[p] \subseteq seen'[p] /\ status'[p] = "saving"
          /\ fetch'[p] = NoFetch /\ \A q \in Pages \ {p} : SameScreen(q)
      BY <1>0, <3>1 DEF SameScreen
    <3>3. ~Waits(p) BY <1>5, <3>1 DEF Waits, Knows
    <3> QED BY <1>8, <3>2, <3>3
  <2>5. ASSUME NEW i \in DOMAIN flight[p], Saved(p, i) PROVE KnowsWhatItSaw'
    <3>1. /\ UNCHANGED <<fetch, timer>> /\ flight[p][i].answer = "ok" /\ flight[p][i].live
          /\ known' = [known EXCEPT ![p] = flight[p][i].revision]
          /\ seen' = [seen EXCEPT ![p] =
               IF versions[flight[p][i].revision] = flight[p][i].text
                 THEN @ \union {flight[p][i].revision} ELSE @]
          /\ status' = [status EXCEPT ![p] = "saved"]
          /\ retry' = [retry EXCEPT ![p] = "hidden"]
      BY <2>5 DEF Saved, Hear
    <3>2. versions[flight[p][i].revision] = flight[p][i].text BY <3>1 DEF AllTold, Told
    <3>3. /\ known'[p] \in seen'[p] /\ seen[p] \subseteq seen'[p] /\ status'[p] = "saved"
          /\ \A q \in Pages \ {p} : SameScreen(q)
      BY <1>0, <3>1, <3>2 DEF SameScreen
    <3>4. ~Waits(p) BY <3>1 DEF Waits, Editing
    <3> QED BY <1>8, <3>1, <3>3, <3>4
  <2>6. ASSUME NEW i \in DOMAIN flight[p], NotSaved(p, i) PROVE KnowsWhatItSaw'
    <3>1. /\ UNCHANGED <<known, seen, fetch, timer>> /\ flight[p][i].live
          /\ \/ status' = [status EXCEPT ![p] = "conflict"] /\ retry' = [retry EXCEPT ![p] = "reload"]
             \/ status' = [status EXCEPT ![p] = "error"] /\ retry' = [retry EXCEPT ![p] = "save"]
      BY <2>6 DEF NotSaved, Hear
    <3>2. /\ status'[p] \in {"conflict", "error"} /\ \A q \in Pages \ {p} : SameScreen(q)
      BY <1>0, <3>1 DEF SameScreen
    <3>3. ~Waits(p) BY <3>1 DEF Waits, Editing
    <3> QED BY <1>8, <3>1, <3>2, <3>3
  <2>7. ASSUME NEW i \in DOMAIN flight[p], Unheard(p, i) PROVE KnowsWhatItSaw'
    BY <1>3, <2>7 DEF Unheard
  <2> QED BY <1>10, <2>1, <2>2, <2>3, <2>4, <2>5, <2>6, <2>7 DEF PageStep
<1>11. CASE UserStep(p)
  \* A fetch that starts remembers the revision known.
  <2>1. CASE Open(p) \/ LoadPage(p) \/ RetryReload(p)
    <3>1. PICK for : Fetch(p, for) BY <2>1 DEF Open, LoadPage, RetryReload
    <3>2. /\ fetch'[p].for = for /\ fetch'[p].known = known[p] /\ fetch'[p].phase = "sent"
          /\ \A q \in Pages \ {p} : fetch'[q] = fetch[q]
      BY <1>0, <3>1 DEF Fetch
    <3>3. UNCHANGED <<known, seen, retry, timer, flight, versions>>
      BY <2>1 DEF Open, LoadPage, RetryReload
    <3>4. \/ UNCHANGED status /\ for # "retry"
          \/ status' = [status EXCEPT ![p] = "loading"] /\ retry[p] = "reload"
      <4>1. CASE Open(p)
        <5>1. Fetch(p, "open") /\ UNCHANGED status BY <4>1 DEF Open
        <5>2. fetch'[p].for = "open" BY <1>0, <5>1 DEF Fetch
        <5> QED BY <3>2, <5>1, <5>2
      <4>2. CASE LoadPage(p)
        <5>1. (Fetch(p, "open") \/ Fetch(p, "select")) /\ UNCHANGED status BY <4>2 DEF LoadPage
        <5>2. fetch'[p].for \in {"open", "select"} BY <1>0, <5>1 DEF Fetch
        <5> QED BY <3>2, <5>1, <5>2
      <4>3. CASE RetryReload(p) BY <4>3 DEF RetryReload
      <4> QED BY <2>1, <4>1, <4>2, <4>3
    <3>5. \A q \in Pages \ {p} : SameScreen(q) BY <1>0, <3>2, <3>3, <3>4 DEF SameScreen
    <3>6. Waits(p) => Waits(p)' BY <1>5, <3>3, <3>4 DEF Waits, Editing, Knows
    <3>7. Passed(p, known[p]) => Passed(p, known[p])' BY <1>1, <1>5, <3>3 DEF Passed
    <3>8. Passed(p, fetch[p].known)' <=> Passed(p, known[p])' BY <3>2, <3>3 DEF Passed
    <3>9. /\ status'[p] = "recovered" => retry'[p] = "save" /\ for # "retry"
          /\ known' = known
      BY <1>0, <1>5, <3>3, <3>4 DEF Knows
    <3>10. Knows(p)'
      <4>1. Passed(p, known[p])' \/ Waits(p)' BY <1>5, <3>6, <3>7 DEF Knows
      <4> HIDE DEF Passed, Waits
      <4> QED BY <3>2, <3>8, <3>9, <4>1 DEF Knows
    <3> QED BY <1>2, <3>5, <3>10
  <2>2. CASE Close(p)
    <3>1. /\ known'[p] = 0 /\ fetch'[p] = NoFetch /\ status'[p] = "empty"
          /\ \A q \in Pages \ {p} : SameScreen(q)
      BY <1>0, <2>2 DEF Close, SameScreen
    <3>2. Knows(p)' BY <1>6, <3>1 DEF Knows, Passed
    <3> QED BY <1>2, <3>1, <3>2
  <2>3. CASE Type(p) \/ RetrySave(p)
    <3>1. /\ UNCHANGED <<known, fetch>> /\ GoesOn(p)
          /\ \A q \in Pages \ {p} :
               status'[q] = status[q] /\ retry'[q] = retry[q] /\ timer'[q] = timer[q]
          /\ status'[p] \in {"unsaved", "saving"}
      BY <1>0, <2>3 DEF Type, RetrySave, Save
    <3>2. /\ seen[p] \subseteq seen'[p] /\ (Waits(p) => known[p] \in seen'[p])
          /\ \A q \in Pages \ {p} : seen'[q] = seen[q]
      BY <1>0, <3>1 DEF GoesOn, Waits
    <3>3. \A q \in Pages \ {p} : SameScreen(q) BY <3>1, <3>2 DEF SameScreen
    <3> QED BY <1>8, <3>1, <3>2, <3>3
  <2> QED BY <1>11, <2>1, <2>2, <2>3 DEF UserStep
<1>12. CASE FaultStep(p)
  <2>1. CASE LoadFails(p)
    <3>1. /\ fetch[p] # NoFetch /\ UNCHANGED <<seen, status, retry, timer, flight, versions>>
          /\ \/ fetch'[p] = NoFetch /\ UNCHANGED known
             \/ /\ fetch[p].for = "select" /\ fetch'[p].for = "select" /\ fetch'[p].phase = "sent"
                /\ fetch'[p].known = fetch[p].known /\ UNCHANGED known
             \/ /\ fetch[p].for = "select" /\ fetch'[p] = NoFetch
                /\ known' = [known EXCEPT ![p] = fetch[p].known]
          /\ \A q \in Pages \ {p} : fetch'[q] = fetch[q]
      BY <1>0, <1>6, <2>1 DEF LoadFails, Loading
    <3>2. \A q \in Pages \ {p} : SameScreen(q) BY <1>0, <3>1 DEF SameScreen
    <3>3. Waits(p) => Waits(p)' BY <3>1 DEF Waits, Editing
    <3>4. Revision' = Revision BY <3>1, SameRevision
    <3>5. known'[p] = known[p] \/ (fetch[p].for = "select" /\ known'[p] = fetch[p].known)
      <4>1. known \in [Pages -> Nat] BY <1>0
      <4>2. UNCHANGED known \/ (/\ fetch[p].for = "select"
                                /\ known' = [known EXCEPT ![p] = fetch[p].known])
        BY <3>1
      <4> QED BY <4>1, <4>2
    <3>6. Passed(p, known[p])' \/ Waits(p)' BY <1>5, <3>1, <3>3, <3>4, <3>5 DEF Knows, Passed
    <3>7. fetch'[p].for = "select" =>
            /\ Passed(p, fetch[p].known)' \/ (Waits(p)' /\ fetch'[p].known = known'[p])
            /\ fetch'[p].phase = "sent"
      BY <1>5, <1>6, <3>1, <3>3, <3>4 DEF Knows, Passed
    <3>8. Knows(p)'
      <4>1. fetch'[p].for \in {"none", "select"} BY <1>6, <3>1
      <4> HIDE DEF Passed, Waits
      <4> QED BY <1>5, <3>1, <3>6, <3>7, <4>1 DEF Knows
    <3> QED BY <1>2, <3>2, <3>8
  <2>2. CASE RetryFails(p)
    <3>1. /\ status' = [status EXCEPT ![p] = "error"] /\ fetch' = [fetch EXCEPT ![p] = NoFetch]
          /\ UNCHANGED <<known, seen, retry, timer>> /\ fetch[p].for = "retry"
      BY <2>2 DEF RetryFails
    <3>2. /\ status'[p] = "error" /\ fetch'[p] = NoFetch /\ \A q \in Pages \ {p} : SameScreen(q)
      BY <1>0, <3>1 DEF SameScreen
    <3>3. ~Waits(p) BY <1>5, <3>1 DEF Waits, Knows
    <3> QED BY <1>8, <3>1, <3>2, <3>3
  <2>3. ASSUME NEW i \in DOMAIN flight[p], Lose(p, i) PROVE KnowsWhatItSaw'
    BY <1>3, <2>3 DEF Lose
  <2> QED BY <1>12, <2>1, <2>2, <2>3 DEF FaultStep
<1> QED BY <1>4, <1>9, <1>10, <1>11, <1>12

\* A body stays what it was, and the last one is the one written last.
LEMMA ToldNext ==
  ASSUME PromptReadBack, TypeInv, BlindInv, Next
  PROVE  AllTold'
<1>1. KnowsWhatItSaw' BY KnowsNext DEF BlindInv
<1> SUFFICES ASSUME NEW q \in Pages, NEW j \in DOMAIN flight'[q],
                    NEW r, r = flight'[q][j]
             PROVE  /\ r.base = 0 \/ r.base \in r.seen \/ r.base < Revision'
                    /\ r.phase = "written" => Revision' # 0 /\ versions'[Revision'] = r.text
                    /\ r.answer = "ok" =>
                         r.revision \in 1..Revision' /\ versions'[r.revision] = r.text
  BY DEF AllTold, Told
<1>2. CASE Sent(q, r)
  <2>1. Passed(q, known[q])' BY <1>1, <1>2 DEF Sent, KnowsWhatItSaw, Knows, Waits
  <2> QED BY <1>2, <2>1 DEF Sent, Passed
<1>3. ASSUME NEW k \in DOMAIN flight[q], NEW s, s = flight[q][k], Moved(s, r)
      PROVE  /\ r.base = 0 \/ r.base \in r.seen \/ r.base < Revision'
             /\ r.phase = "written" => Revision' # 0 /\ versions'[Revision'] = r.text
             /\ r.answer = "ok" => r.revision \in 1..Revision' /\ versions'[r.revision] = r.text
  <2>1. Told(s) /\ s.text \in Texts /\ s.revision \in Nat
    BY <1>3, RequestTypes DEF BlindInv, AllTold, TypeInv
  <2>2. CASE UNCHANGED versions /\ versions' # Append(versions, r.text)
    <3>1. Revision' = Revision /\ Revision \in Nat
      BY <2>2, SameRevision, RevisionTypes DEF TypeInv
    <3>2. CASE s.phase = "written" /\ r.phase = "replied" /\ r.revision = Revision
      BY <1>3, <2>1, <2>2, <3>1, <3>2 DEF Told, Moved
    <3>3. CASE r.phase # "written" /\ r.answer \in {"conflict", "error"}
      BY <1>3, <2>1, <3>1, <3>3 DEF Told, Moved
    <3>4. CASE /\ r.phase = "written" => s.phase = "written"
               /\ r.answer = s.answer /\ r.revision = s.revision
      BY <1>3, <2>1, <2>2, <3>1, <3>4 DEF Told, Moved
    <3> QED BY <1>3, <2>2, <3>2, <3>3, <3>4 DEF Moved
  <2>3. ASSUME NEW t \in Texts, versions' = Append(versions, t),
               s.phase # "written"
        PROVE  /\ r.base = 0 \/ r.base \in r.seen \/ r.base < Revision'
               /\ r.phase = "written" => Revision' # 0 /\ versions'[Revision'] = r.text
               /\ r.answer = "ok" => r.revision \in 1..Revision' /\ versions'[r.revision] = r.text
    <3>1. /\ Revision' = Revision + 1 /\ Revision \in Nat /\ versions'[Revision'] = t
          /\ \A v \in 1..Revision : versions'[v] = versions[v]
      BY <2>3, Grown DEF TypeInv
    <3>2. r.phase = "written" => Revision' # 0 /\ versions'[Revision'] = r.text
      <4> SUFFICES ASSUME r.phase = "written" PROVE versions'[Revision'] = r.text
        BY <3>1
      <4>1. versions' = Append(versions, r.text) /\ r.text \in Texts
        BY <1>3, <2>1, <2>3 DEF Moved
      <4> QED BY <4>1, Grown DEF TypeInv
    <3>3. r.answer = "ok" => s.answer = "ok" /\ r.revision = s.revision
      BY <1>3, <2>3 DEF Moved
    <3>4. r.base = 0 \/ r.base \in r.seen \/ r.base < Revision'
      <4>1. r.base = s.base /\ r.seen = s.seen /\ s.base \in Nat
        BY <1>3, RequestTypes DEF Moved, TypeInv, Requests
      <4> QED BY <2>1, <3>1, <4>1 DEF Told
    <3>5. r.answer = "ok" => r.revision \in 1..Revision' /\ versions'[r.revision] = r.text
      <4> SUFFICES ASSUME r.answer = "ok"
                   PROVE  r.revision \in 1..Revision' /\ versions'[r.revision] = r.text
        OBVIOUS
      <4>1. r.text = s.text BY <1>3 DEF Moved
      <4>2. s.revision \in 1..Revision /\ versions[s.revision] = s.text
        BY <2>1, <3>3 DEF Told
      <4> QED BY <3>1, <3>3, <4>1, <4>2
    <3> QED BY <3>2, <3>4, <3>5
  <2>4. \/ UNCHANGED versions
        \/ \E t \in Texts : versions' = Append(versions, t) /\ s.phase # "written"
    <3>1. ASSUME NEW p \in Pages, NEW i \in DOMAIN flight[p],
                 WriteNote(p, i), versions' = Append(versions, flight[p][i].text)
          PROVE  \E t \in Texts : versions' = Append(versions, t) /\ s.phase # "written"
      <4>1. s.phase # "written" BY <1>3, <3>1 DEF WriteNote
      <4>2. flight[p][i].text \in Texts BY RequestTypes DEF TypeInv
      <4> QED BY <3>1, <4>1, <4>2
    <3> QED BY <3>1, OnlyWrites
  <2>5. UNCHANGED versions => versions' # Append(versions, r.text)
    <3> SUFFICES ASSUME UNCHANGED versions, versions' = Append(versions, r.text) PROVE FALSE
      OBVIOUS
    <3>1. r.text \in Texts BY <1>3, <2>1 DEF Moved
    <3>2. Revision' = Revision + 1 /\ Revision \in Nat BY <3>1, Grown DEF TypeInv
    <3> QED BY <3>2, SameRevision
  <2> QED BY <2>2, <2>3, <2>4, <2>5
<1> QED BY <1>2, <1>3, NextFollows DEF Follows

LEMMA BlindNext ==
  ASSUME PromptReadBack, TypeInv, BlindInv, Next
  PROVE  ~blind'
<1>1. CASE UNCHANGED blind BY <1>1 DEF BlindInv
<1>2. ASSUME NEW p \in Pages, NEW i \in DOMAIN flight[p], WriteNote(p, i)
      PROVE  ~blind'
  <2> DEFINE r == flight[p][i]
  <2>1. Told(r) BY DEF BlindInv, AllTold
  <2>2. CASE UNCHANGED blind BY <2>2 DEF BlindInv
  <2>3. CASE /\ IF r.found THEN RevisionMatches(r.base) ELSE Revision = 0
             /\ blind' = (blind \/ (Revision # 0 /\ Revision \notin r.seen))
    <3>1. Revision \in Nat BY RevisionTypes DEF TypeInv
    <3>2. r.found => r.base = Revision BY <2>3 DEF RevisionMatches
    <3>3. ~r.found => Revision = 0 BY <2>3
    <3>4. r.base = 0 \/ r.base \in r.seen \/ r.base < Revision BY <2>1 DEF Told
    <3> HIDE DEF r
    <3>5. Revision = 0 \/ Revision \in r.seen BY <3>1, <3>2, <3>3, <3>4
    <3> QED BY <2>3, <3>5 DEF BlindInv
  <2> QED BY <1>2, <2>2, <2>3 DEF WriteNote
<1> QED BY <1>1, <1>2, OnlyWrites

LEMMA BlindInit == Init => BlindInv
<1> SUFFICES ASSUME Init PROVE BlindInv OBVIOUS
<1>1. \A p \in Pages : known[p] = 0 /\ fetch[p] = NoFetch /\ status[p] = "empty" BY DEF Init
<1>2. NoFetch.for = "none" BY DEF NoFetch
<1>3. KnowsWhatItSaw BY <1>1, <1>2 DEF KnowsWhatItSaw, Knows, Passed
<1>4. \A p \in Pages : DOMAIN flight[p] = {} BY DEF Init
<1> QED BY <1>3, <1>4 DEF BlindInv, AllTold, Init

LEMMA BlindStep ==
  ASSUME PromptReadBack, TypeInv, BlindInv, [Next]_vars
  PROVE  BlindInv'
<1>1. CASE Next BY <1>1, KnowsNext, ToldNext, BlindNext DEF BlindInv
<1>2. CASE UNCHANGED vars
  <2>1. UNCHANGED <<versions, blind, known, seen, status, retry, timer, fetch, flight>>
    BY <1>2 DEF vars, page
  <2>2. Revision' = Revision BY <2>1, SameRevision
  <2>3. KnowsWhatItSaw'
    BY <2>1, <2>2 DEF BlindInv, KnowsWhatItSaw, Knows, Passed, Waits, Editing
  <2>4. AllTold' BY <2>1, <2>2 DEF BlindInv, AllTold, Told
  <2> QED BY <2>1, <2>3, <2>4 DEF BlindInv
<1> QED BY <1>1, <1>2

\* If nothing is written between a write and its read-back, no save replaces a
\* body that its page had not shown, unless its user went on from a recovered
\* draft or from a conflict, or was editing when the page was loaded; the last is
\* no case where loads are quiet (NoLoadMeetsAnEdit).
THEOREM NoSaveIsBlind ==
  ASSUME PromptReadBack
  PROVE  Spec => []NoBlindOverwrite
<1>1. Init => BlindInv BY BlindInit
<1>2. TypeInv /\ BlindInv /\ [Next]_vars => BlindInv' BY BlindStep
<1>3. BlindInv => NoBlindOverwrite BY DEF BlindInv, NoBlindOverwrite
<1> QED BY TypeInit, TypeNext, <1>1, <1>2, <1>3, PTL DEF Spec

-----------------------------------------------------------------------------
(* What a page calls saved.                                                *)

\* The requests whose answers page p will hear.
Live(p) == {i \in DOMAIN flight[p] : flight[p][i].live}

\* A page with nothing under way that says "Saved" shows the revision it knows.
Settled(p) ==
  open[p] /\ status[p] = "saved" /\ ~timer[p] /\ Live(p) = {} =>
    known[p] # 0 /\ text[p] = versions[known[p]]

\* Unless a save is due, the last request carries the present text.
LastLive(p) ==
  ~timer[p] =>
    \A i \in Live(p) : (\A j \in Live(p) : j <= i) => flight[p][i].text = text[p]

\* Nothing is under way in a page that loads, and until what it loads is shown
\* it shows what it would go back to.
Quiet(p) ==
  Loading(p) =>
    /\ ~timer[p] /\ Live(p) = {}
    /\ status[p] = "saved" => text[p] = fetch[p].text /\ known[p] = fetch[p].known

\* Nothing goes on in a page that is closed.
Shut(p) == ~open[p] => Live(p) = {} /\ ~timer[p] /\ status[p] = "empty" /\ fetch[p] = NoFetch

PageInv(p) == Settled(p) /\ LastLive(p) /\ Quiet(p) /\ Shut(p)

SaveInv == \A p \in Pages : PageInv(p)

SamePage(q) ==
  /\ open'[q] = open[q] /\ text'[q] = text[q] /\ known'[q] = known[q]
  /\ status'[q] = status[q] /\ timer'[q] = timer[q] /\ fetch'[q] = fetch[q]

SameLive(q) ==
  /\ DOMAIN flight'[q] = DOMAIN flight[q]
  /\ \A j \in DOMAIN flight[q] : /\ flight'[q][j].live = flight[q][j].live
                                 /\ flight'[q][j].text = flight[q][j].text

LEMMA SameLiveSet ==
  ASSUME NEW q \in Pages, SameLive(q)
  PROVE  /\ Live(q)' = Live(q)
         /\ \A j \in Live(q) : flight'[q][j].text = flight[q][j].text
BY DEF SameLive, Live

\* The bodies of the note stay what they are.
LEMMA Bodies ==
  ASSUME TypeInv, Next
  PROVE  \A p \in Pages : known[p] # 0 => versions'[known[p]] = versions[known[p]]
<1>1. CASE UNCHANGED versions BY <1>1
<1>2. ASSUME NEW p \in Pages, NEW i \in DOMAIN flight[p],
             versions' = Append(versions, flight[p][i].text)
      PROVE  \A v \in 1..Revision : versions'[v] = versions[v]
  BY <1>2, Grown, RequestTypes DEF TypeInv
<1>3. \A p \in Pages : known[p] \in Nat /\ known[p] <= Revision BY DEF TypeInv, KnownOK
<1>4. Revision \in Nat BY RevisionTypes DEF TypeInv
<1> QED BY <1>1, <1>2, <1>3, <1>4, OnlyWrites

LEMMA Elsewhere ==
  ASSUME TypeInv, Next, NEW q \in Pages, PageInv(q), SamePage(q), SameLive(q)
  PROVE  PageInv(q)'
<1>1. Live(q)' = Live(q) /\ \A j \in Live(q) : flight'[q][j].text = flight[q][j].text
  BY SameLiveSet
<1>2. known[q] # 0 => versions'[known[q]] = versions[known[q]] BY Bodies
<1>3. Settled(q)' BY <1>1, <1>2 DEF PageInv, Settled, SamePage
<1>4. LastLive(q)' BY <1>1 DEF PageInv, LastLive, SamePage
<1>5. Quiet(q)' BY <1>1 DEF PageInv, Quiet, Loading, SamePage
<1>6. Shut(q)' BY <1>1 DEF PageInv, Shut, SamePage
<1> QED BY <1>3, <1>4, <1>5, <1>6 DEF PageInv

\* The server leaves the pages alone.
LEMMA Answered ==
  ASSUME TypeInv, NEW p \in Pages, NEW i \in DOMAIN flight[p],
         CheckNote(p, i) \/ WriteNote(p, i) \/ ReadBack(p, i) \/ Lose(p, i)
  PROVE  UNCHANGED page /\ \A q \in Pages : SameLive(q)
<1> DEFINE s == flight[p][i]
<1>0. s \in Requests BY RequestTypes DEF TypeInv
<1>1. UNCHANGED page BY DEF CheckNote, WriteNote, ReadBack, Lose
<1>2. ASSUME NEW r \in Requests, Advance(p, i, r), r.live = s.live, r.text = s.text
      PROVE  \A q \in Pages : SameLive(q)
  <2>1. /\ \A q \in Pages : DOMAIN flight'[q] = DOMAIN flight[q]
        /\ \A q \in Pages : \A j \in DOMAIN flight[q] :
             flight'[q][j] = IF q = p /\ j = i THEN r ELSE flight[q][j]
    BY <1>2, Advanced DEF TypeInv
  <2> QED BY <1>2, <2>1 DEF SameLive
<1>3. ASSUME NEW answer \in {"conflict", "error"}, Reply(p, i, answer)
      PROVE  \A q \in Pages : SameLive(q)
  <2>1. PICK r : r = [s EXCEPT !.phase = "replied", !.answer = answer] OBVIOUS
  <2>2. r \in Requests /\ r.live = s.live /\ r.text = s.text BY <1>0, <2>1 DEF Requests
  <2>3. Advance(p, i, r) BY <1>3, <2>1 DEF Reply
  <2> QED BY <1>2, <2>2, <2>3
<1>4. ASSUME Advance(p, i, [s EXCEPT !.phase = "checked", !.found = Revision # 0])
      PROVE  \A q \in Pages : SameLive(q)
  <2>1. PICK r : r = [s EXCEPT !.phase = "checked", !.found = Revision # 0] OBVIOUS
  <2>2. r \in Requests /\ r.live = s.live /\ r.text = s.text BY <1>0, <2>1 DEF Requests
  <2> QED BY <1>2, <1>4, <2>1, <2>2
<1>5. ASSUME Advance(p, i, [s EXCEPT !.phase = "written"])
      PROVE  \A q \in Pages : SameLive(q)
  <2>1. PICK r : r = [s EXCEPT !.phase = "written"] OBVIOUS
  <2>2. r \in Requests /\ r.live = s.live /\ r.text = s.text BY <1>0, <2>1 DEF Requests
  <2> QED BY <1>2, <1>5, <2>1, <2>2
<1>6. ASSUME Advance(p, i, [s EXCEPT !.phase = "replied", !.answer = "ok",
                                     !.revision = AnswerRevision])
      PROVE  \A q \in Pages : SameLive(q)
  <2>1. PICK r : r = [s EXCEPT !.phase = "replied", !.answer = "ok",
                               !.revision = AnswerRevision]
    OBVIOUS
  <2>2. r \in Requests /\ r.live = s.live /\ r.text = s.text
    BY <1>0, <2>1, RevisionTypes DEF Requests, AnswerRevision, TypeInv
  <2> QED BY <1>2, <1>6, <2>1, <2>2
<1>7. CASE CheckNote(p, i) BY <1>1, <1>3, <1>4, <1>7 DEF CheckNote
<1>8. CASE WriteNote(p, i) BY <1>1, <1>3, <1>5, <1>8 DEF WriteNote, Refused
<1>9. CASE ReadBack(p, i) BY <1>1, <1>6, <1>9 DEF ReadBack
<1>10. CASE Lose(p, i) BY <1>1, <1>3, <1>10 DEF Lose
<1> QED BY <1>7, <1>8, <1>9, <1>10

\* What a page waits for after an answer is heard, or thrown away.
LEMMA RemovedLive ==
  ASSUME TypeInv, NEW p \in Pages, NEW i \in DOMAIN flight[p],
         flight' = [flight EXCEPT ![p] = RemoveAt(@, i)],
         flight[p][i].live => \A j \in 1..(i - 1) : ~flight[p][j].live,
         LastLive(p), text'[p] = text[p], timer'[p] = timer[p]
  PROVE  /\ LastLive(p)'
         /\ Live(p)' = {} => Live(p) \subseteq {i}
         /\ Live(p) = {} => Live(p)' = {}
<1>1. /\ flight'[p] \in Seq(Requests)
      /\ \A j \in DOMAIN flight'[p] :
           /\ j < i => j \in DOMAIN flight[p] /\ flight'[p][j] = flight[p][j]
           /\ j >= i => j + 1 \in DOMAIN flight[p] /\ flight'[p][j] = flight[p][j + 1]
      /\ \A j \in DOMAIN flight[p] :
           /\ j < i => j \in DOMAIN flight'[p]
           /\ j > i => j - 1 \in DOMAIN flight'[p]
  BY Removed DEF TypeInv
<1>2. /\ \A j \in DOMAIN flight[p] : j \in Nat /\ j >= 1
      /\ \A j \in DOMAIN flight'[p] : j \in Nat /\ j >= 1
      /\ i \in Nat
  BY <1>1 DEF TypeInv, FlightOK
<1>3. \A j \in Live(p)' :
        \/ j < i /\ j \in Live(p) /\ flight'[p][j] = flight[p][j]
        \/ j >= i /\ j + 1 \in Live(p) /\ flight'[p][j] = flight[p][j + 1]
  BY <1>1, <1>2 DEF Live
<1>4. \A m \in Live(p) : (m < i => m \in Live(p)') /\ (m > i => m - 1 \in Live(p)')
  <2> TAKE m \in Live(p)
  <2>0. m \in DOMAIN flight[p] /\ flight[p][m].live /\ m \in Nat BY <1>2 DEF Live
  <2>1. CASE m < i BY <1>1, <1>2, <2>0, <2>1 DEF Live
  <2>2. CASE m > i
    <3>1. m - 1 \in DOMAIN flight'[p] /\ m - 1 >= i BY <1>1, <1>2, <2>0, <2>2
    <3>2. flight'[p][m - 1] = flight[p][(m - 1) + 1] BY <1>1, <3>1
    <3>3. (m - 1) + 1 = m BY <2>0
    <3>4. m - 1 \in Live(p)' BY <2>0, <3>1, <3>2, <3>3 DEF Live
    <3>5. ~(m < i) BY <1>2, <2>0, <2>2
    <3> QED BY <3>4, <3>5
  <2> QED BY <1>2, <2>0, <2>1, <2>2
<1>5. \A m \in Live(p) : m \in Nat /\ (m < i => ~flight[p][i].live)
  <2> TAKE m \in Live(p)
  <2>1. m \in Nat /\ m >= 1 /\ flight[p][m].live BY <1>2 DEF Live
  <2>2. m < i => m \in 1..(i - 1) BY <1>2, <2>1
  <2> QED BY <2>1, <2>2
<1>6. LastLive(p)'
  <2> SUFFICES ASSUME ~timer[p], NEW j \in Live(p)', \A m \in Live(p)' : m <= j
               PROVE  flight'[p][j].text = text[p]
    BY DEF LastLive
  <2>0. j \in Nat BY <1>2 DEF Live
  <2>1. CASE j < i /\ j \in Live(p) /\ flight'[p][j] = flight[p][j]
    <3>1. \A m \in Live(p) : m <= j
      <4> TAKE m \in Live(p)
      <4>1. m # i BY <1>5, <2>1 DEF Live
      <4>2. m < i => m <= j BY <1>4
      <4>3. m > i => m - 1 <= j BY <1>4
      <4>4. m \in Nat /\ i \in Nat BY <1>2, <1>5
      <4>5. m < i \/ m > i BY <4>1, <4>4
      <4>6. m > i => m - 1 >= i BY <4>4
      <4> QED BY <2>0, <2>1, <4>2, <4>3, <4>4, <4>5, <4>6
    <3> QED BY <2>1, <3>1 DEF LastLive
  <2>2. CASE j >= i /\ j + 1 \in Live(p) /\ flight'[p][j] = flight[p][j + 1]
    <3>1. \A m \in Live(p) : m <= j + 1
      <4> TAKE m \in Live(p)
      <4>1. m > i => m - 1 <= j BY <1>4
      <4> QED BY <1>2, <1>5, <2>0, <2>2, <4>1
    <3> QED BY <2>2, <3>1 DEF LastLive
  <2> QED BY <1>3, <2>1, <2>2
<1>7. Live(p)' = {} => Live(p) \subseteq {i}
  <2> SUFFICES ASSUME Live(p)' = {}, NEW m \in Live(p), m # i PROVE FALSE OBVIOUS
  <2> QED BY <1>2, <1>4, <1>5
<1>8. Live(p) = {} => Live(p)' = {} BY <1>3
<1> QED BY <1>6, <1>7, <1>8

\* A page that sends a save says so, and the save carries the present text.
LEMMA SaveKeeps ==
  ASSUME TypeInv, NEW p \in Pages, NEW base \in Nat, NEW basis \in SUBSET Nat,
         Save(p, base, basis), UNCHANGED <<versions, open, text>>,
         open[p], fetch'[p].for \notin {"open", "select"}
  PROVE  PageInv(p)' /\ \A q \in Pages \ {p} : SameLive(q) /\ status'[q] = status[q]
<1> DEFINE n == Len(flight[p]) + 1
<1>1. /\ status' = [status EXCEPT ![p] = "saving"]
      /\ \A q \in Pages \ {p} : flight'[q] = flight[q]
      /\ DOMAIN flight'[p] = DOMAIN flight[p] \union {n}
      /\ \A j \in DOMAIN flight[p] : j < n
      /\ flight'[p][n].text = text[p] /\ flight'[p][n].live
  BY SaveTypes
<1>2. status'[p] = "saving" /\ \A q \in Pages \ {p} : status'[q] = status[q]
  BY <1>1 DEF TypeInv, ScreenOK
<1>3. n \in Nat /\ \A j \in DOMAIN flight[p] : j \in Nat BY DEF TypeInv, FlightOK
<1>4. LastLive(p)'
  <2> SUFFICES ASSUME NEW i \in Live(p)', \A j \in Live(p)' : j <= i
               PROVE  flight'[p][i].text = text[p]
    BY DEF LastLive
  <2>1. n \in Live(p)' BY <1>1 DEF Live
  <2>2. i \in DOMAIN flight'[p] /\ n <= i BY <2>1 DEF Live
  <2> HIDE DEF n
  <2>3. i = n BY <1>1, <1>3, <2>2
  <2> QED BY <1>1, <2>3
<1>5. Settled(p)' /\ Quiet(p)' /\ Shut(p)'
  BY <1>2 DEF Settled, Quiet, Shut, Loading
<1> QED BY <1>1, <1>2, <1>4, <1>5 DEF PageInv, SameLive

LEMMA SaveServer ==
  ASSUME TypeInv, SaveInv, Next, NEW p \in Pages, ServerStep(p)
  PROVE  SaveInv'
<1>1. CASE AnswerFetch(p)
  <2>1. /\ fetch[p] # NoFetch /\ fetch'[p].for = fetch[p].for
        /\ fetch'[p].text = fetch[p].text /\ fetch'[p].known = fetch[p].known
        /\ \A q \in Pages \ {p} : fetch'[q] = fetch[q]
        /\ UNCHANGED <<versions, open, text, known, status, timer, flight>>
    BY <1>1 DEF AnswerFetch, Fetching, TypeInv, FetchOK
  <2>2. \A q \in Pages : Live(q)' = Live(q) BY <2>1 DEF Live
  <2>3. PageInv(p)'
    <3>1. PageInv(p) BY DEF SaveInv
    <3>2. Settled(p)' /\ LastLive(p)' BY <2>1, <2>2, <3>1 DEF PageInv, Settled, LastLive
    <3>3. Quiet(p)' BY <2>1, <2>2, <3>1 DEF PageInv, Quiet, Loading
    <3>4. Shut(p)' BY <2>1, <2>2, <3>1 DEF PageInv, Shut
    <3> QED BY <3>2, <3>3, <3>4 DEF PageInv
  <2>4. \A q \in Pages \ {p} : SamePage(q) /\ SameLive(q) BY <2>1 DEF SamePage, SameLive
  <2> QED BY <2>3, <2>4, Elsewhere DEF SaveInv
<1>2. ASSUME NEW i \in DOMAIN flight[p], CheckNote(p, i) \/ WriteNote(p, i) \/ ReadBack(p, i)
      PROVE  SaveInv'
  <2>1. UNCHANGED page /\ \A q \in Pages : SameLive(q) BY <1>2, Answered
  <2>2. \A q \in Pages : SamePage(q) BY <2>1 DEF page, SamePage
  <2> QED BY <2>1, <2>2, Elsewhere DEF SaveInv
<1> QED BY <1>1, <1>2 DEF ServerStep

\* A page that hears the last of its answers has its present text acknowledged.
LEMMA SaveHeard ==
  ASSUME RepliesInOrder, TypeInv, SaveInv, BlindInv, Next, NEW p \in Pages,
         NEW i \in DOMAIN flight[p], Saved(p, i) \/ NotSaved(p, i) \/ Unheard(p, i)
  PROVE  SaveInv'
<1>0. PageInv(p) BY DEF SaveInv
<1>1. /\ flight' = [flight EXCEPT ![p] = RemoveAt(@, i)]
      /\ UNCHANGED <<versions, open, text, timer, fetch>>
      /\ ~Unheard(p, i) => open[p] /\ i \in Live(p) /\ \A j \in 1..(i - 1) : ~flight[p][j].live
      /\ Unheard(p, i) => i \notin Live(p) /\ UNCHANGED <<known, status>>
  BY DEF Saved, NotSaved, Unheard, Hear, page, Live
<1>2. /\ LastLive(p)'
      /\ Live(p)' = {} => Live(p) \subseteq {i}
      /\ Live(p) = {} => Live(p)' = {}
  <2>1. flight[p][i].live => \A j \in 1..(i - 1) : ~flight[p][j].live BY <1>1 DEF Live
  <2> QED BY <1>0, <1>1, <2>1, RemovedLive DEF PageInv
<1>3. \A q \in Pages \ {p} :
        flight'[q] = flight[q] /\ known'[q] = known[q] /\ status'[q] = status[q]
  <2>1. \A q \in Pages \ {p} : flight'[q] = flight[q] BY <1>1 DEF TypeInv, FlightOK
  <2>2. \A q \in Pages \ {p} : known'[q] = known[q] /\ status'[q] = status[q]
    BY DEF Saved, NotSaved, Unheard, page, TypeInv, ScreenOK, KnownOK
  <2> QED BY <2>1, <2>2
<1>4. \A q \in Pages \ {p} : SamePage(q) /\ SameLive(q) BY <1>1, <1>3 DEF SamePage, SameLive
<1>5. Settled(p)'
  <2>1. CASE Unheard(p, i)
    <3>1. Live(p)' = {} => Live(p) = {} BY <1>1, <1>2, <2>1
    <3> QED BY <1>0, <1>1, <2>1, <3>1 DEF PageInv, Settled
  <2>2. CASE NotSaved(p, i)
    <3>1. status'[p] # "saved" BY <2>2 DEF NotSaved, TypeInv, ScreenOK
    <3> QED BY <3>1 DEF Settled
  <2>3. CASE Saved(p, i)
    <3> SUFFICES ASSUME ~timer[p], Live(p)' = {}
                 PROVE  known'[p] # 0 /\ text[p] = versions[known'[p]]
      BY <1>1 DEF Settled
    <3>1. i \in Live(p) /\ \A j \in Live(p) : j = i
      <4>1. ~Unheard(p, i) BY <2>3 DEF Saved, Hear, Unheard
      <4> QED BY <1>1, <1>2, <4>1
    <3>2. \A j \in Live(p) : j <= i
      <4>1. i \in Nat BY DEF TypeInv, FlightOK
      <4> QED BY <3>1, <4>1
    <3>3. flight[p][i].text = text[p] BY <1>0, <3>1, <3>2 DEF PageInv, LastLive
    <3>4. flight[p][i].answer = "ok" /\ known'[p] = flight[p][i].revision
      BY <2>3 DEF Saved, Hear, TypeInv, KnownOK
    <3>5. flight[p][i].revision \in 1..Revision
          /\ versions[flight[p][i].revision] = flight[p][i].text
      BY <3>4 DEF BlindInv, AllTold, Told
    <3> QED BY <3>3, <3>4, <3>5
  <2> QED BY <2>1, <2>2, <2>3
<1>6. Quiet(p)'
  <2>1. CASE Loading(p)
    <3>1. Live(p) = {} BY <1>0, <2>1 DEF PageInv, Quiet
    <3>2. Unheard(p, i) BY <1>1, <3>1
    <3> QED BY <1>0, <1>1, <1>2, <2>1, <3>1, <3>2 DEF PageInv, Quiet, Loading
  <2>2. CASE ~Loading(p) BY <1>1, <2>2 DEF Quiet, Loading
  <2> QED BY <2>1, <2>2
<1>7. Shut(p)'
  <2>1. CASE open[p] BY <1>1, <2>1 DEF Shut
  <2>2. CASE ~open[p]
    <3>1. Unheard(p, i) BY <1>1, <2>2
    <3> QED BY <1>0, <1>1, <1>2, <2>2, <3>1 DEF PageInv, Shut
  <2> QED BY <2>1, <2>2
<1>8. PageInv(p)' BY <1>2, <1>5, <1>6, <1>7 DEF PageInv
<1> QED BY <1>4, <1>8, Elsewhere DEF SaveInv

LEMMA SavePage ==
  ASSUME RepliesInOrder, TypeInv, SaveInv, BlindInv, Next, NEW p \in Pages, PageStep(p)
  PROVE  SaveInv'
<1>0. PageInv(p) BY DEF SaveInv
<1>1. known[p] \in Nat /\ seen[p] \in SUBSET Nat BY DEF TypeInv, KnownOK
<1>2. CASE TimerFires(p)
  <2>1. /\ timer[p] /\ \A q \in Pages \ {p} : timer'[q] = timer[q]
        /\ UNCHANGED <<versions, open, text, known, fetch>>
        /\ Save(p, known[p], seen[p])
    BY <1>2 DEF TimerFires, TypeInv, ScreenOK
  <2>2. open[p] /\ fetch'[p].for \notin {"open", "select"}
    BY <1>0, <2>1 DEF PageInv, Shut, Quiet, Loading
  <2>3. PageInv(p)' /\ \A q \in Pages \ {p} : SameLive(q) /\ status'[q] = status[q]
    BY <1>1, <2>1, <2>2, SaveKeeps
  <2>4. \A q \in Pages \ {p} : SamePage(q) BY <2>1, <2>3 DEF SamePage
  <2> QED BY <2>3, <2>4, Elsewhere DEF SaveInv
<1>3. CASE RetryLoaded(p)
  <2>1. TypeInv' BY TypeNext
  <2>2. /\ fetch[p] # NoFetch /\ fetch'[p] = NoFetch
        /\ \A q \in Pages \ {p} : fetch'[q] = fetch[q] /\ known'[q] = known[q]
        /\ UNCHANGED <<versions, open, text, timer>>
        /\ Save(p, known'[p], seen'[p])
    BY <1>3 DEF RetryLoaded, Fetching, TypeInv, KnownOK, FetchOK
  <2>3. open[p] /\ fetch'[p].for \notin {"open", "select"}
    BY <1>0, <2>2 DEF PageInv, Shut, NoFetch
  <2>4. known'[p] \in Nat /\ seen'[p] \in SUBSET Nat BY <2>1 DEF TypeInv, KnownOK
  <2>5. PageInv(p)' /\ \A q \in Pages \ {p} : SameLive(q) /\ status'[q] = status[q]
    BY <2>2, <2>3, <2>4, SaveKeeps
  <2>6. \A q \in Pages \ {p} : SamePage(q) BY <2>2, <2>5 DEF SamePage
  <2> QED BY <2>5, <2>6, Elsewhere DEF SaveInv
<1>4. CASE PageLoaded(p)
  <2>1. /\ Loading(p) /\ fetch[p] # NoFetch /\ fetch'[p].for = fetch[p].for
        /\ \A q \in Pages \ {p} :
             /\ fetch'[q] = fetch[q] /\ known'[q] = known[q]
             /\ text'[q] = text[q] /\ status'[q] = status[q]
        /\ status'[p] # "saved"
        /\ UNCHANGED <<open, timer, flight>>
    <3>1. /\ Loading(p) /\ fetch[p] # NoFetch /\ UNCHANGED <<open, timer, flight>>
      BY <1>4 DEF PageLoaded, Fetching
    <3>2. /\ fetch'[p].for = fetch[p].for
          /\ \A q \in Pages \ {p} : fetch'[q] = fetch[q] /\ known'[q] = known[q]
      BY <1>4 DEF PageLoaded, TypeInv, KnownOK, FetchOK
    <3>3. /\ status'[p] # "saved"
          /\ \A q \in Pages \ {p} : text'[q] = text[q] /\ status'[q] = status[q]
      BY <1>4 DEF PageLoaded, TypeInv, ScreenOK
    <3> QED BY <3>1, <3>2, <3>3
  <2>2. open[p] /\ ~timer[p] /\ Live(p) = {} BY <1>0, <2>1 DEF PageInv, Quiet, Shut
  <2>3. Live(p)' = {} BY <2>1, <2>2 DEF Live
  <2>4. PageInv(p)'
    BY <2>1, <2>2, <2>3 DEF PageInv, Settled, LastLive, Quiet, Shut
  <2>5. \A q \in Pages \ {p} : SamePage(q) /\ SameLive(q) BY <2>1 DEF SamePage, SameLive
  <2> QED BY <2>4, <2>5, Elsewhere DEF SaveInv
<1>5. CASE PdfLoaded(p)
  <2>1. /\ fetch[p] # NoFetch /\ fetch'[p] = NoFetch
        /\ \A q \in Pages \ {p} : fetch'[q] = fetch[q]
        /\ UNCHANGED <<versions, open, text, known, status, timer, flight>>
    BY <1>5 DEF PdfLoaded, Fetching, TypeInv, FetchOK
  <2>2. open[p] /\ Live(p)' = Live(p) BY <1>0, <2>1 DEF PageInv, Shut, Live
  <2>3. Settled(p)' /\ LastLive(p)' BY <1>0, <2>1, <2>2 DEF PageInv, Settled, LastLive
  <2>4. Quiet(p)' /\ Shut(p)' BY <2>1, <2>2 DEF Quiet, Loading, NoFetch, Shut
  <2>5. \A q \in Pages \ {p} : SamePage(q) /\ SameLive(q) BY <2>1 DEF SamePage, SameLive
  <2> QED BY <2>3, <2>4, <2>5, Elsewhere DEF SaveInv, PageInv
<1>6. ASSUME NEW i \in DOMAIN flight[p], Saved(p, i) \/ NotSaved(p, i) \/ Unheard(p, i)
      PROVE  SaveInv'
  BY <1>6, SaveHeard
<1> QED BY <1>2, <1>3, <1>4, <1>5, <1>6 DEF PageStep

LEMMA SaveUser ==
  ASSUME QuietLoads, TypeInv, SaveInv, Next, NEW p \in Pages, UserStep(p)
  PROVE  SaveInv'
<1>0. PageInv(p) BY DEF SaveInv
<1>1. known[p] \in Nat /\ seen[p] \in SUBSET Nat BY DEF TypeInv, KnownOK
\* A fetch that starts while nothing is under way.
<1>2. ASSUME NEW for, Fetch(p, for), open'[p], ~timer[p], Live(p) = {},
             \A q \in Pages \ {p} : open'[q] = open[q],
             open[p] \/ status[p] # "saved",
             UNCHANGED <<versions, text, known, status, timer, flight>>
      PROVE  SaveInv'
  <2>1. /\ fetch'[p].text = text[p] /\ fetch'[p].known = known[p]
        /\ \A q \in Pages \ {p} : fetch'[q] = fetch[q]
    BY <1>2 DEF Fetch, TypeInv, FetchOK
  <2>2. \A q \in Pages : Live(q)' = Live(q) BY <1>2 DEF Live
  <2>3. Settled(p)' BY <1>0, <1>2, <2>2 DEF PageInv, Settled
  <2>4. LastLive(p)' /\ Quiet(p)' /\ Shut(p)' BY <1>2, <2>1, <2>2 DEF LastLive, Quiet, Shut
  <2>5. \A q \in Pages \ {p} : SamePage(q) /\ SameLive(q) BY <1>2, <2>1 DEF SamePage, SameLive
  <2> QED BY <2>3, <2>4, <2>5, Elsewhere DEF SaveInv, PageInv
<1>3. CASE Open(p)
  <2>1. ~open[p] /\ open' = [open EXCEPT ![p] = TRUE] /\ Fetch(p, "open")
        /\ UNCHANGED <<versions, text, known, status, timer, flight>>
    BY <1>3 DEF Open
  <2>2. open'[p] /\ \A q \in Pages \ {p} : open'[q] = open[q] BY <2>1 DEF TypeInv, ScreenOK
  <2>3. ~timer[p] /\ Live(p) = {} /\ status[p] # "saved" BY <1>0, <2>1 DEF PageInv, Shut
  <2> QED BY <1>2, <2>1, <2>2, <2>3
<1>4. CASE LoadPage(p)
  <2>1. open[p] /\ flight[p] = <<>> /\ ~timer[p] BY <1>4 DEF LoadPage
  <2>2. Live(p) = {} BY <2>1 DEF Live
  <2> QED BY <1>2, <1>4, <2>1, <2>2 DEF LoadPage
<1>5. CASE Close(p)
  <2>1. /\ ~open'[p] /\ ~timer'[p] /\ status'[p] = "empty" /\ fetch'[p] = NoFetch
        /\ \A q \in Pages \ {p} : SamePage(q)
    BY <1>5 DEF Close, TypeInv, ScreenOK, KnownOK, FetchOK, SamePage
  <2>2. /\ \A q \in Pages \ {p} : flight'[q] = flight[q]
        /\ DOMAIN flight'[p] = DOMAIN flight[p]
        /\ \A j \in DOMAIN flight[p] : flight'[p][j] = [flight[p][j] EXCEPT !.live = FALSE]
    BY <1>5, Unheeded DEF Close, TypeInv
  <2>3. Live(p)' = {}
    <3> SUFFICES ASSUME NEW j \in DOMAIN flight[p] PROVE ~flight'[p][j].live
      BY <2>2 DEF Live
    <3>1. flight[p][j] \in Requests BY RequestTypes DEF TypeInv
    <3>2. flight'[p][j] = [flight[p][j] EXCEPT !.live = FALSE] BY <2>2
    <3> QED BY <3>1, <3>2 DEF Requests
  <2>4. PageInv(p)'
    BY <2>1, <2>3 DEF PageInv, Settled, LastLive, Quiet, Shut, Loading, NoFetch
  <2>5. \A q \in Pages \ {p} : SameLive(q) BY <2>2 DEF SameLive
  <2> QED BY <2>1, <2>4, <2>5, Elsewhere DEF SaveInv
<1>6. CASE Type(p)
  <2>1. /\ open[p] /\ ~Loading(p) /\ timer'[p] /\ open' = open /\ fetch' = fetch
        /\ flight' = flight /\ \A q \in Pages \ {p} : SamePage(q)
    BY <1>6 DEF Type, MayAct, Arms, TypeInv, ScreenOK, SamePage
  <2>2. PageInv(p)'
    BY <2>1 DEF PageInv, Settled, LastLive, Quiet, Shut, Loading
  <2>3. \A q \in Pages \ {p} : SameLive(q) BY <2>1 DEF SameLive
  <2> QED BY <2>1, <2>2, <2>3, Elsewhere DEF SaveInv
<1>7. CASE RetrySave(p)
  <2>1. /\ open[p] /\ ~Loading(p) /\ Save(p, known[p], seen'[p])
        /\ known[p] \in Nat /\ seen'[p] \in SUBSET Nat
        /\ UNCHANGED <<versions, open, text, known, timer, fetch>>
    BY <1>7, GoesOnTypes DEF RetrySave, MayAct
  <2>2. fetch'[p].for \notin {"open", "select"} BY <2>1 DEF Loading
  <2>3. PageInv(p)' /\ \A q \in Pages \ {p} : SameLive(q) /\ status'[q] = status[q]
    BY <2>1, <2>2, SaveKeeps
  <2>4. \A q \in Pages \ {p} : SamePage(q) BY <2>1, <2>3 DEF SamePage
  <2> QED BY <2>3, <2>4, Elsewhere DEF SaveInv
<1>8. CASE RetryReload(p)
  <2>1. /\ open[p] /\ fetch'[p].for = "retry" /\ status'[p] = "loading"
        /\ \A q \in Pages \ {p} : SamePage(q)
        /\ UNCHANGED <<open, text, timer, flight>>
    BY <1>8 DEF RetryReload, Fetch, TypeInv, ScreenOK, FetchOK, SamePage
  <2>2. Live(p)' = Live(p) BY <2>1 DEF Live
  <2>3. PageInv(p)'
    BY <1>0, <2>1, <2>2 DEF PageInv, Settled, LastLive, Quiet, Shut, Loading
  <2>4. \A q \in Pages \ {p} : SameLive(q) BY <2>1 DEF SameLive
  <2> QED BY <2>1, <2>3, <2>4, Elsewhere DEF SaveInv
<1> QED BY <1>3, <1>4, <1>5, <1>6, <1>7, <1>8 DEF UserStep

LEMMA SaveFault ==
  ASSUME TypeInv, SaveInv, Next, NEW p \in Pages, FaultStep(p)
  PROVE  SaveInv'
<1>0. PageInv(p) BY DEF SaveInv
<1>1. CASE LoadFails(p)
  <2>1. /\ Loading(p) /\ fetch[p] # NoFetch
        /\ UNCHANGED <<versions, open, status, timer, flight>>
    BY <1>1 DEF LoadFails, Loading, NoFetch
  <2>2. /\ \/ fetch'[p] = NoFetch
           \/ /\ fetch'[p].for = fetch[p].for /\ fetch'[p].text = fetch[p].text
              /\ fetch'[p].known = fetch[p].known /\ UNCHANGED <<text, known>>
        /\ \/ UNCHANGED <<text, known>>
           \/ /\ text' = [text EXCEPT ![p] = fetch[p].text]
              /\ known' = [known EXCEPT ![p] = fetch[p].known]
        /\ \A q \in Pages \ {p} : fetch'[q] = fetch[q]
    BY <1>1 DEF LoadFails, TypeInv, FetchOK
  <2>3. /\ open[p] /\ ~timer[p] /\ Live(p) = {}
        /\ status[p] = "saved" => text[p] = fetch[p].text /\ known[p] = fetch[p].known
    BY <1>0, <2>1 DEF PageInv, Quiet, Shut
  <2>4. /\ status[p] = "saved" => text'[p] = text[p] /\ known'[p] = known[p]
        /\ \A q \in Pages \ {p} : text'[q] = text[q] /\ known'[q] = known[q]
    BY <2>2, <2>3 DEF TypeInv, ScreenOK, KnownOK
  <2>5. Live(p)' = {} BY <2>1, <2>3 DEF Live
  <2>6. Settled(p)' BY <1>0, <2>1, <2>3, <2>4 DEF PageInv, Settled
  <2>7. LastLive(p)' /\ Shut(p)' BY <2>1, <2>3, <2>5 DEF LastLive, Shut
  <2>8. Quiet(p)' BY <2>1, <2>2, <2>3, <2>4, <2>5 DEF Quiet, Loading, NoFetch
  <2>9. \A q \in Pages \ {p} : SamePage(q) /\ SameLive(q)
    BY <2>1, <2>2, <2>4 DEF SamePage, SameLive
  <2> QED BY <2>6, <2>7, <2>8, <2>9, Elsewhere DEF SaveInv, PageInv
<1>2. CASE RetryFails(p)
  <2>1. /\ fetch[p] # NoFetch /\ fetch'[p] = NoFetch /\ status'[p] = "error"
        /\ \A q \in Pages \ {p} : SamePage(q)
        /\ UNCHANGED <<open, text, timer, flight>>
    BY <1>2 DEF RetryFails, NoFetch, TypeInv, ScreenOK, FetchOK, SamePage
  <2>2. open[p] /\ Live(p)' = Live(p) BY <1>0, <2>1 DEF PageInv, Shut, Live
  <2>3. PageInv(p)'
    BY <1>0, <2>1, <2>2 DEF PageInv, Settled, LastLive, Quiet, Shut, Loading, NoFetch
  <2>4. \A q \in Pages \ {p} : SameLive(q) BY <2>1 DEF SameLive
  <2> QED BY <2>1, <2>3, <2>4, Elsewhere DEF SaveInv
<1>3. ASSUME NEW i \in DOMAIN flight[p], Lose(p, i) PROVE SaveInv'
  <2>1. UNCHANGED page /\ \A q \in Pages : SameLive(q) BY <1>3, Answered
  <2>2. \A q \in Pages : SamePage(q) BY <2>1 DEF page, SamePage
  <2> QED BY <2>1, <2>2, Elsewhere DEF SaveInv
<1> QED BY <1>1, <1>2, <1>3 DEF FaultStep

\* If answers arrive in order, loads are quiet and nothing is written between a
\* write and its read-back, a page at rest that says "Saved" shows the body of
\* the revision it knows.
THEOREM WhatIsCalledSavedIsSaved ==
  ASSUME RepliesInOrder, QuietLoads, PromptReadBack
  PROVE  Spec => []SavedMeansSaved
<1>1. Init => BlindInv /\ SaveInv
  <2> SUFFICES ASSUME Init PROVE BlindInv /\ SaveInv OBVIOUS
  <2>1. \A p \in Pages : known[p] = 0 /\ fetch[p] = NoFetch BY DEF Init
  <2>2. \A p \in Pages : DOMAIN flight[p] = {} BY DEF Init
  <2>3. \A p \in Pages : ~open[p] /\ ~timer[p] /\ status[p] = "empty" BY DEF Init
  <2>4. BlindInv BY BlindInit
  <2>5. SaveInv
    BY <2>1, <2>2, <2>3
       DEF SaveInv, PageInv, Settled, LastLive, Quiet, Shut, Live, Loading, NoFetch
  <2> QED BY <2>4, <2>5
<1>2. TypeInv /\ BlindInv /\ SaveInv /\ [Next]_vars => BlindInv' /\ SaveInv'
  <2> SUFFICES ASSUME TypeInv, BlindInv, SaveInv, [Next]_vars PROVE BlindInv' /\ SaveInv'
    OBVIOUS
  <2>1. CASE Next
    <3>1. BlindInv' BY <2>1, KnowsNext, ToldNext, BlindNext DEF BlindInv
    <3>2. SaveInv' BY <2>1, SaveServer, SavePage, SaveUser, SaveFault DEF Next
    <3> QED BY <3>1, <3>2
  <2>2. CASE UNCHANGED vars
    <3>1. BlindInv' BY BlindStep
    <3>2. SaveInv'
      BY <2>2 DEF vars, page, SaveInv, PageInv, Settled, LastLive, Quiet, Shut, Live, Loading
    <3> QED BY <3>1, <3>2
  <2> QED BY <2>1, <2>2
<1>3. TypeInv /\ SaveInv => SavedMeansSaved
  <2>1. \A p \in Pages : flight[p] = <<>> => Live(p) = {} BY DEF Live
  <2> QED BY <2>1 DEF SaveInv, PageInv, Settled, SavedMeansSaved
<1> QED BY TypeInit, TypeNext, <1>1, <1>2, <1>3, PTL DEF Spec

-----------------------------------------------------------------------------
(* When loads are quiet, no load overlaps an edit.                         *)

AtRest(p) == ~open[p] \/ Loading(p) => ~Editing(p)
EditInv == \A p \in Pages : AtRest(p) /\ (~open[p] => fetch[p] = NoFetch)

LEMMA EditsEnd ==
  ASSUME TypeInv, NEW p \in Pages, NEW i \in DOMAIN flight[p],
         flight' = [flight EXCEPT ![p] = RemoveAt(@, i)], UNCHANGED timer
  PROVE  \A q \in Pages : Editing(q)' => Editing(q)
<1>1. /\ \A q \in Pages \ {p} : flight'[q] = flight[q]
      /\ flight'[p] \in Seq(Requests) /\ i \in Nat
      /\ \A j \in DOMAIN flight'[p] :
           /\ j < i => j \in DOMAIN flight[p] /\ flight'[p][j] = flight[p][j]
           /\ j >= i => j + 1 \in DOMAIN flight[p] /\ flight'[p][j] = flight[p][j + 1]
  <2>1. flight[p] \in Seq(Requests) BY DEF TypeInv, FlightOK
  <2>2. i \in Nat BY <2>1
  <2> QED BY <2>2, Removed DEF TypeInv
<1>2. ASSUME NEW j \in DOMAIN flight'[p]
      PROVE  \E k \in DOMAIN flight[p] : flight'[p][j] = flight[p][k]
  <2>1. j \in Nat BY <1>1
  <2>2. j < i \/ j >= i BY <1>1, <2>1
  <2> QED BY <1>1, <2>2
<1> QED BY <1>1, <1>2 DEF Editing

LEMMA EditNext ==
  ASSUME QuietLoads, TypeInv, EditInv, Next
  PROVE  EditInv'
<1>0. /\ open \in [Pages -> BOOLEAN] /\ timer \in [Pages -> BOOLEAN]
      /\ fetch \in [Pages -> Fetches \union {NoFetch}]
      /\ \A q \in Pages : AtRest(q) /\ (~open[q] => fetch[q] = NoFetch)
  BY DEF TypeInv, ScreenOK, FetchOK, EditInv
<1>1. PICK p \in Pages : ServerStep(p) \/ PageStep(p) \/ UserStep(p) \/ FaultStep(p) BY DEF Next
<1> DEFINE Rested(q) == AtRest(q)' /\ (~open'[q] => fetch'[q] = NoFetch)
<1>2. ASSUME NEW q \in Pages, open'[q] = open[q], fetch'[q] = fetch[q], Editing(q)' => Editing(q)
      PROVE  Rested(q)
  BY <1>0, <1>2 DEF AtRest, Loading
<1>3. NoFetch.for \notin {"open", "select"} BY DEF NoFetch
\* A page that is open and not loading may do as it likes.
<1>4. ASSUME open'[p], ~Loading(p)', \A q \in Pages \ {p} : open'[q] = open[q]
               /\ fetch'[q] = fetch[q] /\ timer'[q] = timer[q] /\ flight'[q] = flight[q]
      PROVE  EditInv'
  <2>1. Rested(p) BY <1>4 DEF AtRest
  <2>2. \A q \in Pages \ {p} : Editing(q)' => Editing(q) BY <1>4 DEF Editing
  <2> QED BY <1>2, <1>4, <2>1, <2>2 DEF EditInv
\* A page in which nothing starts.
<1>5. ASSUME open' = open, UNCHANGED <<timer, flight>>, Loading(p)' => Loading(p),
             ~open[p] => fetch'[p] = NoFetch, \A q \in Pages \ {p} : fetch'[q] = fetch[q]
      PROVE  EditInv'
  <2>1. \A q \in Pages : Editing(q)' <=> Editing(q) BY <1>5 DEF Editing
  <2>2. Rested(p) BY <1>0, <1>5, <2>1 DEF AtRest
  <2> QED BY <1>2, <1>5, <2>1, <2>2 DEF EditInv
<1>6. ASSUME UNCHANGED page, \A q \in Pages : SameLive(q) PROVE EditInv'
  <2>1. \A q \in Pages : Editing(q)' <=> Editing(q) BY <1>6 DEF page, Editing, SameLive
  <2> QED BY <1>2, <1>6, <2>1 DEF EditInv, page
<1>7. ASSUME NEW i \in DOMAIN flight[p],
             CheckNote(p, i) \/ WriteNote(p, i) \/ ReadBack(p, i) \/ Lose(p, i)
      PROVE  EditInv'
  BY <1>6, <1>7, Answered
<1>8. ASSUME NEW base \in Nat, NEW basis \in SUBSET Nat, Save(p, base, basis), UNCHANGED versions
      PROVE  \A q \in Pages \ {p} : flight'[q] = flight[q]
  BY <1>8, SaveTypes
<1>9. known[p] \in Nat /\ seen[p] \in SUBSET Nat BY DEF TypeInv, KnownOK
<1>10. CASE ServerStep(p)
  <2>1. CASE AnswerFetch(p)
    <3>1. /\ open' = open /\ UNCHANGED <<timer, flight>> /\ fetch'[p].for = fetch[p].for
          /\ fetch[p] # NoFetch /\ \A q \in Pages \ {p} : fetch'[q] = fetch[q]
      BY <1>0, <2>1 DEF AnswerFetch, Fetching
    <3> QED BY <1>0, <1>5, <3>1 DEF Loading
  <2> QED BY <1>7, <1>10, <2>1 DEF ServerStep
<1>11. CASE PageStep(p)
  <2>1. CASE TimerFires(p)
    <3>1. /\ timer[p] /\ timer' = [timer EXCEPT ![p] = FALSE] /\ UNCHANGED <<open, fetch>>
          /\ \A q \in Pages \ {p} : flight'[q] = flight[q]
      BY <1>8, <1>9, <2>1 DEF TimerFires
    <3>2. open[p] /\ ~Loading(p) BY <1>0, <3>1 DEF AtRest, Editing
    <3> QED BY <1>0, <1>4, <3>1, <3>2 DEF Loading
  <2>2. CASE PageLoaded(p) \/ PdfLoaded(p)
    <3>1. /\ open' = open /\ UNCHANGED <<timer, flight>> /\ fetch[p] # NoFetch
          /\ fetch'[p].for \in {fetch[p].for, NoFetch.for}
          /\ \A q \in Pages \ {p} : fetch'[q] = fetch[q]
      BY <1>0, <2>2 DEF PageLoaded, PdfLoaded, Fetching
    <3> QED BY <1>0, <1>3, <1>5, <3>1 DEF Loading
  <2>3. CASE RetryLoaded(p)
    <3>1. /\ UNCHANGED <<open, timer>> /\ fetch[p] # NoFetch /\ fetch'[p] = NoFetch
          /\ \A q \in Pages \ {p} : fetch'[q] = fetch[q]
      BY <1>0, <2>3 DEF RetryLoaded, Fetching
    <3>2. known'[p] \in Nat /\ seen'[p] \in SUBSET Nat
      BY <1>11, TypePage DEF TypeInv, KnownOK
    <3>3. \A q \in Pages \ {p} : flight'[q] = flight[q] BY <1>8, <2>3, <3>2 DEF RetryLoaded
    <3> QED BY <1>0, <1>3, <1>4, <3>1, <3>3 DEF Loading
  <2>4. ASSUME NEW i \in DOMAIN flight[p], Saved(p, i) \/ NotSaved(p, i) \/ Unheard(p, i)
        PROVE  EditInv'
    <3>1. flight' = [flight EXCEPT ![p] = RemoveAt(@, i)] /\ UNCHANGED <<open, fetch, timer>>
      BY <2>4 DEF Saved, NotSaved, Unheard, Hear, page
    <3>2. \A q \in Pages : Editing(q)' => Editing(q) BY <3>1, EditsEnd
    <3> QED BY <1>2, <3>1, <3>2 DEF EditInv
  <2> QED BY <1>11, <2>1, <2>2, <2>3, <2>4 DEF PageStep
<1>12. CASE UserStep(p)
  <2>1. CASE Open(p) \/ LoadPage(p)
    <3>1. /\ UNCHANGED <<timer, flight>> /\ open'[p]
          /\ \A q \in Pages \ {p} : open'[q] = open[q] /\ fetch'[q] = fetch[q]
      BY <1>0, <2>1 DEF Open, LoadPage, Fetch
    <3>2. ~Editing(p)
      <4>1. CASE Open(p) BY <1>0, <4>1 DEF Open, AtRest
      <4>2. CASE LoadPage(p) BY <4>2 DEF LoadPage, Editing
      <4> QED BY <2>1, <4>1, <4>2
    <3>3. \A q \in Pages : Editing(q)' <=> Editing(q) BY <3>1 DEF Editing
    <3>4. Rested(p) BY <3>1, <3>2, <3>3 DEF AtRest
    <3> QED BY <1>2, <3>1, <3>3, <3>4 DEF EditInv
  <2>2. CASE Close(p)
    <3>1. /\ ~open'[p] /\ ~timer'[p] /\ fetch'[p] = NoFetch
          /\ \A q \in Pages \ {p} :
               open'[q] = open[q] /\ fetch'[q] = fetch[q] /\ timer'[q] = timer[q]
      BY <1>0, <2>2 DEF Close
    <3>2. /\ \A q \in Pages \ {p} : flight'[q] = flight[q]
          /\ DOMAIN flight'[p] = DOMAIN flight[p]
          /\ \A j \in DOMAIN flight[p] : flight'[p][j] = [flight[p][j] EXCEPT !.live = FALSE]
      BY <2>2, Unheeded DEF Close, TypeInv
    <3>3. ~Editing(p)'
      <4> SUFFICES ASSUME NEW j \in DOMAIN flight[p] PROVE ~flight'[p][j].live
        BY <3>1, <3>2 DEF Editing
      <4>1. flight[p][j] \in Requests BY RequestTypes DEF TypeInv
      <4>2. flight'[p][j] = [flight[p][j] EXCEPT !.live = FALSE] BY <3>2
      <4> QED BY <4>1, <4>2 DEF Requests
    <3>4. \A q \in Pages \ {p} : Editing(q)' => Editing(q) BY <3>1, <3>2 DEF Editing
    <3>5. Rested(p) BY <3>1, <3>3 DEF AtRest
    <3> QED BY <1>2, <3>1, <3>4, <3>5 DEF EditInv
  <2>3. CASE Type(p)
    BY <1>0, <1>4, <2>3 DEF Type, MayAct, Loading
  <2>4. CASE RetrySave(p)
    <3>1. known[p] \in Nat /\ seen'[p] \in SUBSET Nat /\ UNCHANGED versions
      BY <2>4, GoesOnTypes DEF RetrySave
    <3>2. \A q \in Pages \ {p} : flight'[q] = flight[q] BY <1>8, <2>4, <3>1 DEF RetrySave
    <3> QED BY <1>4, <2>4, <3>2 DEF RetrySave, MayAct, Loading
  <2>5. CASE RetryReload(p)
    <3>1. /\ open[p] /\ fetch'[p].for = "retry" /\ UNCHANGED <<open, timer, flight>>
          /\ \A q \in Pages \ {p} : fetch'[q] = fetch[q]
      BY <1>0, <2>5 DEF RetryReload, Fetch
    <3> QED BY <1>4, <3>1 DEF Loading
  <2> QED BY <1>12, <2>1, <2>2, <2>3, <2>4, <2>5 DEF UserStep
<1>13. CASE FaultStep(p)
  <2>1. CASE LoadFails(p)
    <3>1. /\ Loading(p) /\ UNCHANGED <<open, timer, flight>>
          /\ \A q \in Pages \ {p} : fetch'[q] = fetch[q]
      BY <1>0, <2>1 DEF LoadFails
    <3>2. open[p] BY <1>0, <1>3, <3>1 DEF Loading
    <3> QED BY <1>5, <3>1, <3>2
  <2>2. CASE RetryFails(p)
    <3>1. /\ fetch'[p] = NoFetch /\ UNCHANGED <<open, timer, flight>>
          /\ \A q \in Pages \ {p} : fetch'[q] = fetch[q]
      BY <1>0, <2>2 DEF RetryFails
    <3> QED BY <1>3, <1>5, <3>1 DEF Loading
  <2> QED BY <1>7, <1>13, <2>1, <2>2 DEF FaultStep
<1> QED BY <1>1, <1>10, <1>11, <1>12, <1>13

\* If nothing is typed or saved in a page while it loads, no page has an edit
\* under way when its load ends: what NoBlindOverwrite exempts does not happen.
THEOREM NoLoadMeetsAnEdit ==
  ASSUME QuietLoads
  PROVE  Spec => [](\A p \in Pages : Loading(p) => ~Editing(p))
<1>1. Init => EditInv
  <2> SUFFICES ASSUME Init PROVE EditInv OBVIOUS
  <2>1. \A p \in Pages : ~timer[p] /\ fetch[p] = NoFetch /\ DOMAIN flight[p] = {} BY DEF Init
  <2> QED BY <2>1 DEF EditInv, AtRest, Editing
<1>2. TypeInv /\ EditInv /\ [Next]_vars => EditInv'
  <2> SUFFICES ASSUME TypeInv, EditInv, [Next]_vars PROVE EditInv' OBVIOUS
  <2>1. CASE Next BY <2>1, EditNext
  <2>2. CASE UNCHANGED vars
    BY <2>2 DEF vars, page, EditInv, AtRest, Loading, Editing
  <2> QED BY <2>1, <2>2
<1>3. EditInv => \A p \in Pages : Loading(p) => ~Editing(p) BY DEF EditInv, AtRest
<1> QED BY TypeInit, TypeNext, <1>1, <1>2, <1>3, PTL DEF Spec

-----------------------------------------------------------------------------
(* The server's part is a register: NoteEditing implements NoteRegister.   *)

\* A request has an answer once it is replied to; past its SELECT it stands by
\* what that found, and a note that exists goes on existing.
Underway(r) ==
  /\ r.phase = "replied" <=> r.answer # "none"
  /\ r.phase = "checked" => IF r.found THEN Revision # 0 ELSE r.base \in {0, 1}

RegisterInv == \A p \in Pages : \A i \in DOMAIN flight[p] : Underway(flight[p][i])

Decisions == [text : Texts, base : Nat, answer : {"none", "ok", "conflict", "error"},
              revision : Nat]

LEMMA DecidedTypes ==
  ASSUME NEW r \in Requests, Revision \in Nat
  PROVE  Decided(r) \in Decisions
BY DEF Decided, Requests, Decisions

LEMMA Redecided ==
  ASSUME NEW d \in Decisions, NEW a, NEW v
  PROVE  [d EXCEPT !.answer = a, !.revision = v]
           = [text |-> d.text, base |-> d.base, answer |-> a, revision |-> v]
<1>1. PICK e : e = [d EXCEPT !.answer = a, !.revision = v] OBVIOUS
<1>2. d = [text |-> d.text, base |-> d.base, answer |-> d.answer, revision |-> d.revision]
  BY DEF Decisions
<1>3. DOMAIN e = DOMAIN d /\ e.text = d.text /\ e.base = d.base /\ e.answer = a /\ e.revision = v
  BY <1>1, <1>2
<1>4. DOMAIN d = {"text", "base", "answer", "revision"} BY <1>2
<1>5. e = [text |-> d.text, base |-> d.base, answer |-> a, revision |-> v] BY <1>1, <1>3, <1>4
<1> QED BY <1>1, <1>5

LEMMA DecidedSeq ==
  ASSUME NEW f \in Seq(Requests), NEW s \in [DOMAIN f -> Decisions]
  PROVE  s \in Seq(Decisions) /\ Len(s) = Len(f)
<1>1. DOMAIN f = 1..Len(f) /\ Len(f) \in Nat OBVIOUS
<1> QED BY <1>1, SeqDef, LenProperties

LEMMA SavesTypes ==
  ASSUME TypeInv
  PROVE  /\ Saves \in [Pages -> Seq(Decisions)]
         /\ \A p \in Pages :
              /\ DOMAIN Saves[p] = DOMAIN flight[p] /\ Len(Saves[p]) = Len(flight[p])
              /\ \A i \in DOMAIN flight[p] : Saves[p][i] = Decided(flight[p][i])
<1>1. Revision \in Nat BY RevisionTypes DEF TypeInv
<1>2. ASSUME NEW p \in Pages
      PROVE  /\ flight[p] \in Seq(Requests)
             /\ Saves[p] \in [DOMAIN flight[p] -> Decisions]
             /\ \A i \in DOMAIN flight[p] : Saves[p][i] = Decided(flight[p][i])
  <2>1. flight[p] \in Seq(Requests) BY DEF TypeInv, FlightOK
  <2>2. \A i \in DOMAIN flight[p] : Decided(flight[p][i]) \in Decisions
    BY <1>1, <2>1, DecidedTypes
  <2>3. Saves[p] = [i \in DOMAIN flight[p] |-> Decided(flight[p][i])] BY DEF Saves
  <2> QED BY <2>1, <2>2, <2>3
<1>3. \A p \in Pages : Saves[p] \in Seq(Decisions) /\ Len(Saves[p]) = Len(flight[p])
  BY <1>2, DecidedSeq
<1>4. Saves = [p \in Pages |-> Saves[p]] BY DEF Saves
<1> QED BY <1>2, <1>3, <1>4

LEMMA SavesTypesNext ==
  ASSUME TypeInv'
  PROVE  /\ Saves' \in [Pages -> Seq(Decisions)]
         /\ \A p \in Pages :
              /\ DOMAIN Saves'[p] = DOMAIN flight'[p] /\ Len(Saves'[p]) = Len(flight'[p])
              /\ \A i \in DOMAIN flight'[p] : Saves'[p][i] = Decided(flight[p][i])'
<1>1. Revision' \in Nat BY DEF TypeInv, StoreOK, Revision
<1>2. ASSUME NEW p \in Pages
      PROVE  /\ flight'[p] \in Seq(Requests)
             /\ Saves'[p] \in [DOMAIN flight'[p] -> Decisions]
             /\ \A i \in DOMAIN flight'[p] : Saves'[p][i] = Decided(flight[p][i])'
  <2>1. flight'[p] \in Seq(Requests) BY DEF TypeInv, FlightOK
  <2>2. \A i \in DOMAIN flight'[p] : flight'[p][i] \in Requests BY <2>1
  <2>3. \A i \in DOMAIN flight'[p] : Decided(flight[p][i])' \in Decisions
    BY <1>1, <2>2 DEF Decided, Requests, Decisions
  <2>4. Saves'[p] = [i \in DOMAIN flight'[p] |-> Decided(flight[p][i])'] BY DEF Saves
  <2> QED BY <2>1, <2>3, <2>4
<1>3. \A p \in Pages : Saves'[p] \in Seq(Decisions) /\ Len(Saves'[p]) = Len(flight'[p])
  BY <1>2, DecidedSeq
<1>4. Saves' = [p \in Pages |-> Saves'[p]] BY DEF Saves
<1> QED BY <1>2, <1>3, <1>4

\* How a request is decided does not change with the note, but while it is read
\* back.
LEMMA StillDecided ==
  ASSUME NEW r, Revision' = Revision \/ r.phase # "written"
  PROVE  Decided(r)' = Decided(r)
BY DEF Decided

\* A step on the i-th request of p, beside which nothing is being read back or
\* the note stays as it is.
LEMMA DecidesOne ==
  ASSUME TypeInv, TypeInv', NEW p \in Pages, NEW i \in DOMAIN flight[p], NEW r \in Requests,
         Advance(p, i, r),
         \/ UNCHANGED versions
         \/ \A q \in Pages : \A j \in DOMAIN flight[q] : flight[q][j].phase # "written"
  PROVE  /\ Saves' = [Saves EXCEPT ![p][i] = Decided(r)']
         /\ Saves[p][i] = Decided(flight[p][i]) /\ i \in DOMAIN Saves[p]
<1>1. /\ \A q \in Pages : DOMAIN flight'[q] = DOMAIN flight[q]
      /\ \A q \in Pages : \A j \in DOMAIN flight[q] :
           flight'[q][j] = IF q = p /\ j = i THEN r ELSE flight[q][j]
  BY Advanced DEF TypeInv
<1>2. \A q \in Pages : /\ DOMAIN Saves[q] = DOMAIN flight[q]
                       /\ \A j \in DOMAIN flight[q] : Saves[q][j] = Decided(flight[q][j])
  BY SavesTypes
<1>3. ASSUME NEW q \in Pages, NEW j \in DOMAIN flight[q], ~(q = p /\ j = i)
      PROVE  Decided(flight[q][j])' = Saves[q][j]
  <2>1. PICK s : s = flight[q][j] OBVIOUS
  <2>2. flight'[q][j] = s BY <1>1, <1>3, <2>1
  <2>3. Decided(s)' = Decided(s) BY <2>1, StillDecided DEF Revision
  <2>4. Decided(flight[q][j])' = Decided(s)' BY <2>2 DEF Decided
  <2> QED BY <1>2, <2>1, <2>3, <2>4
<1>4. Decided(flight[p][i])' = Decided(r)' BY <1>1 DEF Decided
<1>5. \A q \in Pages : Saves'[q] = [j \in DOMAIN flight[q] |->
        IF q = p /\ j = i THEN Decided(r)' ELSE Saves[q][j]]
  BY <1>1, <1>3, <1>4 DEF Saves
<1>6. Saves' = [q \in Pages |-> [j \in DOMAIN flight[q] |->
        IF q = p /\ j = i THEN Decided(r)' ELSE Saves[q][j]]]
  BY <1>5 DEF Saves
<1>7. [Saves EXCEPT ![p][i] = Decided(r)'] = [q \in Pages |-> [j \in DOMAIN flight[q] |->
        IF q = p /\ j = i THEN Decided(r)' ELSE Saves[q][j]]]
  <2>1. DOMAIN Saves = Pages BY DEF Saves
  <2>2. \A q \in Pages : Saves[q] = [j \in DOMAIN flight[q] |-> Saves[q][j]]
    BY <1>2, SavesTypes
  <2> QED BY <1>2, <2>1, <2>2
<1> QED BY <1>2, <1>6, <1>7

\* A step that neither changes the note nor decides a request.
LEMMA DecidesNone ==
  ASSUME TypeInv, TypeInv', UNCHANGED versions,
         \A q \in Pages : DOMAIN flight'[q] = DOMAIN flight[q],
         \A q \in Pages : \A j \in DOMAIN flight[q] :
           /\ flight'[q][j].text = flight[q][j].text
           /\ flight'[q][j].base = flight[q][j].base
           /\ flight'[q][j].phase = flight[q][j].phase
           /\ flight'[q][j].answer = flight[q][j].answer
           /\ flight'[q][j].revision = flight[q][j].revision
  PROVE  UNCHANGED <<versions, Saves>>
<1>1. Revision' = Revision BY DEF Revision
<1>2. \A q \in Pages : \A j \in DOMAIN flight[q] :
        Decided(flight[q][j])' = Decided(flight[q][j])
  BY <1>1 DEF Decided
<1> QED BY <1>2 DEF Saves

LEMMA RegisterPost ==
  ASSUME TypeInv, TypeInv', RegisterInv, NEW p \in Pages, NEW base \in 0..Revision,
         NEW basis \in SUBSET Nat, Save(p, base, basis), UNCHANGED versions
  PROVE  Register!Post(p) /\ RegisterInv'
<1> DEFINE n == Len(flight[p]) + 1
           new == [text |-> text[p], base |-> base, answer |-> "none", revision |-> 0]
<1>1. /\ \A q \in Pages \ {p} : flight'[q] = flight[q]
      /\ DOMAIN flight'[p] = DOMAIN flight[p] \union {n}
      /\ \A j \in DOMAIN flight[p] : flight'[p][j] = flight[p][j] /\ j < n
      /\ flight'[p][n].phase = "sent" /\ flight'[p][n].answer = "none"
  <2>1. base \in Nat BY RevisionTypes DEF TypeInv
  <2> QED BY <2>1, SaveTypes
<1>2. flight'[p] = Append(flight[p], [phase |-> "sent", text |-> text[p], base |-> base,
        seen |-> basis, found |-> FALSE, answer |-> "none", revision |-> 0, live |-> TRUE])
      /\ flight[p] \in Seq(Requests)
  BY DEF Save, TypeInv, FlightOK
<1>3. flight'[p][n].text = text[p] /\ flight'[p][n].base = base /\ flight'[p][n].revision = 0
      /\ n \in Nat /\ Len(flight'[p]) = n
  BY <1>2
<1>4. Revision' = Revision BY DEF Revision
<1>5. RegisterInv'
  <2> SUFFICES ASSUME NEW q \in Pages, NEW j \in DOMAIN flight'[q],
                      NEW r, r = flight'[q][j]
               PROVE  /\ r.phase = "replied" <=> r.answer # "none"
                      /\ r.phase = "checked" => IF r.found THEN Revision' # 0 ELSE r.base \in {0, 1}
    BY DEF RegisterInv, Underway
  <2>1. CASE q = p /\ j = n BY <1>1, <2>1
  <2>2. CASE ~(q = p /\ j = n)
    <3>1. j \in DOMAIN flight[q] /\ r = flight[q][j] BY <1>1, <2>2
    <3> QED BY <1>4, <3>1 DEF RegisterInv, Underway
  <2> QED BY <2>1, <2>2
<1>6. Saves' = [Saves EXCEPT ![p] = Append(@, new)]
  <2>1. \A q \in Pages \ {p} : Saves'[q] = Saves[q]
    <3> SUFFICES ASSUME NEW q \in Pages \ {p} PROVE Saves'[q] = Saves[q] OBVIOUS
    <3>1. \A j \in DOMAIN flight[q] : Decided(flight[q][j])' = Decided(flight[q][j])
      BY <1>1, <1>4 DEF Decided
    <3> QED BY <1>1, <3>1 DEF Saves
  <2>2. /\ Saves[p] \in Seq(Decisions) /\ Len(Saves[p]) = Len(flight[p])
        /\ DOMAIN Saves[p] = DOMAIN flight[p]
        /\ \A j \in DOMAIN flight[p] : Saves[p][j] = Decided(flight[p][j])
    BY SavesTypes
  <2>3. /\ Saves'[p] \in Seq(Decisions) /\ Len(Saves'[p]) = n
        /\ \A j \in DOMAIN flight'[p] : Saves'[p][j] = Decided(flight[p][j])'
    BY <1>3, SavesTypesNext
  <2>4. Saves'[p][n] = new BY <1>1, <1>3, <2>3 DEF Decided
  <2>5. \A j \in DOMAIN flight[p] : Saves'[p][j] = Saves[p][j]
    <3> TAKE j \in DOMAIN flight[p]
    <3>1. Decided(flight[p][j])' = Decided(flight[p][j]) BY <1>1, <1>4 DEF Decided
    <3> QED BY <1>1, <2>2, <2>3, <3>1
  <2>6. new \in Decisions
    BY <1>1, <2>3, <2>4
  <2> HIDE DEF new
  <2>7. /\ Append(Saves[p], new) \in Seq(Decisions) /\ Len(Append(Saves[p], new)) = n
        /\ Append(Saves[p], new)[n] = new
        /\ \A j \in 1..Len(flight[p]) : Append(Saves[p], new)[j] = Saves[p][j]
    BY <2>2, <2>6
  <2>8. DOMAIN flight[p] = 1..Len(flight[p]) /\ Len(flight[p]) \in Nat BY <1>2
  <2>9. \A j \in 1..n : Saves'[p][j] = Append(Saves[p], new)[j]
    <3> TAKE j \in 1..n
    <3>1. j = n \/ j \in 1..Len(flight[p]) BY <2>8
    <3> HIDE DEF n
    <3> QED BY <2>4, <2>5, <2>7, <2>8, <3>1
  <2>10. Saves'[p] = Append(Saves[p], new)
    <3> HIDE DEF n
    <3> QED BY <2>3, <2>7, <2>9, SeqEqual
  <2>11. DOMAIN Saves = Pages /\ DOMAIN Saves' = Pages /\ Saves' = [q \in Pages |-> Saves'[q]]
         /\ Saves = [q \in Pages |-> Saves[q]]
    BY DEF Saves
  <2> QED BY <2>1, <2>10, <2>11
<1>7. text[p] \in Texts BY DEF TypeInv, ScreenOK
<1> QED BY <1>5, <1>6, <1>7 DEF Register!Post, Register!Revision, Revision

LEMMA RegisterAnswer ==
  ASSUME TypeInv, TypeInv', RegisterInv, NEW p \in Pages, NEW i \in DOMAIN flight[p],
         flight[p][i].phase = "replied",
         flight' = [flight EXCEPT ![p] = RemoveAt(@, i)], UNCHANGED versions
  PROVE  Register!Answer(p, i) /\ i \in DOMAIN Saves[p] /\ RegisterInv'
<1>1. /\ \A q \in Pages \ {p} : flight'[q] = flight[q]
      /\ Len(flight'[p]) = Len(flight[p]) - 1
      /\ \A j \in DOMAIN flight'[p] :
           /\ j < i => j \in DOMAIN flight[p] /\ flight'[p][j] = flight[p][j]
           /\ j >= i => j + 1 \in DOMAIN flight[p] /\ flight'[p][j] = flight[p][j + 1]
  BY Removed DEF TypeInv
<1>2. /\ DOMAIN flight[p] = 1..Len(flight[p]) /\ Len(flight[p]) \in Nat
      /\ DOMAIN flight'[p] = 1..Len(flight'[p]) /\ i \in Nat
  BY DEF TypeInv, FlightOK
<1>3. Revision' = Revision BY DEF Revision
<1>4. RegisterInv'
  <2> SUFFICES ASSUME NEW q \in Pages, NEW j \in DOMAIN flight'[q],
                      NEW r, r = flight'[q][j]
               PROVE  /\ r.phase = "replied" <=> r.answer # "none"
                      /\ r.phase = "checked" => IF r.found THEN Revision' # 0 ELSE r.base \in {0, 1}
    BY DEF RegisterInv, Underway
  <2>1. \E k \in DOMAIN flight[q] : r = flight[q][k]
    <3>1. CASE q = p
      <4>1. j \in Nat BY <1>2, <3>1
      <4>2. j < i \/ j >= i BY <1>2, <4>1
      <4> QED BY <1>1, <3>1, <4>2
    <3>2. CASE q # p BY <1>1, <3>2
    <3> QED BY <3>1, <3>2
  <2> QED BY <1>3, <2>1 DEF RegisterInv, Underway
<1>5. /\ Saves[p] \in Seq(Decisions) /\ Len(Saves[p]) = Len(flight[p])
      /\ DOMAIN Saves[p] = DOMAIN flight[p]
      /\ \A j \in DOMAIN flight[p] : Saves[p][j] = Decided(flight[p][j])
  BY SavesTypes
<1>6. Saves' = [Saves EXCEPT ![p] = RemoveAt(@, i)]
  <2>1. \A q \in Pages \ {p} : Saves'[q] = Saves[q]
    <3> SUFFICES ASSUME NEW q \in Pages \ {p} PROVE Saves'[q] = Saves[q] OBVIOUS
    <3>1. \A j \in DOMAIN flight[q] : Decided(flight[q][j])' = Decided(flight[q][j])
      BY <1>1, <1>3 DEF Decided
    <3> QED BY <1>1, <3>1 DEF Saves
  <2>2. /\ Saves'[p] \in Seq(Decisions) /\ Len(Saves'[p]) = Len(flight[p]) - 1
        /\ \A j \in DOMAIN flight'[p] : Saves'[p][j] = Decided(flight[p][j])'
    BY <1>1, SavesTypesNext
  <2>3. /\ RemoveAt(Saves[p], i) \in Seq(Decisions)
        /\ Len(RemoveAt(Saves[p], i)) = Len(flight[p]) - 1
        /\ \A j \in 1..(Len(flight[p]) - 1) :
             RemoveAt(Saves[p], i)[j] = IF j < i THEN Saves[p][j] ELSE Saves[p][j + 1]
    <3>1. i \in 1..Len(Saves[p]) BY <1>2, <1>5
    <3> QED BY <1>5, <3>1, RemovedAt
  <2>4. \A j \in 1..(Len(flight[p]) - 1) : Saves'[p][j] = RemoveAt(Saves[p], i)[j]
    <3> TAKE j \in 1..(Len(flight[p]) - 1)
    <3>1. j \in DOMAIN flight'[p] /\ j \in Nat BY <1>1, <1>2
    <3>2. CASE j < i
      <4>1. j \in DOMAIN flight[p] /\ flight'[p][j] = flight[p][j] BY <1>1, <3>1, <3>2
      <4>2. Decided(flight[p][j])' = Decided(flight[p][j]) BY <1>3, <4>1 DEF Decided
      <4> QED BY <1>5, <2>2, <2>3, <3>1, <3>2, <4>1, <4>2
    <3>3. CASE j >= i
      <4>1. j + 1 \in DOMAIN flight[p] /\ flight'[p][j] = flight[p][j + 1] /\ ~(j < i)
        BY <1>1, <1>2, <3>1, <3>3
      <4>2. Decided(flight[p][j])' = Decided(flight[p][j + 1]) BY <1>3, <4>1 DEF Decided
      <4> QED BY <1>5, <2>2, <2>3, <3>1, <4>1, <4>2
    <3> QED BY <1>2, <3>1, <3>2, <3>3
  <2>5. Saves'[p] = RemoveAt(Saves[p], i) BY <2>2, <2>3, <2>4, SeqEqual
  <2>6. DOMAIN Saves = Pages /\ DOMAIN Saves' = Pages /\ Saves' = [q \in Pages |-> Saves'[q]]
        /\ Saves = [q \in Pages |-> Saves[q]]
    BY DEF Saves
  <2> QED BY <2>1, <2>5, <2>6
<1>7. Saves[p][i].answer # "none"
  <2>1. PICK s : s = flight[p][i] OBVIOUS
  <2>2. s.phase = "replied" /\ s.answer # "none" BY <2>1 DEF RegisterInv, Underway
  <2>3. Decided(s).answer = s.answer BY <2>2 DEF Decided
  <2> QED BY <1>5, <2>1, <2>2, <2>3
<1>8. Register!RemoveAt(Saves[p], i) = RemoveAt(Saves[p], i)
  BY DEF Register!RemoveAt, RemoveAt
<1> QED BY <1>4, <1>5, <1>6, <1>7, <1>8 DEF Register!Answer, Register!Undecided

\* The invariant after a step on one request.
LEMMA UnderwayNext ==
  ASSUME TypeInv, RegisterInv, NEW p \in Pages, NEW i \in DOMAIN flight[p], NEW r \in Requests,
         Advance(p, i, r), Revision # 0 => Revision' # 0,
         r.phase = "replied" <=> r.answer # "none",
         r.phase = "checked" => IF r.found THEN Revision' # 0 ELSE r.base \in {0, 1}
  PROVE  RegisterInv'
<1>1. /\ \A q \in Pages : DOMAIN flight'[q] = DOMAIN flight[q]
      /\ \A q \in Pages : \A j \in DOMAIN flight[q] :
           flight'[q][j] = IF q = p /\ j = i THEN r ELSE flight[q][j]
  BY Advanced DEF TypeInv
<1> SUFFICES ASSUME NEW q \in Pages, NEW j \in DOMAIN flight[q], NEW s, s = flight'[q][j]
             PROVE  /\ s.phase = "replied" <=> s.answer # "none"
                    /\ s.phase = "checked" => IF s.found THEN Revision' # 0 ELSE s.base \in {0, 1}
  BY <1>1 DEF RegisterInv, Underway
<1>2. CASE q = p /\ j = i BY <1>1, <1>2
<1>3. CASE ~(q = p /\ j = i)
  <2>1. s = flight[q][j] BY <1>1, <1>3
  <2> QED BY <2>1 DEF RegisterInv, Underway
<1> QED BY <1>2, <1>3

\* A request that has not been written is told a conflict or an error.
LEMMA RegisterReply ==
  ASSUME TypeInv, TypeInv', RegisterInv, NEW p \in Pages, NEW i \in DOMAIN flight[p],
         flight[p][i].phase # "written",
         NEW answer \in {"conflict", "error"}, Reply(p, i, answer), UNCHANGED versions
  PROVE  /\ RegisterInv' /\ i \in DOMAIN Saves[p]
         /\ Register!Becomes(p, i, [Saves[p][i] EXCEPT !.answer = answer])
         /\ Saves[p][i].base = flight[p][i].base
         /\ Saves[p][i].answer = flight[p][i].answer
<1>0. flight[p][i] \in Requests BY RequestTypes DEF TypeInv
<1>1. PICK r : r = [flight[p][i] EXCEPT !.phase = "replied", !.answer = answer] OBVIOUS
<1>2. r \in Requests /\ r.phase = "replied" /\ r.answer = answer
      /\ r.text = flight[p][i].text /\ r.base = flight[p][i].base
      /\ r.revision = flight[p][i].revision
  BY <1>0, <1>1 DEF Requests
<1>3. Advance(p, i, r) BY <1>1 DEF Reply
<1>4. /\ Saves' = [Saves EXCEPT ![p][i] = Decided(r)']
      /\ Saves[p][i] = Decided(flight[p][i]) /\ i \in DOMAIN Saves[p]
  BY <1>2, <1>3, DecidesOne
<1>5. PICK s : s = flight[p][i] OBVIOUS
<1>6. Decided(s) = [text |-> s.text, base |-> s.base, answer |-> s.answer,
                    revision |-> s.revision]
  BY <1>5 DEF Decided
<1>7. Decided(r)' = [text |-> s.text, base |-> s.base, answer |-> answer,
                     revision |-> s.revision]
  BY <1>2, <1>5 DEF Decided
<1>8. Decided(r)' = [Saves[p][i] EXCEPT !.answer = answer] BY <1>4, <1>5, <1>6, <1>7
<1>9. RegisterInv'
  <2>1. Revision' = Revision BY DEF Revision
  <2> QED BY <1>2, <1>3, <2>1, UnderwayNext
<1>10. Saves[p][i].base = s.base /\ Saves[p][i].answer = s.answer BY <1>4, <1>5, <1>6
<1> QED BY <1>4, <1>5, <1>8, <1>9, <1>10 DEF Register!Becomes

LEMMA RegisterServer ==
  ASSUME PromptReadBack, TypeInv, TypeInv', RegisterInv, NEW p \in Pages,
         NEW i \in DOMAIN flight[p],
         CheckNote(p, i) \/ WriteNote(p, i) \/ ReadBack(p, i)
  PROVE  /\ RegisterInv' /\ i \in DOMAIN Saves[p]
         /\ \/ UNCHANGED <<versions, Saves>>
            \/ Register!Accept(p, i) \/ Register!Refuse(p, i) \/ Register!Fail(p, i)
<1> DEFINE s == flight[p][i]
<1>0. s \in Requests /\ s.text \in Texts /\ s.base \in Nat /\ Underway(s)
  BY RequestTypes DEF TypeInv, RegisterInv
<1>1. /\ Saves[p][i] = Decided(s) /\ i \in DOMAIN Saves[p]
      /\ Revision \in Nat
  BY SavesTypes, RevisionTypes DEF TypeInv
<1>2. CASE CheckNote(p, i)
  <2>1. s.phase = "sent" /\ UNCHANGED versions /\ s.answer = "none"
    BY <1>0, <1>2 DEF CheckNote, Underway
  <2>2. CASE Revision = 0 /\ s.base \notin {0, 1} /\ Reply(p, i, "conflict")
    <3>1. /\ RegisterInv'
          /\ Register!Becomes(p, i, [Saves[p][i] EXCEPT !.answer = "conflict"])
          /\ Saves[p][i].base = s.base /\ Saves[p][i].answer = "none"
      BY <2>1, <2>2, RegisterReply
    <3> QED BY <1>1, <2>1, <2>2, <3>1
        DEF Register!Refuse, Register!Undecided, Register!IsCurrent, Register!Revision, Revision
  <2>3. CASE /\ ~(Revision = 0 /\ s.base \notin {0, 1})
             /\ Advance(p, i, [s EXCEPT !.phase = "checked", !.found = Revision # 0])
    <3>1. PICK r : r = [s EXCEPT !.phase = "checked", !.found = Revision # 0] OBVIOUS
    <3>2. r \in Requests /\ r.phase = "checked" /\ r.answer = s.answer /\ r.text = s.text
          /\ r.base = s.base /\ r.revision = s.revision /\ r.found = (Revision # 0)
      BY <1>0, <3>1 DEF Requests
    <3>3. Advance(p, i, r) BY <2>3, <3>1
    <3>4. Revision' = Revision BY <2>1 DEF Revision
    <3>5. RegisterInv' BY <2>1, <2>3, <3>2, <3>3, <3>4, UnderwayNext
    <3>6. Saves' = [Saves EXCEPT ![p][i] = Decided(r)'] BY <2>1, <3>2, <3>3, DecidesOne
    <3>7. Decided(r)' = Saves[p][i] BY <1>1, <2>1, <3>2 DEF Decided
    <3>8. UNCHANGED Saves
      <4>1. Saves \in [Pages -> Seq(Decisions)] BY SavesTypes
      <4> QED BY <1>1, <3>6, <3>7, <4>1
    <3> QED BY <1>1, <2>1, <3>5, <3>8
  <2> QED BY <1>2, <2>2, <2>3 DEF CheckNote
<1>3. CASE WriteNote(p, i)
  <2>1. s.phase = "checked" /\ s.answer = "none"
        /\ IF s.found THEN Revision # 0 ELSE s.base \in {0, 1}
    BY <1>0, <1>3 DEF WriteNote, Underway
  <2>2. CASE /\ IF s.found THEN RevisionMatches(s.base) ELSE Revision = 0
             /\ versions' = Append(versions, s.text)
             /\ Advance(p, i, [s EXCEPT !.phase = "written"])
    <3>1. PICK r : r = [s EXCEPT !.phase = "written"] OBVIOUS
    <3>2. r \in Requests /\ r.phase = "written" /\ r.answer = s.answer /\ r.text = s.text
          /\ r.base = s.base
      BY <1>0, <3>1 DEF Requests
    <3>3. Advance(p, i, r) BY <2>2, <3>1
    <3>4. Revision' = Revision + 1 BY <1>0, <2>2, Grown DEF TypeInv
    <3>5. RegisterInv' BY <1>1, <2>1, <3>2, <3>3, <3>4, UnderwayNext
    <3>6. \A q \in Pages : \A j \in DOMAIN flight[q] : flight[q][j].phase # "written"
      BY <1>3 DEF WriteNote
    <3>7. Saves' = [Saves EXCEPT ![p][i] = Decided(r)'] BY <3>2, <3>3, <3>6, DecidesOne
    <3>8. Decided(r)' = [Saves[p][i] EXCEPT !.answer = "ok", !.revision = Revision + 1]
      <4>1. Decided(r)' = [text |-> s.text, base |-> s.base, answer |-> "ok",
                           revision |-> Revision + 1]
        BY <3>2, <3>4 DEF Decided
      <4>2. Decided(s) \in Decisions /\ Decided(s).text = s.text /\ Decided(s).base = s.base
        BY <1>0, <1>1, DecidedTypes DEF Decided
      <4>3. [Decided(s) EXCEPT !.answer = "ok", !.revision = Revision + 1]
              = [text |-> s.text, base |-> s.base, answer |-> "ok", revision |-> Revision + 1]
        BY <4>2, Redecided
      <4> QED BY <1>1, <4>1, <4>3
    <3>9. Saves[p][i].answer = "none" /\ Saves[p][i].base = s.base /\ Saves[p][i].text = s.text
      BY <1>1, <2>1 DEF Decided
    <3>10. Register!IsCurrent(s.base)
      BY <2>1, <2>2 DEF RevisionMatches, Register!IsCurrent, Register!Revision, Revision
    <3> HIDE DEF s
    <3> QED BY <1>1, <2>2, <3>5, <3>7, <3>8, <3>9, <3>10
        DEF Register!Accept, Register!Undecided, Register!Becomes, Register!Revision, Revision
  <2>3. CASE /\ ~IF s.found THEN RevisionMatches(s.base) ELSE Revision = 0
             /\ Refused(p, i) /\ UNCHANGED versions
    <3>1. ASSUME NEW answer \in {"conflict", "error"}, Reply(p, i, answer)
          PROVE  /\ RegisterInv'
                 /\ Register!Becomes(p, i, [Saves[p][i] EXCEPT !.answer = answer])
                 /\ Saves[p][i].base = s.base /\ Saves[p][i].answer = "none"
      BY <2>1, <2>3, <3>1, RegisterReply
    <3>2. CASE s.found
      <4>1. Reply(p, i, "conflict") BY <2>3, <3>2 DEF Refused
      <4>2. ~Register!IsCurrent(s.base)
        BY <2>1, <2>3, <3>2 DEF RevisionMatches, Register!IsCurrent, Register!Revision, Revision
      <4> QED BY <1>1, <2>3, <3>1, <4>1, <4>2 DEF Register!Refuse, Register!Undecided
    <3>3. CASE ~s.found
      <4>1. Reply(p, i, "error") BY <2>3, <3>3 DEF Refused
      <4> QED BY <1>1, <2>3, <3>1, <4>1 DEF Register!Fail
    <3> QED BY <3>2, <3>3
  <2> QED BY <1>3, <2>2, <2>3 DEF WriteNote
<1>4. CASE ReadBack(p, i)
  <2>1. PICK r : r = [s EXCEPT !.phase = "replied", !.answer = "ok",
                               !.revision = AnswerRevision]
    OBVIOUS
  <2>2. r \in Requests /\ r.phase = "replied" /\ r.answer = "ok" /\ r.text = s.text
        /\ r.base = s.base /\ r.revision = Revision
    BY <1>0, <1>1, <2>1 DEF Requests, AnswerRevision
  <2>3. s.phase = "written" /\ UNCHANGED versions /\ Advance(p, i, r)
    BY <1>4, <2>1 DEF ReadBack
  <2>4. Revision' = Revision BY <2>3 DEF Revision
  <2>5. RegisterInv' BY <2>2, <2>3, <2>4, UnderwayNext
  <2>6. Saves' = [Saves EXCEPT ![p][i] = Decided(r)'] BY <2>2, <2>3, DecidesOne
  <2>7. Decided(r)' = Saves[p][i] BY <1>1, <2>2, <2>3 DEF Decided
  <2>8. UNCHANGED Saves
    <3>1. Saves \in [Pages -> Seq(Decisions)] BY SavesTypes
    <3> QED BY <1>1, <2>6, <2>7, <3>1
  <2> QED BY <1>1, <2>3, <2>5, <2>8
<1> QED BY <1>2, <1>3, <1>4

LEMMA RegisterStep ==
  ASSUME PromptReadBack, TypeInv, TypeInv', RegisterInv, [Next]_vars
  PROVE  RegisterInv' /\ [Register!Next]_(Register!vars)
<1> USE DEF Register!vars
<1>1. ASSUME UNCHANGED <<versions, flight>>
      PROVE  RegisterInv' /\ UNCHANGED <<versions, Saves>>
  <2>1. Revision' = Revision BY <1>1 DEF Revision
  <2>2. RegisterInv' BY <1>1, <2>1 DEF RegisterInv, Underway
  <2> QED BY <1>1, <2>2, DecidesNone
<1>2. ASSUME NEW p \in Pages, ServerStep(p)
      PROVE  RegisterInv' /\ [Register!Next]_(Register!vars)
  <2>1. CASE AnswerFetch(p) BY <1>1, <2>1 DEF AnswerFetch
  <2>2. ASSUME NEW i \in DOMAIN flight[p], CheckNote(p, i) \/ WriteNote(p, i) \/ ReadBack(p, i)
        PROVE  RegisterInv' /\ [Register!Next]_(Register!vars)
    BY <2>2, RegisterServer DEF Register!Next
  <2> QED BY <1>2, <2>1, <2>2 DEF ServerStep
<1>3. ASSUME NEW p \in Pages, PageStep(p)
      PROVE  RegisterInv' /\ [Register!Next]_(Register!vars)
  <2>1. CASE PageLoaded(p) \/ PdfLoaded(p) BY <1>1, <2>1 DEF PageLoaded, PdfLoaded
  <2>2. CASE TimerFires(p)
    <3>1. known[p] \in 0..Revision /\ seen[p] \in SUBSET Nat
      BY RevisionTypes DEF TypeInv, KnownOK
    <3>2. Save(p, known[p], seen[p]) /\ UNCHANGED versions BY <2>2 DEF TimerFires
    <3> QED BY <3>1, <3>2, RegisterPost DEF Register!Next
  <2>3. CASE RetryLoaded(p)
    <3>1. known'[p] \in Nat /\ known'[p] <= Revision' /\ seen'[p] \in SUBSET Nat
      BY DEF TypeInv, KnownOK
    <3>2. Save(p, known'[p], seen'[p]) /\ UNCHANGED versions BY <2>3 DEF RetryLoaded
    <3>3. known'[p] \in 0..Revision BY <3>1, <3>2, SameRevision, RevisionTypes DEF TypeInv
    <3> QED BY <3>1, <3>2, <3>3, RegisterPost DEF Register!Next
  <2>4. ASSUME NEW i \in DOMAIN flight[p], Saved(p, i) \/ NotSaved(p, i) \/ Unheard(p, i)
        PROVE  RegisterInv' /\ [Register!Next]_(Register!vars)
    <3>1. /\ flight[p][i].phase = "replied" /\ UNCHANGED versions
          /\ flight' = [flight EXCEPT ![p] = RemoveAt(@, i)]
      BY <2>4 DEF Saved, NotSaved, Unheard, Hear
    <3> QED BY <3>1, RegisterAnswer DEF Register!Next
  <2> QED BY <1>3, <2>1, <2>2, <2>3, <2>4 DEF PageStep
<1>4. ASSUME NEW p \in Pages, UserStep(p)
      PROVE  RegisterInv' /\ [Register!Next]_(Register!vars)
  <2>1. CASE Open(p) \/ LoadPage(p) \/ Type(p) \/ RetryReload(p)
    BY <1>1, <2>1 DEF Open, LoadPage, Type, RetryReload
  <2>2. CASE RetrySave(p)
    <3>1. known[p] \in 0..Revision /\ seen'[p] \in SUBSET Nat
      BY <2>2, GoesOnTypes, RevisionTypes DEF RetrySave, TypeInv, KnownOK
    <3>2. Save(p, known[p], seen'[p]) /\ UNCHANGED versions BY <2>2 DEF RetrySave
    <3> QED BY <3>1, <3>2, RegisterPost DEF Register!Next
  <2>3. CASE Close(p)
    <3>1. /\ \A q \in Pages \ {p} : flight'[q] = flight[q]
          /\ DOMAIN flight'[p] = DOMAIN flight[p]
          /\ \A j \in DOMAIN flight[p] : flight'[p][j] = [flight[p][j] EXCEPT !.live = FALSE]
          /\ UNCHANGED versions
      BY <2>3, Unheeded DEF Close, TypeInv
    <3>2. ASSUME NEW q \in Pages, NEW j \in DOMAIN flight[q]
          PROVE  /\ flight'[q][j].text = flight[q][j].text
                 /\ flight'[q][j].base = flight[q][j].base
                 /\ flight'[q][j].phase = flight[q][j].phase
                 /\ flight'[q][j].answer = flight[q][j].answer
                 /\ flight'[q][j].revision = flight[q][j].revision
                 /\ flight'[q][j].found = flight[q][j].found
      <4>1. flight[q][j] \in Requests BY RequestTypes DEF TypeInv
      <4>2. flight'[q][j] \in {flight[q][j], [flight[q][j] EXCEPT !.live = FALSE]} BY <3>1
      <4> QED BY <4>1, <4>2 DEF Requests
    <3>3. \A q \in Pages : DOMAIN flight'[q] = DOMAIN flight[q] BY <3>1
    <3>4. UNCHANGED <<versions, Saves>> BY <3>1, <3>2, <3>3, DecidesNone
    <3>5. Revision' = Revision BY <3>1 DEF Revision
    <3>6. RegisterInv'
      <4> SUFFICES ASSUME NEW q \in Pages, NEW j \in DOMAIN flight[q]
                   PROVE  Underway(flight[q][j])'
        BY <3>3 DEF RegisterInv
      <4>1. Underway(flight[q][j]) BY DEF RegisterInv
      <4> QED BY <3>2, <3>5, <4>1 DEF Underway
    <3> QED BY <3>4, <3>6
  <2> QED BY <1>4, <2>1, <2>2, <2>3 DEF UserStep
<1>5. ASSUME NEW p \in Pages, FaultStep(p)
      PROVE  RegisterInv' /\ [Register!Next]_(Register!vars)
  <2>1. CASE LoadFails(p) \/ RetryFails(p) BY <1>1, <2>1 DEF LoadFails, RetryFails
  <2>2. ASSUME NEW i \in DOMAIN flight[p], Lose(p, i)
        PROVE  RegisterInv' /\ [Register!Next]_(Register!vars)
    <3>1. flight[p][i].phase # "written" /\ Reply(p, i, "error") /\ UNCHANGED versions
      BY <2>2 DEF Lose
    <3>2. /\ RegisterInv' /\ i \in DOMAIN Saves[p]
          /\ Register!Becomes(p, i, [Saves[p][i] EXCEPT !.answer = "error"])
      BY <3>1, RegisterReply
    <3> QED BY <3>1, <3>2 DEF Register!Fail, Register!Next
  <2> QED BY <1>5, <2>1, <2>2 DEF FaultStep
<1>6. CASE UNCHANGED vars BY <1>1, <1>6 DEF vars
<1> QED BY <1>2, <1>3, <1>4, <1>5, <1>6 DEF Next

\* However the threads of requests interleave, and whatever is lost: if nothing
\* is written between a write and its read-back, the server's part of saving a
\* note is a compare-and-set.
THEOREM ImplementsNoteRegister ==
  ASSUME PromptReadBack
  PROVE  Spec => RegisterSpec
<1>1. Init => Register!Init /\ RegisterInv
  <2> SUFFICES ASSUME Init PROVE Register!Init /\ RegisterInv OBVIOUS
  <2>1. \A p \in Pages : flight[p] = <<>> /\ DOMAIN flight[p] = {} BY DEF Init
  <2>2. \A p \in Pages : [i \in DOMAIN flight[p] |-> Decided(flight[p][i])] = <<>>
    BY <2>1
  <2>3. Saves = [p \in Pages |-> <<>>] BY <2>2 DEF Saves
  <2> QED BY <2>1, <2>3 DEF Init, Register!Init, RegisterInv
<1>2. TypeInv /\ TypeInv' /\ RegisterInv /\ [Next]_vars
        => RegisterInv' /\ [Register!Next]_(Register!vars)
  BY RegisterStep
<1> QED BY TypeInit, TypeNext, <1>1, <1>2, PTL DEF Spec, RegisterSpec, Register!Spec
====
