-------------------------- MODULE HighlightsProofs --------------------------
(***************************************************************************)
(* Proofs about Highlights, for every set of pages and versions: the types *)
(* and the two invariants that Highlights_tabs checks.                     *)
(***************************************************************************)
EXTENDS Highlights, TLAPS

USE HighlightsAssumption

-----------------------------------------------------------------------------
(* Types.                                                                  *)

RowsOK   == rows \in [Ids -> Rows \union {NoRow}]
LoadOK   == load \in [Pages -> Loads \union {Idle}]
CreateOK == creating \in [Pages -> Creates \union {Idle}]
PostOK   == post \in [Pages -> Posts \union {Idle}]
CardsOK  == cards \in [Pages -> SUBSET Cards]
PrintsOK == prints \in [Docs -> Docs \union {NoDoc}] /\ strayed \subseteq Docs
ScreenOK ==
  /\ shown \in [Pages -> Docs \union {NoDoc}] /\ pdf \in [Pages -> Docs \union {NoDoc}]
  /\ pages \in [Pages -> Docs \union {NoDoc}] /\ pending \in [Pages -> Docs \union {NoDoc}]
  /\ carried \in [Pages -> BOOLEAN]
BoundsOK ==
  /\ marks \in 0..MaxMarks /\ notes \in 0..MaxNotes
  /\ loads \in 0..MaxLoads /\ faults \in 0..MaxFaults

LEMMA TypeParts ==
  TypeOK <=> RowsOK /\ LoadOK /\ CreateOK /\ PostOK /\ CardsOK /\ PrintsOK /\ ScreenOK
               /\ BoundsOK /\ blind \in BOOLEAN
BY DEF TypeOK, RowsOK, LoadOK, CreateOK, PostOK, CardsOK, PrintsOK, ScreenOK, BoundsOK

LEMMA TypePartsNext ==
  TypeOK' <=> RowsOK' /\ LoadOK' /\ CreateOK' /\ PostOK' /\ CardsOK' /\ PrintsOK' /\ ScreenOK'
                /\ BoundsOK' /\ blind' \in BOOLEAN
BY DEF TypeOK, RowsOK, LoadOK, CreateOK, PostOK, CardsOK, PrintsOK, ScreenOK, BoundsOK

\* What is not idle is a load, a create or a post.
LEMMA LoadUnderWay ==
  ASSUME LoadOK, NEW p \in Pages, load[p] # Idle
  PROVE  load[p] \in Loads
BY DEF LoadOK

LEMMA CreateUnderWay ==
  ASSUME CreateOK, NEW p \in Pages, creating[p] # Idle
  PROVE  creating[p] \in Creates
BY DEF CreateOK

LEMMA PostUnderWay ==
  ASSUME PostOK, NEW p \in Pages, post[p] # Idle
  PROVE  post[p] \in Posts
BY DEF PostOK

LEMMA CardTypes ==
  ASSUME RowsOK
  PROVE  /\ \A i \in Here : rows[i] \in Rows /\ CardOf(i) \in Cards
         /\ \A d \in Docs : CardsIn(d) \subseteq Cards
         /\ \A i \in Ids \union {0} : CardIfHere(i) \subseteq Cards
<1>1. \A i \in Here : rows[i] \in Rows BY DEF RowsOK, Here
<1>2. \A i \in Here : CardOf(i) \in Cards
  BY <1>1 DEF CardOf, Here, Rows, Cards
<1> QED BY <1>1, <1>2 DEF CardsIn, CardIfHere

LEMMA DrawnTypes ==
  ASSUME NEW list \in SUBSET Cards
  PROVE  Drawn(list) \subseteq Cards
BY DEF Drawn, Cards

LEMMA RedrawTypes ==
  ASSUME PostOK, NEW p \in Pages
  PROVE  /\ Redraw(p) \in [Pages -> Posts \union {Idle}]
         /\ Replace(p) \in [Pages -> Posts \union {Idle}]
<1>1. CASE post[p] = Idle
  BY <1>1 DEF PostOK, Redraw, Replace
<1>2. CASE post[p] # Idle
  <2>1. post[p] \in Posts BY <1>2, PostUnderWay
  <2>2. /\ [post[p] EXCEPT !.drawn = FALSE] \in Posts
        /\ [post[p] EXCEPT !.drawn = FALSE, !.listed = FALSE] \in Posts
    BY <2>1 DEF Posts
  <2> QED BY <1>2, <2>2 DEF PostOK, Redraw, Replace
<1> QED BY <1>1, <1>2

-----------------------------------------------------------------------------
LEMMA TypeInit == Init => TypeOK
<1> SUFFICES ASSUME Init PROVE TypeOK OBVIOUS
<1>1. RowsOK /\ PrintsOK BY DEF Init, RowsOK, PrintsOK
<1>2. LoadOK /\ CreateOK /\ PostOK BY DEF Init, LoadOK, CreateOK, PostOK
<1>3. CardsOK BY DEF Init, CardsOK
<1>4. ScreenOK /\ blind \in BOOLEAN BY DEF Init, ScreenOK
<1>5. BoundsOK BY DEF Init, BoundsOK
<1> QED BY <1>1, <1>2, <1>3, <1>4, <1>5, TypeParts

LEMMA TypeAbandon ==
  ASSUME TypeOK, NEW p \in Pages, load[p] # Idle, Abandon(p)
  PROVE  LoadOK' /\ PostOK' /\ CardsOK' /\ shown' \in [Pages -> Docs \union {NoDoc}]
<1> USE TypeParts
<1>1. load[p] \in Loads BY LoadUnderWay
<1>2. CASE load' = [load EXCEPT ![p] = Idle] /\ UNCHANGED <<shown, cards, post>>
  BY <1>2 DEF LoadOK, PostOK, CardsOK, ScreenOK
<1>3. CASE /\ load[p].oldDoc # NoDoc
           /\ load' = [load EXCEPT ![p].phase = "sent", ![p].for = "restore",
                                   ![p].doc = load[p].oldDoc]
           /\ UNCHANGED <<shown, cards, post>>
  <2>1. [load[p] EXCEPT !.phase = "sent", !.for = "restore", !.doc = load[p].oldDoc] \in Loads
    BY <1>1, <1>3 DEF Loads
  <2> QED BY <1>3, <2>1 DEF LoadOK, PostOK, CardsOK, ScreenOK
<1>4. CASE /\ load' = [load EXCEPT ![p] = Idle]
           /\ shown' = [shown EXCEPT ![p] = load[p].oldDoc]
           /\ \E list \in IF load[p].oldCards # {} THEN load[p].oldCards ELSE {cards[p]} :
                cards' = [cards EXCEPT ![p] = Drawn(list)]
           /\ post' = IF load[p].oldCards # {} THEN Replace(p) ELSE Redraw(p)
  <2>1. load[p].oldDoc \in Docs \union {NoDoc} /\ load[p].oldCards \subseteq SUBSET Cards
    BY <1>1 DEF Loads
  <2>2. PICK list \in SUBSET Cards : cards' = [cards EXCEPT ![p] = Drawn(list)]
    BY <1>4, <2>1 DEF CardsOK
  <2>3. PostOK' BY <1>4, RedrawTypes DEF PostOK
  <2> QED BY <1>4, <2>1, <2>2, <2>3, DrawnTypes DEF LoadOK, CardsOK, ScreenOK
<1> QED BY <1>2, <1>3, <1>4 DEF Abandon

LEMMA TypeLoad ==
  ASSUME TypeOK, NEW p \in Pages, LoadStep(p)
  PROVE  TypeOK'
<1> USE TypeParts, TypePartsNext
<1>1. CASE AnswerLoad(p)
  <2> USE <1>1 DEF AnswerLoad
  <2>1. load[p] \in Loads BY LoadUnderWay DEF Idle
  <2>2. CardsIn(load[p].doc) \subseteq Cards /\ prints[load[p].doc] \in Docs \union {NoDoc}
    BY <2>1, CardTypes DEF Loads, PrintsOK
  <2>3. [load[p] EXCEPT !.phase = "answered", !.cards = CardsIn(load[p].doc),
                        !.print = prints[load[p].doc]] \in Loads
    BY <2>1, <2>2 DEF Loads
  <2>4. LoadOK' BY <2>3 DEF LoadOK
  <2> QED
    BY <2>4 DEF server, screen, bounds, RowsOK, CreateOK, PostOK, CardsOK, PrintsOK, ScreenOK,
                BoundsOK
<1>2. CASE PageLoaded(p)
  <2> USE <1>2 DEF PageLoaded
  <2>1. load[p] \in Loads BY LoadUnderWay DEF Idle
  <2> DEFINE old == IF load[p].oldCards = {} THEN {cards[p]} ELSE load[p].oldCards
  <2>2. old \in SUBSET (SUBSET Cards)
    BY <2>1 DEF Loads, CardsOK
  <2>2a. [load[p] EXCEPT !.phase = "pdf", !.oldCards = old] \in Loads
    <3> HIDE DEF old
    <3> QED BY ONLY <2>1, <2>2 DEF Loads
  <2>2b. load' = [load EXCEPT ![p] = [load[p] EXCEPT !.phase = "pdf", !.oldCards = old]]
    OBVIOUS
  <2>3. LoadOK' BY <2>2a, <2>2b DEF LoadOK
  <2>4. PostOK' BY RedrawTypes DEF PostOK
  <2>5. CardsOK' BY <2>1 DEF CardsOK, Loads
  <2>6. ScreenOK' BY <2>1 DEF ScreenOK, Loads
  <2> QED
    BY <2>3, <2>4, <2>5, <2>6 DEF server, bounds, RowsOK, CreateOK, PrintsOK, BoundsOK
<1>3. CASE PdfOpens(p)
  <2> USE <1>3 DEF PdfOpens
  <2>1. load[p] \in Loads BY LoadUnderWay DEF Idle
  <2>2. ScreenOK' BY <2>1 DEF ScreenOK, Loads
  <2>3. LoadOK' BY DEF LoadOK
  <2> QED
    BY <2>2, <2>3 DEF server, bounds, RowsOK, CreateOK, PostOK, CardsOK, PrintsOK, BoundsOK
<1>4. CASE LoadFails(p)
  <2>1. LoadOK' /\ PostOK' /\ CardsOK' /\ shown' \in [Pages -> Docs \union {NoDoc}]
    BY <1>4, TypeAbandon DEF LoadFails
  <2> QED
    BY <1>4, <2>1 DEF LoadFails, Fault, server, RowsOK, CreateOK, PrintsOK, ScreenOK, BoundsOK
<1>5. CASE PdfRefused(p)
  <2>1. load[p] # Idle BY <1>5 DEF PdfRefused, Idle
  <2>2. LoadOK' /\ PostOK' /\ CardsOK' /\ shown' \in [Pages -> Docs \union {NoDoc}]
    BY <1>5, <2>1, TypeAbandon DEF PdfRefused
  <2>3. load[p].doc \in Docs BY <2>1, LoadUnderWay DEF Loads
  <2> QED
    BY <1>5, <2>2, <2>3 DEF PdfRefused, server, bounds, RowsOK, CreateOK, PrintsOK, ScreenOK,
                            BoundsOK
<1> QED BY <1>1, <1>2, <1>3, <1>4, <1>5 DEF LoadStep

LEMMA TypeCreate ==
  ASSUME TypeOK, NEW p \in Pages, CreateStep(p)
  PROVE  TypeOK'
<1> USE TypeParts, TypePartsNext
<1>1. CASE Insert(p)
  <2> USE <1>1 DEF Insert
  <2>1. creating[p] \in Creates BY CreateUnderWay DEF Idle
  <2>2. PICK i \in Ids :
          /\ rows' = [rows EXCEPT ![i] =
               [mark |-> creating[p].mark, doc |-> creating[p].doc, from |-> creating[p].from,
                note |-> 0, revision |-> 1]]
          /\ creating' = [creating EXCEPT ![p].phase = "stored", ![p].id = i]
    OBVIOUS
  <2>3. [mark |-> creating[p].mark, doc |-> creating[p].doc, from |-> creating[p].from,
         note |-> 0, revision |-> 1] \in Rows
    BY <2>1 DEF Creates, Rows
  <2>4. [creating[p] EXCEPT !.phase = "stored", !.id = i] \in Creates
    BY <2>1 DEF Creates
  <2>5. RowsOK' BY <2>2, <2>3 DEF RowsOK
  <2>6. CreateOK' BY <2>2, <2>4 DEF CreateOK
  <2>7. PrintsOK' BY <2>1 DEF PrintsOK, Creates
  <2> QED
    BY <2>5, <2>6, <2>7 DEF screen, bounds, LoadOK, PostOK, CardsOK, ScreenOK, BoundsOK
<1>2. CASE AnswerCreate(p)
  <2> USE <1>2 DEF AnswerCreate
  <2>1. creating[p] \in Creates BY CreateUnderWay DEF Idle
  <2>2. CardIfHere(creating[p].id) \subseteq Cards
    BY <2>1, CardTypes DEF Creates
  <2>3. [creating[p] EXCEPT !.phase = IF creating[p].id \in Here THEN "ok" ELSE "error",
                            !.card = CardIfHere(creating[p].id)] \in Creates
    BY <2>1, <2>2 DEF Creates
  <2>4. CreateOK' BY <2>3 DEF CreateOK
  <2> QED
    BY <2>4 DEF server, screen, bounds, RowsOK, LoadOK, PostOK, CardsOK, PrintsOK, ScreenOK,
                BoundsOK
<1>3. CASE LoseCreate(p)
  <2> USE <1>3 DEF LoseCreate, Fault
  <2>1. creating[p] \in Creates BY CreateUnderWay DEF Idle
  <2>2. [creating[p] EXCEPT !.phase = "error"] \in Creates BY <2>1 DEF Creates
  <2>3. CreateOK' BY <2>2 DEF CreateOK
  <2> QED
    BY <2>3 DEF server, screen, RowsOK, LoadOK, PostOK, CardsOK, PrintsOK, ScreenOK, BoundsOK
<1>4. CASE Created(p)
  <2> USE <1>4 DEF Created
  <2>1. creating[p] \in Creates BY CreateUnderWay DEF Idle
  <2>2. cards[p] \union creating[p].card \in SUBSET Cards
    BY <2>1 DEF Creates, CardsOK
  <2>3. CardsOK' BY <2>2, DrawnTypes DEF CardsOK
  <2>4. PostOK' BY RedrawTypes DEF PostOK
  <2> QED
    BY <2>3, <2>4 DEF server, bounds, RowsOK, LoadOK, CreateOK, PrintsOK, ScreenOK, BoundsOK
<1>5. CASE NotCreated(p)
  BY <1>5 DEF NotCreated, server, screen, bounds, RowsOK, LoadOK, CreateOK, PostOK, CardsOK,
              PrintsOK, ScreenOK, BoundsOK
<1> QED BY <1>1, <1>2, <1>3, <1>4, <1>5 DEF CreateStep

LEMMA TypeReply ==
  ASSUME PostOK, NEW p \in Pages, post[p] # Idle,
         NEW phase \in {"sent", "written", "ok", "conflict", "error"}, Reply(p, phase)
  PROVE  PostOK'
<1>1. post[p] \in Posts BY PostUnderWay
<1>2. [post[p] EXCEPT !.phase = phase] \in Posts BY <1>1 DEF Posts
<1> QED BY <1>2 DEF PostOK, Reply

LEMMA TypePost ==
  ASSUME TypeOK, NEW p \in Pages, PostStep(p)
  PROVE  TypeOK'
<1> USE TypeParts, TypePartsNext
<1>1. CASE WriteNote(p)
  <2> USE <1>1 DEF WriteNote
  <2>1. post[p] # Idle /\ post[p] \in Posts BY PostUnderWay DEF Idle
  <2>2. PostOK' BY <2>1, TypeReply
  <2>3. RowsOK' /\ blind' \in BOOLEAN
    <3>1. CASE UNCHANGED <<rows, blind>> BY <3>1 DEF RowsOK
    <3>2. CASE /\ post[p].id \in Here
               /\ rows' = [rows EXCEPT ![post[p].id].note = post[p].note,
                                       ![post[p].id].revision = @ + 1]
               /\ blind' = (blind \/ (rows[post[p].id].mark = post[p].mark
                              /\ rows[post[p].id].note \notin {0, post[p].known}))
      <4>1. rows[post[p].id] \in Rows BY <3>2, CardTypes
      <4>2. post[p].note \in 0..MaxNotes BY ONLY <2>1 DEF Posts
      <4> DEFINE old == rows[post[p].id]
      <4> DEFINE new == [old EXCEPT !.note = post[p].note, !.revision = old.revision + 1]
      <4>3. rows' = [rows EXCEPT ![post[p].id] = new] BY <3>2, <4>1 DEF Rows
      <4>3a. new \in Rows
        <5> HIDE DEF old
        <5>1. old.revision + 1 \in Nat BY ONLY <4>1 DEF Rows, old
        <5> QED BY ONLY <4>1, <4>2, <5>1 DEF Rows, old
      <4>3b. RowsOK' BY <4>3, <4>3a DEF RowsOK
      <4>4. blind' \in BOOLEAN BY <3>2, Zenon
      <4> QED BY <4>3b, <4>4
    <3> QED BY <3>1, <3>2
  <2> QED
    BY <2>2, <2>3 DEF screen, bounds, LoadOK, CreateOK, CardsOK, PrintsOK, ScreenOK, BoundsOK
<1>2. CASE ReadBack(p)
  <2> DEFINE told == IF post[p].op = "save"
                       THEN {[c EXCEPT !.note = post[p].note] : c \in CardIfHere(post[p].id)}
                       ELSE {c \in CardIfHere(post[p].id) : c.doc = post[p].doc}
  <2>1. post[p] \in Posts BY <1>2, PostUnderWay DEF ReadBack, Idle
  <2>2. CardIfHere(post[p].id) \subseteq Cards BY <2>1, CardTypes DEF Posts
  <2>3. told \subseteq Cards BY <2>1, <2>2 DEF Cards, Posts
  <2>4. [post[p] EXCEPT !.phase = IF told = {} THEN "error" ELSE "ok", !.answer = told] \in Posts
    BY <2>1, <2>3 DEF Posts
  <2>5. PostOK'
    <3>1. post' = [post EXCEPT ![p].phase = IF told = {} THEN "error" ELSE "ok", ![p].answer = told]
      BY <1>2 DEF ReadBack
    <3> QED BY <2>4, <3>1 DEF PostOK
  <2> QED
    BY <1>2, <2>5 DEF ReadBack, server, screen, bounds, RowsOK, LoadOK, CreateOK, CardsOK,
                      PrintsOK, ScreenOK, BoundsOK
<1>3. CASE Delete(p)
  <2> USE <1>3 DEF Delete
  <2>1. post[p] # Idle BY DEF Idle
  <2>2. PostOK' BY <2>1, TypeReply
  <2>3. RowsOK' BY DEF RowsOK
  <2> QED
    BY <2>2, <2>3 DEF screen, bounds, LoadOK, CreateOK, CardsOK, PrintsOK, ScreenOK, BoundsOK
<1>4. CASE LosePost(p)
  <2> USE <1>4 DEF LosePost, Fault
  <2>1. post[p] # Idle BY DEF Idle
  <2>2. PostOK' BY <2>1, TypeReply
  <2> QED
    BY <2>2 DEF server, screen, RowsOK, LoadOK, CreateOK, CardsOK, PrintsOK, ScreenOK, BoundsOK
<1>5. CASE Heard(p)
  <2> USE <1>5 DEF Heard
  <2>1. post[p] \in Posts BY PostUnderWay DEF Idle
  <2>2. Others(p) \subseteq Cards /\ Asked(p) \subseteq Cards /\ cards[p] \subseteq Cards
    BY DEF Others, Asked, CardsOK
  <2>3. /\ Drawn(Others(p)) \subseteq Cards
        /\ Others(p) \union post[p].answer \subseteq Cards
    BY <2>1, <2>2, DrawnTypes DEF Posts
  <2>4. Others(p) \union
          {[c EXCEPT !.refused = IF post[p].phase = "conflict" THEN post[p].note ELSE 0] :
             c \in Asked(p)} \subseteq Cards
    BY <2>1, <2>2 DEF Posts, Cards
  <2>5. CardsOK'
    BY <2>2, <2>3, <2>4 DEF CardsOK
  <2>6. PostOK' BY DEF PostOK
  <2> QED
    BY <2>5, <2>6 DEF server, bounds, RowsOK, LoadOK, CreateOK, PrintsOK, ScreenOK, BoundsOK
<1>6. CASE SaveAgain(p)
  <2>1. post[p] \in Posts BY <1>6, PostUnderWay DEF SaveAgain, Reloaded, Idle
  <2>2. PICK told \in post[p].answer :
          /\ cards' = [cards EXCEPT ![p] =
               IF Asked(p) = {} THEN @
               ELSE Others(p) \union
                      {[told EXCEPT !.refused = IF post[p].drawn THEN post[p].note ELSE 0]}]
          /\ post' = [post EXCEPT ![p].phase = "sent", ![p].op = "save", ![p].answer = {},
                       ![p].mark = told.mark, ![p].base = told.revision,
                       ![p].known = told.note]
    BY <1>6 DEF SaveAgain
  <2>3. told \in Cards BY <2>1 DEF Posts
  <2>4. [told EXCEPT !.refused = IF post[p].drawn THEN post[p].note ELSE 0] \in Cards
    BY <2>1, <2>3 DEF Posts, Cards
  <2>5. CardsOK' BY <2>2, <2>4 DEF CardsOK, Others
  <2>6. [post[p] EXCEPT !.phase = "sent", !.op = "save", !.answer = {}, !.mark = told.mark,
                        !.base = told.revision, !.known = told.note] \in Posts
    BY <2>1, <2>3 DEF Posts, Cards
  <2>7. PostOK' BY <2>2, <2>6 DEF PostOK
  <2> QED
    BY <1>6, <2>5, <2>7 DEF SaveAgain, server, bounds, RowsOK, LoadOK, CreateOK, PrintsOK,
                            ScreenOK, BoundsOK
<1> QED BY <1>1, <1>2, <1>3, <1>4, <1>5, <1>6 DEF PostStep

LEMMA TypeRequest ==
  ASSUME TypeOK, NEW p \in Pages, shown[p] # NoDoc, NEW card \in cards[p],
         NEW op \in {"save", "reload", "delete"}, NEW note \in 0..MaxNotes,
         Request(p, card, op, note)
  PROVE  PostOK'
<1>1. card \in Cards /\ shown[p] \in Docs BY TypeParts DEF CardsOK, ScreenOK
<1>2. [phase |-> "sent", op |-> op, id |-> card.id, mark |-> card.mark, doc |-> shown[p],
       base |-> card.revision, known |-> card.note, note |-> note, answer |-> {},
       drawn |-> TRUE, listed |-> TRUE] \in Posts
  BY <1>1 DEF Posts, Cards
<1> QED BY <1>2, TypeParts DEF PostOK, Request

LEMMA TypeUser ==
  ASSUME TypeOK, NEW p \in Pages, UserStep(p)
  PROVE  TypeOK'
<1> USE TypeParts, TypePartsNext
<1>1. ASSUME NEW d \in Docs, Load(p, d) PROVE TypeOK'
  <2> USE <1>1 DEF Load
  <2>1. PICK for \in {"open", "select"} :
          load' = [load EXCEPT ![p] =
            [phase |-> "sent", for |-> for, doc |-> d, cards |-> {}, print |-> NoDoc,
             oldDoc |-> shown[p], oldCards |-> {}]]
    OBVIOUS
  <2>2. [phase |-> "sent", for |-> for, doc |-> d, cards |-> {}, print |-> NoDoc,
         oldDoc |-> shown[p], oldCards |-> {}] \in Loads
    BY DEF Loads, ScreenOK
  <2>3. LoadOK' BY <2>1, <2>2 DEF LoadOK
  <2> QED
    BY <2>3 DEF server, screen, RowsOK, CreateOK, PostOK, CardsOK, PrintsOK, ScreenOK, BoundsOK
<1>2. CASE Select(p) \/ Deselect(p)
  BY <1>2 DEF Select, Deselect, server, bounds, RowsOK, LoadOK, CreateOK, PostOK, CardsOK,
              PrintsOK, ScreenOK, BoundsOK
<1>3. CASE Click(p)
  <2> USE <1>3 DEF Click, MayClick, PostedDoc
  <2>1. [phase |-> "sent", mark |-> marks + 1, doc |-> PostedDoc(p), from |-> pending[p],
         carried |-> carried[p], print |-> pdf[p], id |-> 0, card |-> {}] \in Creates
    BY DEF Creates, ScreenOK, BoundsOK
  <2>2. CreateOK' BY <2>1 DEF CreateOK
  <2> QED
    BY <2>2 DEF server, screen, RowsOK, LoadOK, PostOK, CardsOK, PrintsOK, ScreenOK, BoundsOK
<1>4. CASE SaveNote(p)
  <2> USE <1>4 DEF SaveNote
  <2>1. PICK card \in cards[p] :
          /\ Request(p, card, "save", notes + 1)
          /\ cards' = [cards EXCEPT ![p] = (@ \ {card}) \union Drawn({card})]
    OBVIOUS
  <2>2. PostOK' BY <2>1, TypeRequest DEF BoundsOK
  <2>3. CardsOK' BY <2>1, DrawnTypes DEF CardsOK
  <2> QED
    BY <2>2, <2>3 DEF server, RowsOK, LoadOK, CreateOK, PrintsOK, ScreenOK, BoundsOK
<1>5. CASE AskReload(p)
  <2>1. PICK card \in cards[p] : Request(p, card, "reload", card.refused)
    BY <1>5 DEF AskReload
  <2>2. card.refused \in 0..MaxNotes BY DEF CardsOK, Cards
  <2>3. PostOK' BY <1>5, <2>1, <2>2, TypeRequest DEF AskReload
  <2> QED
    BY <1>5, <2>3 DEF AskReload, server, screen, bounds, RowsOK, LoadOK, CreateOK, CardsOK,
                      PrintsOK, ScreenOK, BoundsOK
<1>6. CASE AskDelete(p)
  <2>1. PICK card \in cards[p] : Request(p, card, "delete", 0)
    BY <1>6 DEF AskDelete
  <2>2. PostOK' BY <1>6, <2>1, TypeRequest DEF AskDelete
  <2> QED
    BY <1>6, <2>2 DEF AskDelete, server, screen, bounds, RowsOK, LoadOK, CreateOK, CardsOK,
                      PrintsOK, ScreenOK, BoundsOK
<1> QED BY <1>1, <1>2, <1>3, <1>4, <1>5, <1>6 DEF UserStep

LEMMA TypeIdle == TypeOK /\ UNCHANGED vars => TypeOK'
BY TypeParts, TypePartsNext
   DEF vars, server, screen, bounds, RowsOK, LoadOK, CreateOK, PostOK, CardsOK, PrintsOK,
       ScreenOK, BoundsOK

\* Rows, pages and requests have their types (the records of Highlights.tla),
\* whatever is lost, reused or answered late.
THEOREM TypeCorrect == Spec => []TypeOK
<1>1. TypeOK /\ [Next]_vars => TypeOK'
  BY TypeLoad, TypeCreate, TypePost, TypeUser, TypeIdle DEF Next
<1> QED BY TypeInit, <1>1, PTL DEF Spec

-----------------------------------------------------------------------------
(* Selections, versions and fingerprints.                                  *)

\* The pages on the screen are those of the version shown, whose PDF was opened
\* last; a load that has not replaced them would come back to that version.  What
\* is selected and not carried along is selected in them.
PageBound(p) ==
  /\ pages[p] # NoDoc =>
       /\ pages[p] = shown[p] /\ pages[p] = pdf[p]
       /\ load[p] # Idle => load[p].oldDoc = shown[p]
  /\ load[p].phase = "pdf" => shown[p] = load[p].doc /\ pages[p] = NoDoc
  /\ pending[p] # NoDoc /\ ~carried[p] => pages[p] = pending[p]

CreateBound(p) ==
  creating[p] # Idle /\ ~creating[p].carried =>
    creating[p].doc = creating[p].from /\ creating[p].print = creating[p].doc

BoundInv ==
  /\ HighlightsAreBound
  /\ \A p \in Pages : PageBound(p) /\ CreateBound(p)

LEMMA BoundInit == Init => BoundInv
BY DEF Init, BoundInv, HighlightsAreBound, PageBound, CreateBound, Here, Idle

\* Another page's step leaves a page as it is.
LEMMA Elsewhere ==
  ASSUME NEW p \in Pages, NEW q \in Pages \ {p}, PageBound(q), CreateBound(q),
         /\ shown'[q] = shown[q] /\ pdf'[q] = pdf[q] /\ pages'[q] = pages[q]
         /\ pending'[q] = pending[q] /\ carried'[q] = carried[q] /\ load'[q] = load[q]
         /\ creating'[q] = creating[q]
  PROVE  PageBound(q)' /\ CreateBound(q)'
BY DEF PageBound, CreateBound

LEMMA BoundAbandon ==
  ASSUME TypeOK, NEW p \in Pages, PageBound(p), load[p] # Idle, Abandon(p),
         UNCHANGED <<pages, pending, carried>>,
         pages[p] # NoDoc => pdf'[p] = pdf[p]
  PROVE  PageBound(p)' /\ \A q \in Pages \ {p} : shown'[q] = shown[q] /\ load'[q] = load[q]
<1> USE TypeParts DEF LoadOK, ScreenOK
<1>1. load[p] \in Loads BY LoadUnderWay
<1>2. CASE load' = [load EXCEPT ![p] = Idle] /\ UNCHANGED shown
  BY <1>2 DEF PageBound, Idle
<1>3. CASE /\ load' = [load EXCEPT ![p].phase = "sent", ![p].for = "restore",
                                   ![p].doc = load[p].oldDoc]
           /\ UNCHANGED shown
  <2>1. load'[p].phase = "sent" /\ load'[p].oldDoc = load[p].oldDoc /\ load'[p] # Idle
    BY <1>1, <1>3 DEF Loads, Idle
  <2> QED BY <1>3, <2>1 DEF PageBound
<1>4. CASE load' = [load EXCEPT ![p] = Idle] /\ shown' = [shown EXCEPT ![p] = load[p].oldDoc]
  BY <1>4 DEF PageBound, Idle
<1> QED BY <1>2, <1>3, <1>4 DEF Abandon

LEMMA BoundLoad ==
  ASSUME TypeOK, BoundInv, NEW p \in Pages, LoadStep(p)
  PROVE  BoundInv'
<1> USE TypeParts DEF LoadOK, ScreenOK, BoundInv
<1>1. HighlightsAreBound'
  BY DEF LoadStep, AnswerLoad, PageLoaded, PdfOpens, LoadFails, PdfRefused, server,
         HighlightsAreBound, Here
<1>2. UNCHANGED creating
  BY DEF LoadStep, AnswerLoad, PageLoaded, PdfOpens, LoadFails, PdfRefused
<1>3. CASE AnswerLoad(p)
  <2>1. load[p] \in Loads BY <1>3, LoadUnderWay DEF AnswerLoad, Idle
  <2>2. load'[p].phase = "answered" /\ load'[p].oldDoc = load[p].oldDoc
    BY <1>3, <2>1 DEF AnswerLoad, Loads
  <2>3. load[p] # Idle BY <1>3 DEF AnswerLoad, Idle
  <2>4. \A q \in Pages \ {p} : load'[q] = load[q] BY <1>3 DEF AnswerLoad
  <2>5. UNCHANGED screen BY <1>3 DEF AnswerLoad
  <2>6. PageBound(p)' /\ CreateBound(p)'
    BY <1>2, <2>2, <2>3, <2>5 DEF screen, PageBound, CreateBound
  <2> QED BY <1>1, <1>2, <2>4, <2>5, <2>6, Elsewhere DEF screen
<1>4. CASE PageLoaded(p)
  <2>1. load[p] \in Loads BY <1>4, LoadUnderWay DEF PageLoaded, Idle
  <2>2. load'[p].doc = load[p].doc BY <1>4, <2>1 DEF PageLoaded, Loads
  <2>3. PageBound(p)' /\ CreateBound(p)'
    BY <1>2, <1>4, <2>2 DEF PageLoaded, PageBound, CreateBound
  <2> QED BY <1>1, <1>2, <1>4, <2>3, Elsewhere DEF PageLoaded
<1>5. CASE PdfOpens(p)
  <2>1. PageBound(p)' /\ CreateBound(p)'
    <3>1. load[p] # Idle /\ load'[p] = Idle BY <1>5 DEF PdfOpens, Idle
    <3>2. shown[p] = load[p].doc /\ pages[p] = NoDoc BY <1>5 DEF PdfOpens, PageBound
    <3>3. pages'[p] = shown'[p] /\ pdf'[p] = shown'[p] BY <1>5, <3>2 DEF PdfOpens
    <3>4. pending'[p] = NoDoc \/ carried'[p] BY <1>5, <3>2 DEF PdfOpens, PageBound
    <3> QED BY <1>2, <3>1, <3>3, <3>4 DEF PageBound, CreateBound, Idle
  <2> QED BY <1>1, <1>2, <1>5, <2>1, Elsewhere DEF PdfOpens
<1>6. CASE LoadFails(p)
  <2>1. PageBound(p)' /\ \A q \in Pages \ {p} : shown'[q] = shown[q] /\ load'[q] = load[q]
    BY <1>6, BoundAbandon DEF LoadFails
  <2> QED BY <1>1, <1>2, <1>6, <2>1, Elsewhere DEF LoadFails, CreateBound
<1>7. CASE PdfRefused(p)
  <2>1. load[p] # Idle /\ pages[p] = NoDoc BY <1>7 DEF PdfRefused, Idle, PageBound
  <2>2. PageBound(p)' /\ \A q \in Pages \ {p} : shown'[q] = shown[q] /\ load'[q] = load[q]
    BY <1>7, <2>1, BoundAbandon DEF PdfRefused
  <2> QED BY <1>1, <1>2, <1>7, <2>2, Elsewhere DEF PdfRefused, CreateBound
<1> QED BY <1>3, <1>4, <1>5, <1>6, <1>7 DEF LoadStep

LEMMA BoundCreate ==
  ASSUME TypeOK, BoundInv, NEW p \in Pages, CreateStep(p)
  PROVE  BoundInv'
<1> USE TypeParts DEF CreateOK, ScreenOK, BoundInv
<1>1. CASE Insert(p)
  <2> USE <1>1 DEF Insert
  <2>1. creating[p] \in Creates BY CreateUnderWay DEF Idle
  <2>2. PICK i \in Ids :
          /\ rows' = [rows EXCEPT ![i] =
               [mark |-> creating[p].mark, doc |-> creating[p].doc, from |-> creating[p].from,
                note |-> 0, revision |-> 1]]
          /\ creating' = [creating EXCEPT ![p].phase = "stored", ![p].id = i]
    OBVIOUS
  <2>3. strayed \subseteq strayed' /\ (creating[p].carried => creating[p].doc \in strayed')
    OBVIOUS
  <2>4. creating[p] # Idle BY DEF Idle
  <2>5. HighlightsAreBound'
    <3>1. ASSUME NEW j \in Here' PROVE rows'[j].doc \in {rows'[j].from} \union strayed'
      <4>1. CASE j = i
        BY <2>2, <2>3, <2>4, <4>1 DEF RowsOK, CreateBound, Here
      <4>2. CASE j # i
        BY <2>2, <2>3, <4>2 DEF RowsOK, Here, HighlightsAreBound
      <4> QED BY <4>1, <4>2
    <3>2. ASSUME NEW d \in Docs \ strayed' PROVE prints'[d] \in {NoDoc, d}
      BY <2>1, <2>3, <2>4 DEF PrintsOK, CreateBound, Creates, HighlightsAreBound
    <3> QED BY <3>1, <3>2 DEF HighlightsAreBound
  <2>6. CreateBound(p)'
    BY <2>1, <2>2, <2>4 DEF CreateBound, Creates
  <2> QED BY <2>2, <2>5, <2>6, Elsewhere DEF screen, PageBound
<1>2. CASE AnswerCreate(p) \/ LoseCreate(p) \/ NotCreated(p)
  <2>1. HighlightsAreBound'
    BY <1>2 DEF AnswerCreate, LoseCreate, NotCreated, server, HighlightsAreBound, Here
  <2>2. UNCHANGED <<screen, load>> BY <1>2 DEF AnswerCreate, LoseCreate, NotCreated
  <2>3. creating[p] \in Creates /\ creating[p] # Idle
    BY <1>2, CreateUnderWay DEF AnswerCreate, LoseCreate, NotCreated, Idle
  <2>4. CreateBound(p)'
    <3>1. CASE creating'[p] = Idle BY <3>1 DEF CreateBound
    <3>2. CASE creating'[p] # Idle
      BY <1>2, <2>3, <3>2 DEF AnswerCreate, LoseCreate, NotCreated, CreateBound, Creates
    <3> QED BY <3>1, <3>2
  <2>5. \A q \in Pages \ {p} : creating'[q] = creating[q]
    BY <1>2 DEF AnswerCreate, LoseCreate, NotCreated
  <2> QED BY <2>1, <2>2, <2>4, <2>5, Elsewhere DEF screen, PageBound
<1>3. CASE Created(p)
  <2>1. HighlightsAreBound' BY <1>3 DEF Created, server, HighlightsAreBound, Here
  <2>2. PageBound(p)' /\ CreateBound(p)' BY <1>3 DEF Created, PageBound, CreateBound
  <2> QED BY <1>3, <2>1, <2>2, Elsewhere DEF Created
<1> QED BY <1>1, <1>2, <1>3 DEF CreateStep

LEMMA BoundPost ==
  ASSUME TypeOK, BoundInv, NEW p \in Pages, PostStep(p)
  PROVE  BoundInv'
<1>1. UNCHANGED <<shown, pdf, pages, pending, carried, load, creating, prints, strayed>>
  BY DEF PostStep, WriteNote, ReadBack, Delete, LosePost, Heard, SaveAgain, server, screen
<1>2. \A i \in Here' : i \in Here /\ rows'[i].doc = rows[i].doc /\ rows'[i].from = rows[i].from
  <2>1. CASE rows' = rows BY <2>1 DEF Here
  <2>2. CASE \E i \in Here : rows' = [rows EXCEPT ![i].note = post[p].note, ![i].revision = @ + 1]
    BY <2>2, TypeParts, CardTypes DEF RowsOK, Here, Rows
  <2>3. CASE \E i \in Here : rows' = [rows EXCEPT ![i] = NoRow]
    BY <2>3, TypeParts DEF RowsOK, Here
  <2> QED
    BY <2>1, <2>2, <2>3 DEF PostStep, WriteNote, ReadBack, Delete, LosePost, Heard, SaveAgain,
                            server
<1> QED BY <1>1, <1>2 DEF BoundInv, HighlightsAreBound, PageBound, CreateBound

LEMMA BoundUser ==
  ASSUME TypeOK, BoundInv, NEW p \in Pages, UserStep(p)
  PROVE  BoundInv'
<1> USE TypeParts DEF BoundInv
<1>1. HighlightsAreBound'
  BY DEF UserStep, Load, Select, Deselect, Click, SaveNote, AskReload, AskDelete, server,
         HighlightsAreBound, Here
<1>2. ASSUME NEW d \in Docs, Load(p, d) PROVE BoundInv'
  <2>1. /\ load'[p].phase = "sent" /\ load'[p].oldDoc = shown[p]
        /\ \A q \in Pages \ {p} : load'[q] = load[q]
    BY <1>2 DEF Load, LoadOK
  <2>2. UNCHANGED <<screen, creating>> BY <1>2 DEF Load
  <2>3. PageBound(p)' /\ CreateBound(p)'
    BY <2>1, <2>2 DEF screen, PageBound, CreateBound
  <2> QED BY <1>1, <2>1, <2>2, <2>3, Elsewhere DEF screen
<1>3. CASE Select(p) \/ Deselect(p)
  <2>1. PageBound(p)' /\ CreateBound(p)'
    BY <1>3 DEF Select, Deselect, ScreenOK, PageBound, CreateBound
  <2> QED BY <1>1, <1>3, <2>1, Elsewhere DEF Select, Deselect, ScreenOK
<1>4. CASE Click(p)
  <2>1. CreateBound(p)'
    BY <1>4 DEF Click, MayClick, PostedDoc, CreateOK, PageBound, CreateBound
  <2>2. UNCHANGED <<screen, load>> /\ \A q \in Pages \ {p} : creating'[q] = creating[q]
    BY <1>4 DEF Click, CreateOK
  <2> QED BY <1>1, <2>1, <2>2, Elsewhere DEF screen, PageBound
<1>5. CASE SaveNote(p) \/ AskReload(p) \/ AskDelete(p)
  <2>1. UNCHANGED <<shown, pdf, pages, pending, carried, load, creating>>
    BY <1>5 DEF SaveNote, AskReload, AskDelete, screen
  <2> QED BY <1>1, <2>1 DEF PageBound, CreateBound
<1> QED BY <1>2, <1>3, <1>4, <1>5 DEF UserStep

LEMMA BoundIdle == BoundInv /\ UNCHANGED vars => BoundInv'
BY DEF vars, server, screen, bounds, BoundInv, HighlightsAreBound, PageBound, CreateBound, Here

\* A highlight lies in the version its text was selected in, and a version has no
\* other version's fingerprint, except where a selection was carried across a load.
THEOREM HighlightsStayBound == Spec => []HighlightsAreBound
<1>1. BoundInv /\ TypeOK /\ [Next]_vars => BoundInv'
  BY BoundLoad, BoundCreate, BoundPost, BoundUser, BoundIdle DEF Next
<1>2. BoundInv => HighlightsAreBound BY DEF BoundInv
<1> QED BY BoundInit, <1>1, <1>2, TypeCorrect, PTL DEF Spec

-----------------------------------------------------------------------------
(* Notes and what the pages were told of them.                             *)

\* A mark that some row or page has, so that no row to come will have it.
Known(mark) ==
  mark <= marks /\ \A p \in Pages : creating[p].phase = "sent" => creating[p].mark # mark

\* Of a highlight that still has its id nobody knows a later revision, and of
\* its present revision nobody has another note, except for a first, empty one.
Told(id, mark, note, revision) ==
  /\ Known(mark)
  /\ id \in Here /\ rows[id].mark = mark =>
       /\ revision <= rows[id].revision
       /\ revision = rows[id].revision => rows[id].note \in {0, note}

ToldCard(c) == Told(c.id, c.mark, c.note, c.revision)

MarksInv ==
  /\ \A i \in Here : Known(rows[i].mark)
  /\ \A p \in Pages : creating[p] # Idle => creating[p].mark <= marks
  /\ \A p, q \in Pages :
       creating[p].phase = "sent" /\ creating[q].phase = "sent" /\ p # q =>
         creating[p].mark # creating[q].mark

\* Until it is read back, what was written last is there, or nothing is.
Written(p) ==
  post[p].phase = "written" /\ post[p].id \in Here => rows[post[p].id].note \in {0, post[p].note}

LoadTold(l) ==
  l # Idle => /\ \A c \in l.cards : ToldCard(c)
              /\ \A list \in l.oldCards : \A c \in list : ToldCard(c)
CreateTold(r) == r # Idle => \A c \in r.card : ToldCard(c)
PostTold(r) ==
  r # Idle => /\ Told(r.id, r.mark, r.known, r.base)
              /\ \A c \in r.answer : ToldCard(c) /\ c.id = r.id
CardsTold(list) == \A c \in list : ToldCard(c)

ToldInv ==
  \A p \in Pages :
    CardsTold(cards[p]) /\ LoadTold(load[p]) /\ CreateTold(creating[p]) /\ PostTold(post[p])

NotesInv == ~blind /\ MarksInv /\ ToldInv /\ \A p \in Pages : Written(p)

LEMMA NotesInit == Init => NotesInv
BY DEF Init, NotesInv, MarksInv, ToldInv, Written, CardsTold, LoadTold, CreateTold, PostTold,
       Here, Idle

LEMMA CardsAreTold ==
  ASSUME RowsOK, MarksInv
  PROVE  /\ \A i \in Here : ToldCard(CardOf(i))
         /\ \A d \in Docs : CardsTold(CardsIn(d))
         /\ \A i \in Ids \union {0} : CardsTold(CardIfHere(i))
<1>1. ASSUME NEW i \in Here PROVE ToldCard(CardOf(i))
  <2>1. rows[i] \in Rows BY CardTypes
  <2>2. CardOf(i).id = i /\ CardOf(i).mark = rows[i].mark /\ CardOf(i).note = rows[i].note
        /\ CardOf(i).revision = rows[i].revision
    BY DEF CardOf
  <2>3. Known(rows[i].mark) BY DEF MarksInv
  <2>4. rows[i].revision \in Nat BY <2>1 DEF Rows
  <2> QED BY <2>2, <2>3, <2>4 DEF ToldCard, Told
<1> QED BY <1>1 DEF CardsTold, CardsIn, CardIfHere

LEMMA DrawnTold ==
  ASSUME NEW list \in SUBSET Cards, CardsTold(list)
  PROVE  CardsTold(Drawn(list))
<1>1. \A c \in list : LET d == [c EXCEPT !.refused = 0]
                      IN  d.id = c.id /\ d.mark = c.mark /\ d.note = c.note
                            /\ d.revision = c.revision
  BY DEF Cards
<1> QED BY <1>1 DEF CardsTold, Drawn, ToldCard

\* Drawing the list again does not change what a post knows.
LEMMA RedrawTold ==
  ASSUME PostOK, NEW p \in Pages, NEW q \in Pages, PostTold(post[q])
  PROVE  PostTold(Redraw(p)[q]) /\ PostTold(Replace(p)[q])
<1>1. CASE q # p \/ post[q] = Idle
  BY <1>1 DEF PostOK, Redraw, Replace
<1>2. CASE q = p /\ post[p] # Idle
  <2>1. post[p] \in Posts BY <1>2, PostUnderWay
  <2>2. /\ Redraw(p)[p] = [post[p] EXCEPT !.drawn = FALSE]
        /\ Replace(p)[p] = [post[p] EXCEPT !.drawn = FALSE, !.listed = FALSE]
    BY <1>2 DEF PostOK, Redraw, Replace
  <2> QED BY <1>2, <2>1, <2>2 DEF Posts, PostTold
<1> QED BY <1>1, <1>2

LEMMA RedrawWritten ==
  ASSUME PostOK, NEW p \in Pages, NEW q \in Pages, post' = Redraw(p) \/ post' = Replace(p),
         rows' = rows, Written(q)
  PROVE  Written(q)'
<1>1. CASE q # p \/ post[q] = Idle
  BY <1>1 DEF PostOK, Redraw, Replace, Written, Here
<1>2. CASE q = p /\ post[p] # Idle
  <2>1. post[p] \in Posts BY <1>2, PostUnderWay
  <2>2. \/ post'[p] = [post[p] EXCEPT !.drawn = FALSE]
        \/ post'[p] = [post[p] EXCEPT !.drawn = FALSE, !.listed = FALSE]
    BY <1>2 DEF PostOK, Redraw, Replace
  <2>3. post'[p].phase = post[p].phase /\ post'[p].id = post[p].id /\ post'[p].note = post[p].note
    BY <2>1, <2>2 DEF Posts
  <2> QED BY <1>2, <2>3 DEF Written, Here
<1> QED BY <1>1, <1>2

-----------------------------------------------------------------------------
(* Steps.  What was told stays told; a step that leaves the rows alone only *)
(* has to be told something.                                               *)

Stays ==
  \A id \in Ids, mark \in 1..MaxMarks, note \in 0..MaxNotes, revision \in Nat :
    Told(id, mark, note, revision) => Told(id, mark, note, revision)'

SourcesTold ==
  \A q \in Pages :
    CardsTold(cards'[q]) /\ LoadTold(load'[q]) /\ CreateTold(creating'[q]) /\ PostTold(post'[q])

LEMMA ToldCarried ==
  ASSUME TypeOK', Stays, SourcesTold
  PROVE  ToldInv'
<1> USE TypePartsNext
<1>1. \A c \in Cards : ToldCard(c) => ToldCard(c)'
  BY DEF Stays, ToldCard, Cards
<1>2. ASSUME NEW q \in Pages PROVE CardsTold(cards[q])'
  BY <1>1 DEF SourcesTold, CardsTold, CardsOK
<1>3. ASSUME NEW q \in Pages PROVE LoadTold(load[q])'
  <2>1. CASE load'[q] = Idle BY <2>1 DEF LoadTold, Idle
  <2>2. CASE load'[q] # Idle
    <3>1. load'[q] \in Loads BY <2>2 DEF LoadOK
    <3>2. load'[q].cards \subseteq Cards /\ \A list \in load'[q].oldCards : list \subseteq Cards
      BY <3>1 DEF Loads
    <3> QED BY <1>1, <2>2, <3>2 DEF SourcesTold, LoadTold
  <2> QED BY <2>1, <2>2
<1>4. ASSUME NEW q \in Pages PROVE CreateTold(creating[q])'
  <2>1. CASE creating'[q] = Idle BY <2>1 DEF CreateTold, Idle
  <2>2. CASE creating'[q] # Idle
    <3>1. creating'[q] \in Creates BY <2>2 DEF CreateOK
    <3>2. creating'[q].card \subseteq Cards BY <3>1 DEF Creates
    <3> QED BY <1>1, <2>2, <3>2 DEF SourcesTold, CreateTold
  <2> QED BY <2>1, <2>2
<1>5. ASSUME NEW q \in Pages PROVE PostTold(post[q])'
  <2>1. CASE post'[q] = Idle BY <2>1 DEF PostTold, Idle
  <2>2. CASE post'[q] # Idle
    <3>1. post'[q] \in Posts BY <2>2 DEF PostOK
    <3>2. /\ post'[q].answer \subseteq Cards /\ post'[q].id \in Ids
          /\ post'[q].mark \in 1..MaxMarks /\ post'[q].known \in 0..MaxNotes
          /\ post'[q].base \in Nat
      BY <3>1 DEF Posts
    <3>3. /\ Told(post'[q].id, post'[q].mark, post'[q].known, post'[q].base)
          /\ \A c \in post'[q].answer : ToldCard(c) /\ c.id = post'[q].id
      BY <2>2 DEF SourcesTold, PostTold
    <3>4. Told(post[q].id, post[q].mark, post[q].known, post[q].base)'
      BY <3>2, <3>3 DEF Stays, Told, Known
    <3> QED BY <1>1, <2>2, <3>2, <3>3, <3>4 DEF PostTold
  <2> QED BY <2>1, <2>2
<1> QED BY <1>2, <1>3, <1>4, <1>5 DEF ToldInv

Quiet ==
  /\ UNCHANGED <<rows, marks, blind>>
  /\ \A q \in Pages :
       /\ creating'[q].phase = "sent" => creating[q].phase = "sent"
       /\ creating'[q] # Idle => creating[q] # Idle /\ creating'[q].mark = creating[q].mark

LEMMA OnePage ==
  ASSUME TypeOK', NotesInv, NEW p \in Pages, Quiet,
         \A q \in Pages \ {p} : /\ cards'[q] = cards[q] /\ load'[q] = load[q]
                                /\ creating'[q] = creating[q] /\ post'[q] = post[q],
         CardsTold(cards'[p]), LoadTold(load'[p]), CreateTold(creating'[p]), PostTold(post'[p]),
         Written(p)'
  PROVE  NotesInv'
<1> USE DEF NotesInv
<1>1. \A q \in Pages : creating'[q].phase = "sent" => creating'[q] # Idle
  BY DEF Idle
<1>2. \A mark \in 1..MaxMarks : Known(mark) => Known(mark)'
  BY <1>1 DEF Known, Quiet
<1>3. Stays BY <1>2 DEF Stays, Told, Quiet, Here
<1>4. SourcesTold BY DEF SourcesTold, ToldInv
<1>5. ToldInv' BY <1>3, <1>4, ToldCarried
<1>6. \A q \in Pages : Written(q)' BY DEF Written, Quiet, Here
<1>7. MarksInv'
  <2>1. ASSUME NEW i \in Here' PROVE Known(rows[i].mark)'
    <3>1. i \in Here /\ rows'[i] = rows[i] BY DEF Quiet, Here
    <3>2. rows[i].mark \in 1..MaxMarks
      BY <3>1, TypePartsNext DEF RowsOK, Here, Rows, Quiet
    <3> QED BY <1>2, <3>1, <3>2 DEF MarksInv, Known
  <2>2. \A q \in Pages : creating'[q] # Idle => creating'[q].mark <= marks'
    BY DEF Quiet, MarksInv
  <2>3. \A q, r \in Pages :
          creating'[q].phase = "sent" /\ creating'[r].phase = "sent" /\ q # r =>
            creating'[q].mark # creating'[r].mark
    BY <1>1 DEF Quiet, MarksInv
  <2> QED BY <2>1, <2>2, <2>3 DEF MarksInv
<1>8. ~blind' BY DEF Quiet
<1> QED BY <1>5, <1>6, <1>7, <1>8

-----------------------------------------------------------------------------
LEMMA NotesLoad ==
  ASSUME TypeOK, TypeOK', NotesInv, NEW p \in Pages, LoadStep(p)
  PROVE  NotesInv'
<1> USE TypeParts DEF NotesInv
<1>0. /\ UNCHANGED <<rows, marks, blind, creating>> /\ load[p] \in Loads /\ load[p] # Idle
  <2>1. UNCHANGED <<rows, marks, blind, creating>>
    BY DEF LoadStep, AnswerLoad, PageLoaded, PdfOpens, LoadFails, PdfRefused, server, bounds
  <2>2. load[p] # Idle
    BY DEF LoadStep, AnswerLoad, PageLoaded, PdfOpens, LoadFails, PdfRefused, Idle
  <2> QED BY <2>1, <2>2, LoadUnderWay
<1>1. Quiet /\ CreateTold(creating'[p]) BY <1>0 DEF Quiet, ToldInv
<1>2. /\ CardsTold(cards[p]) /\ CardsTold(load[p].cards)
      /\ \A list \in load[p].oldCards : CardsTold(list)
  BY <1>0 DEF ToldInv, LoadTold, CardsTold
<1>3. \A q \in Pages \ {p} : /\ cards'[q] = cards[q] /\ load'[q] = load[q]
                             /\ creating'[q] = creating[q] /\ post'[q] = post[q]
  BY <1>0 DEF LoadStep, AnswerLoad, PageLoaded, PdfOpens, LoadFails, PdfRefused, Abandon,
              Replace, Redraw, screen, LoadOK, CardsOK, PostOK
<1>4. post' \in {post, Redraw(p), Replace(p)}
  BY DEF LoadStep, AnswerLoad, PageLoaded, PdfOpens, LoadFails, PdfRefused, Abandon
<1>5. PostTold(post'[p]) /\ Written(p)'
  <2>1. CASE post' = post BY <1>0, <2>1 DEF ToldInv, Written, Here
  <2>2. CASE post' \in {Redraw(p), Replace(p)}
    BY <1>0, <2>2, RedrawTold, RedrawWritten DEF ToldInv
  <2> QED BY <1>4, <2>1, <2>2
<1>6. CardsTold(cards'[p]) /\ LoadTold(load'[p])
  <2>1. CASE AnswerLoad(p)
    <3>1. load'[p] = [load[p] EXCEPT !.phase = "answered", !.cards = CardsIn(load[p].doc),
                                     !.print = prints[load[p].doc]]
      BY <2>1 DEF AnswerLoad, LoadOK
    <3>2. CardsTold(CardsIn(load[p].doc)) BY <1>0, CardsAreTold DEF Loads
    <3>3. load'[p].cards = CardsIn(load[p].doc) /\ load'[p].oldCards = load[p].oldCards
      BY <1>0, <3>1 DEF Loads
    <3> QED BY <1>2, <2>1, <3>2, <3>3 DEF AnswerLoad, screen, LoadTold, CardsTold
  <2>2. CASE PageLoaded(p)
    <3>1. load'[p] = [load[p] EXCEPT !.phase = "pdf",
                        !.oldCards = IF load[p].oldCards = {} THEN {cards[p]} ELSE load[p].oldCards]
      BY <2>2 DEF PageLoaded, LoadOK
    <3>2. /\ load'[p].cards = load[p].cards
          /\ load'[p].oldCards = IF load[p].oldCards = {} THEN {cards[p]} ELSE load[p].oldCards
      BY <1>0, <3>1 DEF Loads
    <3>3. cards'[p] = load[p].cards BY <2>2 DEF PageLoaded, CardsOK
    <3> QED BY <1>2, <3>2, <3>3 DEF LoadTold, CardsTold
  <2>3. CASE PdfOpens(p)
    BY <1>2, <2>3 DEF PdfOpens, LoadOK, LoadTold
  <2>4. CASE Abandon(p)
    <3>1. CASE load' = [load EXCEPT ![p] = Idle] /\ UNCHANGED cards
      BY <1>2, <3>1 DEF LoadOK, LoadTold
    <3>2. CASE /\ load' = [load EXCEPT ![p].phase = "sent", ![p].for = "restore",
                                       ![p].doc = load[p].oldDoc]
               /\ UNCHANGED cards
      <4>1. load'[p] = [load[p] EXCEPT !.phase = "sent", !.for = "restore", !.doc = load[p].oldDoc]
        BY <3>2 DEF LoadOK
      <4>2. load'[p].cards = load[p].cards /\ load'[p].oldCards = load[p].oldCards
        BY <1>0, <4>1 DEF Loads
      <4> QED BY <1>2, <3>2, <4>2 DEF LoadTold, CardsTold
    <3>3. CASE /\ load' = [load EXCEPT ![p] = Idle]
               /\ \E list \in IF load[p].oldCards # {} THEN load[p].oldCards ELSE {cards[p]} :
                    cards' = [cards EXCEPT ![p] = Drawn(list)]
      <4>1. PICK list \in IF load[p].oldCards # {} THEN load[p].oldCards ELSE {cards[p]} :
              cards' = [cards EXCEPT ![p] = Drawn(list)]
        BY <3>3
      <4>2. list \in SUBSET Cards /\ CardsTold(list)
        BY <1>0, <1>2, <4>1 DEF Loads, CardsOK
      <4>3. cards'[p] = Drawn(list) BY <4>1 DEF CardsOK
      <4> QED BY <3>3, <4>2, <4>3, DrawnTold DEF LoadOK, LoadTold
    <3> QED BY <2>4, <3>1, <3>2, <3>3 DEF Abandon
  <2> QED BY <2>1, <2>2, <2>3, <2>4 DEF LoadStep, LoadFails, PdfRefused
<1> QED BY <1>1, <1>3, <1>5, <1>6, OnePage

LEMMA NotesCreate ==
  ASSUME TypeOK, TypeOK', NotesInv, NEW p \in Pages, CreateStep(p)
  PROVE  NotesInv'
<1> USE TypeParts DEF NotesInv
<1>0. UNCHANGED <<marks, blind, load>> /\ creating[p] \in Creates /\ creating[p] # Idle
  <2>1. UNCHANGED <<marks, blind, load>>
    BY DEF CreateStep, Insert, AnswerCreate, LoseCreate, Created, NotCreated, server, bounds
  <2>2. creating[p] # Idle
    BY DEF CreateStep, Insert, AnswerCreate, LoseCreate, Created, NotCreated, Idle
  <2> QED BY <2>1, <2>2, CreateUnderWay
<1>1. CASE Insert(p)
  <2> USE <1>1 DEF Insert
  <2>1. PICK i \in Ids :
          /\ IsNext(i)
          /\ rows' = [rows EXCEPT ![i] =
               [mark |-> creating[p].mark, doc |-> creating[p].doc, from |-> creating[p].from,
                note |-> 0, revision |-> 1]]
          /\ creating' = [creating EXCEPT ![p].phase = "stored", ![p].id = i]
    OBVIOUS
  <2>2. /\ creating'[p] = [creating[p] EXCEPT !.phase = "stored", !.id = i]
        /\ \A q \in Pages \ {p} : creating'[q] = creating[q]
    BY <2>1 DEF CreateOK
  <2>3. /\ creating'[p].phase = "stored" /\ creating'[p].mark = creating[p].mark
        /\ creating'[p].card = creating[p].card /\ creating'[p] # Idle
    BY <1>0, <2>2 DEF Creates, Idle
  <2>4. /\ rows'[i].mark = creating[p].mark /\ rows'[i].note = 0
        /\ \A j \in Ids \ {i} : rows'[j] = rows[j]
    BY <2>1 DEF RowsOK
  <2>5. \A mark \in 1..MaxMarks : Known(mark) => Known(mark)' /\ mark # creating[p].mark
    BY <1>0, <2>2, <2>3 DEF Known
  <2>6. Stays
    <3> SUFFICES ASSUME NEW id \in Ids, NEW mark \in 1..MaxMarks, NEW note \in 0..MaxNotes,
                        NEW revision \in Nat, Told(id, mark, note, revision)
                 PROVE  Told(id, mark, note, revision)'
      BY DEF Stays
    <3>1. Known(mark)' /\ mark # creating[p].mark BY <2>5 DEF Told
    <3>2. CASE id = i BY <2>4, <3>1, <3>2 DEF Told
    <3>3. CASE id # i BY <2>4, <3>1, <3>3 DEF Told, Here
    <3> QED BY <3>2, <3>3
  <2>7. SourcesTold
    <3>1. UNCHANGED <<cards, post>> BY DEF screen
    <3>2. CreateTold(creating'[p]) BY <1>0, <2>3 DEF ToldInv, CreateTold
    <3> QED BY <1>0, <2>2, <3>1, <3>2 DEF SourcesTold, ToldInv
  <2>8. ToldInv' BY <2>6, <2>7, ToldCarried
  <2>9. \A q \in Pages : Written(q)'
    BY <2>4 DEF Written, Here
  <2>10. MarksInv'
    <3>1. ASSUME NEW j \in Here' PROVE Known(rows[j].mark)'
      <4>1. CASE j = i
        <5>1. creating[p].phase = "sent" OBVIOUS
        <5>2. creating[p].mark <= marks' BY <1>0 DEF MarksInv
        <5>3. \A q \in Pages : creating'[q].phase = "sent" => creating'[q].mark # creating[p].mark
          <6> SUFFICES ASSUME NEW q \in Pages, creating'[q].phase = "sent"
                       PROVE  creating'[q].mark # creating[p].mark
            OBVIOUS
          <6>1. q # p BY <2>3
          <6>2. creating'[q] = creating[q] BY <2>2, <6>1
          <6> QED BY <5>1, <6>1, <6>2 DEF MarksInv
        <5> QED BY ONLY <2>4, <4>1, <5>2, <5>3 DEF Known
      <4>2. CASE j # i
        <5>1. j \in Here /\ rows'[j] = rows[j] BY <2>4, <4>2 DEF Here
        <5>2. rows[j].mark \in 1..MaxMarks /\ Known(rows[j].mark)
          BY <5>1, CardTypes DEF Rows, MarksInv
        <5> QED BY <2>5, <5>1, <5>2 DEF Known
      <4> QED BY <4>1, <4>2
    <3>2. \A q \in Pages : creating'[q] # Idle => creating'[q].mark <= marks'
      BY <1>0, <2>2, <2>3 DEF MarksInv
    <3>3. \A q, r \in Pages :
            creating'[q].phase = "sent" /\ creating'[r].phase = "sent" /\ q # r =>
              creating'[q].mark # creating'[r].mark
      <4> SUFFICES ASSUME NEW q \in Pages, NEW r \in Pages, creating'[q].phase = "sent",
                          creating'[r].phase = "sent", q # r
                   PROVE  creating'[q].mark # creating'[r].mark
        OBVIOUS
      <4>1. q # p /\ r # p BY <2>3
      <4>2. creating'[q] = creating[q] /\ creating'[r] = creating[r] BY <2>2, <4>1
      <4> QED BY <4>2 DEF MarksInv
    <3> QED BY <3>1, <3>2, <3>3 DEF MarksInv
  <2> QED BY <1>0, <2>8, <2>9, <2>10
<1>2. CASE AnswerCreate(p)
  <2>1. /\ creating'[p] = [creating[p] EXCEPT
             !.phase = IF creating[p].id \in Here THEN "ok" ELSE "error",
             !.card = CardIfHere(creating[p].id)]
        /\ \A q \in Pages \ {p} : creating'[q] = creating[q]
    BY <1>2 DEF AnswerCreate, CreateOK
  <2>2. /\ creating'[p].phase # "sent" /\ creating'[p].mark = creating[p].mark
        /\ creating'[p].card = CardIfHere(creating[p].id)
    BY <1>0, <2>1 DEF Creates
  <2>3. UNCHANGED <<rows, cards, post>> BY <1>2 DEF AnswerCreate, server, screen
  <2>4. Quiet BY <1>0, <2>1, <2>2, <2>3 DEF Quiet
  <2>5. CardsTold(CardIfHere(creating[p].id)) BY <1>0, CardsAreTold DEF Creates
  <2>6. CreateTold(creating'[p]) BY <2>2, <2>5 DEF CreateTold, CardsTold
  <2> QED BY <1>0, <2>1, <2>3, <2>4, <2>6, OnePage DEF ToldInv, Written, Here
<1>3. CASE LoseCreate(p) \/ NotCreated(p)
  <2>1. UNCHANGED <<rows, cards, post>> BY <1>3 DEF LoseCreate, NotCreated, server, screen
  <2>2. \A q \in Pages \ {p} : creating'[q] = creating[q]
    BY <1>3 DEF LoseCreate, NotCreated, CreateOK
  <2>3. CASE creating'[p] = Idle
    <3>1. Quiet BY <1>0, <2>1, <2>2, <2>3 DEF Quiet, Idle
    <3>2. CreateTold(creating'[p]) BY <2>3 DEF CreateTold
    <3> QED BY <1>0, <2>1, <2>2, <3>1, <3>2, OnePage DEF ToldInv, Written, Here
  <2>4. CASE creating'[p] = [creating[p] EXCEPT !.phase = "error"]
    <3>1. /\ creating'[p].phase = "error" /\ creating'[p].mark = creating[p].mark
          /\ creating'[p].card = creating[p].card
      BY <1>0, <2>4 DEF Creates
    <3>2. Quiet BY <1>0, <2>1, <2>2, <3>1 DEF Quiet
    <3>3. CreateTold(creating'[p]) BY <1>0, <3>1 DEF ToldInv, CreateTold
    <3> QED BY <1>0, <2>1, <2>2, <3>2, <3>3, OnePage DEF ToldInv, Written, Here
  <2> QED BY <1>3, <2>3, <2>4 DEF LoseCreate, NotCreated, CreateOK
<1>4. CASE Created(p)
  <2>1. creating' = [creating EXCEPT ![p] = Idle] /\ rows' = rows /\ post' = Redraw(p)
    BY <1>4 DEF Created, server
  <2>2. Quiet /\ CreateTold(creating'[p])
    BY <1>0, <2>1 DEF Quiet, CreateOK, CreateTold, Idle
  <2>3. cards' = [cards EXCEPT ![p] = Drawn(@ \union creating[p].card)]
    BY <1>4 DEF Created
  <2>4. /\ cards[p] \union creating[p].card \in SUBSET Cards
        /\ CardsTold(cards[p] \union creating[p].card)
    BY <1>0 DEF Creates, CardsOK, ToldInv, CardsTold, CreateTold
  <2>5. CardsTold(cards'[p]) BY <2>3, <2>4, DrawnTold DEF CardsOK
  <2>6. PostTold(post'[p]) /\ Written(p)' BY <2>1, RedrawTold, RedrawWritten DEF ToldInv
  <2>7. \A q \in Pages \ {p} : /\ cards'[q] = cards[q] /\ load'[q] = load[q]
                               /\ creating'[q] = creating[q] /\ post'[q] = post[q]
    BY <1>0, <2>1, <2>3 DEF CardsOK, CreateOK, PostOK, Redraw
  <2> QED BY <1>0, <2>2, <2>5, <2>6, <2>7, OnePage DEF ToldInv
<1> QED BY <1>1, <1>2, <1>3, <1>4 DEF CreateStep

LEMMA NotesUser ==
  ASSUME TypeOK, TypeOK', NotesInv, NEW p \in Pages, UserStep(p)
  PROVE  NotesInv'
<1> USE TypeParts DEF NotesInv
<1>0. UNCHANGED <<rows, blind>>
  BY DEF UserStep, Load, Select, Deselect, Click, SaveNote, AskReload, AskDelete, server
<1>1. ASSUME NEW d \in Docs, Load(p, d) PROVE NotesInv'
  <2>1. UNCHANGED <<marks, cards, creating, post>> BY <1>1 DEF Load, screen
  <2>2. Quiet BY <1>0, <2>1 DEF Quiet
  <2>3. /\ \A q \in Pages \ {p} : load'[q] = load[q]
        /\ load'[p].cards = {} /\ load'[p].oldCards = {}
    BY <1>1 DEF Load, LoadOK
  <2>4. LoadTold(load'[p]) BY <2>3 DEF LoadTold
  <2> QED BY <1>0, <2>1, <2>2, <2>3, <2>4, OnePage DEF ToldInv, Written, Here
<1>2. CASE Select(p) \/ Deselect(p)
  <2>1. UNCHANGED <<marks, cards, load, creating, post>>
    BY <1>2 DEF Select, Deselect, bounds
  <2>2. Quiet BY <1>0, <2>1 DEF Quiet
  <2> QED BY <1>0, <2>1, <2>2, OnePage DEF ToldInv, Written, Here
<1>3. CASE Click(p)
  <2>1. UNCHANGED <<cards, load, post>> /\ marks' = marks + 1 /\ marks \in Nat
    BY <1>3 DEF Click, screen, BoundsOK
  <2>2. /\ creating'[p].phase = "sent" /\ creating'[p].mark = marks + 1
        /\ creating'[p].card = {} /\ creating[p] = Idle
        /\ \A q \in Pages \ {p} : creating'[q] = creating[q]
    BY <1>3 DEF Click, CreateOK
  <2>3. \A mark \in 1..MaxMarks : Known(mark) => Known(mark)'
    BY <2>1, <2>2 DEF Known
  <2>4. Stays BY <1>0, <2>3 DEF Stays, Told, Here
  <2>5. CreateTold(creating'[p]) BY <2>2 DEF CreateTold
  <2>6. SourcesTold BY <2>1, <2>2, <2>5 DEF SourcesTold, ToldInv
  <2>7. ToldInv' BY <2>4, <2>6, ToldCarried
  <2>8. MarksInv'
    <3>1. ASSUME NEW i \in Here' PROVE Known(rows[i].mark)'
      <4>1. i \in Here /\ rows'[i] = rows[i] BY <1>0 DEF Here
      <4>2. rows[i].mark \in 1..MaxMarks /\ Known(rows[i].mark)
        BY <4>1, CardTypes DEF Rows, MarksInv
      <4> QED BY <2>3, <4>1, <4>2 DEF Known
    <3>2. \A q \in Pages \ {p} : creating[q] # Idle =>
            creating[q].mark \in 1..MaxMarks /\ creating[q].mark <= marks
      BY CreateUnderWay DEF Creates, MarksInv
    <3>3. \A q \in Pages : creating'[q] # Idle => creating'[q].mark <= marks'
      BY <2>1, <2>2, <3>2
    <3>4. \A q \in Pages : creating[q].phase = "sent" => creating[q] # Idle
      BY DEF Idle
    <3>5. \A q, r \in Pages :
            creating'[q].phase = "sent" /\ creating'[r].phase = "sent" /\ q # r =>
              creating'[q].mark # creating'[r].mark
      BY <2>1, <2>2, <3>2, <3>4 DEF MarksInv
    <3> QED BY <3>1, <3>3, <3>5 DEF MarksInv
  <2> QED BY <1>0, <2>1, <2>7, <2>8 DEF Written, Here
<1>4. CASE SaveNote(p) \/ AskReload(p) \/ AskDelete(p)
  <2>1. UNCHANGED <<marks, load, creating>>
    BY <1>4 DEF SaveNote, AskReload, AskDelete, bounds
  <2>2. Quiet BY <1>0, <2>1 DEF Quiet
  <2>3. PICK card \in cards[p], op \in {"save", "reload", "delete"}, note \in Nat :
          Request(p, card, op, note)
    <3>1. CASE SaveNote(p) BY <3>1 DEF SaveNote, BoundsOK
    <3>2. CASE AskReload(p) BY <3>2 DEF AskReload, CardsOK, Cards
    <3>3. CASE AskDelete(p) BY <3>3 DEF AskDelete
    <3> QED BY <1>4, <3>1, <3>2, <3>3
  <2>4. ToldCard(card) BY DEF ToldInv, CardsTold
  <2>5. /\ post'[p].phase = "sent" /\ post'[p].id = card.id /\ post'[p].mark = card.mark
        /\ post'[p].base = card.revision /\ post'[p].known = card.note /\ post'[p].answer = {}
        /\ \A q \in Pages \ {p} : post'[q] = post[q]
    BY <2>3 DEF Request, PostOK
  <2>6. PostTold(post'[p]) /\ Written(p)' BY <2>4, <2>5 DEF PostTold, ToldCard, Written
  <2>7. CardsTold(cards'[p]) /\ \A q \in Pages \ {p} : cards'[q] = cards[q]
    <3>1. CASE cards' = cards BY <3>1 DEF ToldInv
    <3>2. CASE \E c \in cards[p] : cards' = [cards EXCEPT ![p] = (@ \ {c}) \union Drawn({c})]
      <4>1. PICK c \in cards[p] : cards' = [cards EXCEPT ![p] = (@ \ {c}) \union Drawn({c})]
        BY <3>2
      <4>2. {c} \in SUBSET Cards /\ CardsTold({c}) BY DEF CardsOK, ToldInv, CardsTold
      <4>3. CardsTold(Drawn({c})) BY <4>2, DrawnTold
      <4> QED BY <4>1, <4>3 DEF CardsOK, ToldInv, CardsTold
    <3> QED BY <1>4, <3>1, <3>2 DEF SaveNote, AskReload, AskDelete, screen
  <2> QED BY <2>1, <2>2, <2>5, <2>6, <2>7, OnePage DEF ToldInv
<1> QED BY <1>1, <1>2, <1>3, <1>4 DEF UserStep

LEMMA Replied ==
  ASSUME PostOK, NEW p \in Pages, post[p] # Idle,
         NEW phase \in {"sent", "written", "ok", "conflict", "error"}, Reply(p, phase)
  PROVE  /\ post'[p].phase = phase /\ post'[p].id = post[p].id /\ post'[p].note = post[p].note
         /\ \A q \in Pages \ {p} : post'[q] = post[q]
         /\ PostTold(post[p]) => PostTold(post'[p])
<1>1. post[p] \in Posts BY PostUnderWay
<1>2. /\ post'[p] = [post[p] EXCEPT !.phase = phase]
      /\ \A q \in Pages \ {p} : post'[q] = post[q]
  BY DEF PostOK, Reply
<1>3. /\ post'[p].phase = phase /\ post'[p].id = post[p].id /\ post'[p].note = post[p].note
      /\ post'[p].mark = post[p].mark /\ post'[p].known = post[p].known
      /\ post'[p].base = post[p].base /\ post'[p].answer = post[p].answer
  BY <1>1, <1>2 DEF Posts
<1> QED BY <1>2, <1>3 DEF PostTold

\* The marks of rows that only change or go.
LEMMA MarksStay ==
  ASSUME RowsOK, MarksInv, UNCHANGED <<marks, creating>>,
         \A i \in Here' : i \in Here /\ rows'[i].mark = rows[i].mark
  PROVE  MarksInv'
BY DEF MarksInv, Known

\* A step of a post that does not touch the rows.
LEMMA NotesReply ==
  ASSUME TypeOK, TypeOK', NotesInv, NEW p \in Pages, post[p] # Idle,
         NEW phase \in {"sent", "ok", "conflict", "error"}, Reply(p, phase),
         UNCHANGED <<rows, blind, marks, cards, load, creating>>
  PROVE  NotesInv'
<1> USE TypeParts DEF NotesInv
<1>1. /\ post'[p].phase = phase /\ \A q \in Pages \ {p} : post'[q] = post[q]
      /\ PostTold(post[p]) => PostTold(post'[p])
  BY Replied
<1>2. Quiet BY DEF Quiet
<1>3. Written(p)' BY <1>1 DEF Written
<1> QED BY <1>1, <1>2, <1>3, OnePage DEF ToldInv

LEMMA NotesWrite ==
  ASSUME PromptReadBack, TypeOK, TypeOK', NotesInv, NEW p \in Pages, WriteNote(p)
  PROVE  NotesInv'
<1> USE TypeParts DEF NotesInv
<1>1. post[p].phase = "sent" /\ post[p] # Idle /\ post[p] \in Posts
  BY PostUnderWay DEF WriteNote, Idle
<1>2. UNCHANGED <<marks, cards, load, creating>> BY DEF WriteNote, screen, bounds
<1>3. CASE UNCHANGED <<rows, blind>> /\ (Reply(p, "conflict") \/ Reply(p, "error"))
  BY <1>1, <1>2, <1>3, NotesReply
<1>4. CASE /\ post[p].id \in Here /\ RevisionMatches(p)
           /\ rows' = [rows EXCEPT ![post[p].id].note = post[p].note,
                                   ![post[p].id].revision = @ + 1]
           /\ blind' = (blind \/ (rows[post[p].id].mark = post[p].mark
                          /\ rows[post[p].id].note \notin {0, post[p].known}))
           /\ Reply(p, "written")
  <2> DEFINE id == post[p].id
             old == rows[id]
             new == [old EXCEPT !.note = post[p].note, !.revision = old.revision + 1]
  <2>1. old \in Rows BY <1>4, CardTypes
  <2>2. rows' = [rows EXCEPT ![id] = new] BY <1>4, <2>1 DEF Rows
  <2>3. /\ new.mark = old.mark /\ new.note = post[p].note
        /\ new.revision = old.revision + 1 /\ old.revision \in Nat
    BY <2>1 DEF Rows
  <2>4. /\ rows'[id].mark = rows[id].mark /\ rows'[id].note = post[p].note
        /\ rows'[id].revision = rows[id].revision + 1 /\ rows[id].revision \in Nat
        /\ \A i \in Ids \ {id} : rows'[i] = rows[i]
    BY <1>4, <2>2, <2>3 DEF RowsOK, Here
  <2>5. \A i \in Here' : i \in Here /\ rows'[i].mark = rows[i].mark
    BY <1>4, <2>4 DEF Here
  <2>6. Stays
    <3> SUFFICES ASSUME NEW i \in Ids, NEW mark \in 1..MaxMarks, NEW note \in 0..MaxNotes,
                        NEW revision \in Nat, Told(i, mark, note, revision)
                 PROVE  Told(i, mark, note, revision)'
      BY DEF Stays
    <3>1. Known(mark)' BY <1>2 DEF Told, Known
    <3>2. CASE i = id
      <4> HIDE DEF id
      <4>1. rows[id].mark = mark => revision <= rows[id].revision
        BY ONLY <1>4, <3>2, Told(i, mark, note, revision) DEF Told, id
      <4>2. revision \in Nat OBVIOUS
      <4>3. rows'[id].mark = mark => revision < rows'[id].revision
        BY ONLY <2>4, <4>1, <4>2
      <4> QED BY ONLY <3>1, <3>2, <4>2, <4>3, <2>4 DEF Told
    <3>3. CASE i # id
      <4>1. rows'[i] = rows[i] BY ONLY <2>4, <3>3
      <4> QED BY ONLY <3>1, <4>1, Told(i, mark, note, revision) DEF Told, Here
    <3> QED BY <3>2, <3>3
  <2>7. /\ post'[p].phase = "written" /\ post'[p].id = id /\ post'[p].note = post[p].note
        /\ \A q \in Pages \ {p} : post'[q] = post[q]
        /\ PostTold(post'[p])
    BY <1>1, <1>4, Replied DEF ToldInv
  <2>8. SourcesTold BY <1>2, <2>7 DEF SourcesTold, ToldInv
  <2>9. ToldInv' BY <2>6, <2>8, ToldCarried
  <2>10. MarksInv' BY <1>2, <2>5, MarksStay
  <2>11. ASSUME NEW q \in Pages PROVE Written(q)'
    <3>1. CASE q = p BY <2>4, <2>7, <3>1 DEF Written
    <3>2. CASE q # p
      <4>1. post[q].phase # "written" BY DEF WriteNote
      <4> QED BY <2>7, <3>2, <4>1 DEF Written
    <3> QED BY <3>1, <3>2
  <2>12. ~blind'
    <3>1. Told(post[p].id, post[p].mark, post[p].known, post[p].base)
      BY <1>1 DEF ToldInv, PostTold
    <3> QED BY <1>4, <3>1 DEF Told, RevisionMatches
  <2> QED BY <2>9, <2>10, <2>11, <2>12
<1> QED BY <1>3, <1>4 DEF WriteNote

LEMMA NotesRead ==
  ASSUME TypeOK, TypeOK', NotesInv, NEW p \in Pages, ReadBack(p)
  PROVE  NotesInv'
<1> USE TypeParts DEF NotesInv
<1> DEFINE told == IF post[p].op = "save"
                     THEN {[c EXCEPT !.note = post[p].note] : c \in CardIfHere(post[p].id)}
                     ELSE {c \in CardIfHere(post[p].id) : c.doc = post[p].doc}
<1>1. post[p] # Idle /\ post[p] \in Posts BY PostUnderWay DEF ReadBack, Idle
<1>2. UNCHANGED <<rows, blind, marks, cards, load, creating>>
  BY DEF ReadBack, server, screen, bounds
<1>3. /\ post'[p] = [post[p] EXCEPT !.phase = IF told = {} THEN "error" ELSE "ok", !.answer = told]
      /\ \A q \in Pages \ {p} : post'[q] = post[q]
  BY DEF ReadBack, PostOK
<1>4. CardIfHere(post[p].id) \in SUBSET Cards /\ CardsTold(CardIfHere(post[p].id))
  BY <1>1, CardTypes, CardsAreTold DEF Posts
<1>5. ASSUME NEW c \in told PROVE ToldCard(c) /\ c.id = post[p].id
  <2>1. CASE post[p].op # "save" BY <1>4, <1>5, <2>1 DEF CardsTold, CardIfHere, CardOf
  <2>2. CASE post[p].op = "save"
    <3>1. post[p].phase = "written" BY <2>2 DEF ReadBack
    <3>2. PICK d \in CardIfHere(post[p].id) : c = [d EXCEPT !.note = post[p].note]
      BY <1>5, <2>2
    <3>3. d \in Cards /\ ToldCard(d) /\ post[p].id \in Here /\ d = CardOf(post[p].id)
      BY <1>4, <3>2 DEF CardsTold, CardIfHere
    <3>4. c.id = d.id /\ c.mark = d.mark /\ c.revision = d.revision /\ c.note = post[p].note
      BY <3>2, <3>3 DEF Cards
    <3>5. d.id = post[p].id BY <3>3 DEF CardOf
    <3>6. rows[post[p].id].note \in {0, post[p].note} BY <3>1, <3>3 DEF Written
    <3> QED BY <3>3, <3>4, <3>5, <3>6 DEF ToldCard, Told
  <2> QED BY <2>1, <2>2
<1>6. /\ post'[p].phase # "written" /\ post'[p].answer = told /\ post'[p].id = post[p].id
      /\ post'[p].mark = post[p].mark /\ post'[p].known = post[p].known
      /\ post'[p].base = post[p].base
  <2> HIDE DEF told
  <2> QED BY <1>1, <1>3 DEF Posts
<1>7. PostTold(post'[p])
  <2> HIDE DEF told
  <2> QED BY <1>1, <1>5, <1>6 DEF ToldInv, PostTold
<1>8. Quiet BY <1>2 DEF Quiet
<1>9. Written(p)' BY <1>6 DEF Written
<1> QED BY <1>2, <1>3, <1>7, <1>8, <1>9, OnePage DEF ToldInv

LEMMA NotesDelete ==
  ASSUME TypeOK, TypeOK', NotesInv, NEW p \in Pages, Delete(p)
  PROVE  NotesInv'
<1> USE TypeParts DEF NotesInv
<1>1. post[p] # Idle BY DEF Delete, Idle
<1>2. UNCHANGED <<blind, marks, cards, load, creating>> BY DEF Delete, screen, bounds
<1>3. CASE UNCHANGED rows /\ Reply(p, "error")
  BY <1>1, <1>2, <1>3, NotesReply
<1>4. CASE rows' = [rows EXCEPT ![post[p].id] = NoRow] /\ Reply(p, "ok")
  <2>1. \A i \in Here' : i \in Here /\ rows'[i] = rows[i] BY <1>4 DEF RowsOK, Here
  <2>2. Stays BY <1>2, <2>1 DEF Stays, Told, Known
  <2>3. /\ post'[p].phase = "ok" /\ \A q \in Pages \ {p} : post'[q] = post[q]
        /\ PostTold(post'[p])
    BY <1>1, <1>4, Replied DEF ToldInv
  <2>4. SourcesTold BY <1>2, <2>3 DEF SourcesTold, ToldInv
  <2>5. ToldInv' BY <2>2, <2>4, ToldCarried
  <2>6. MarksInv' BY <1>2, <2>1, MarksStay
  <2>7. \A q \in Pages : Written(q)' BY <2>1, <2>3 DEF Written
  <2> QED BY <1>2, <2>5, <2>6, <2>7
<1> QED BY <1>3, <1>4 DEF Delete

LEMMA NotesHeard ==
  ASSUME TypeOK, TypeOK', NotesInv, NEW p \in Pages, Heard(p)
  PROVE  NotesInv'
<1> USE TypeParts DEF NotesInv
<1>1. post[p] # Idle /\ post[p] \in Posts BY PostUnderWay DEF Heard, Idle
<1>2. UNCHANGED <<rows, blind, marks, load, creating>> BY DEF Heard, server, bounds
<1>3. post' = [post EXCEPT ![p] = Idle] BY DEF Heard
<1>4. PostTold(post'[p]) /\ Written(p)' BY <1>3 DEF PostOK, PostTold, Written, Idle
<1>5. /\ CardsTold(cards[p]) /\ CardsTold(Others(p)) /\ CardsTold(Asked(p))
      /\ CardsTold(post[p].answer)
      /\ Others(p) \in SUBSET Cards /\ Asked(p) \in SUBSET Cards
  BY <1>1 DEF ToldInv, PostTold, CardsTold, Others, Asked, CardsOK
<1>6. CardsTold(Drawn(Others(p))) BY <1>5, DrawnTold
<1>7. \A note \in {0, post[p].note} : CardsTold({[c EXCEPT !.refused = note] : c \in Asked(p)})
  BY <1>5 DEF CardsTold, ToldCard, Cards
<1>8. CardsTold(cards'[p]) /\ \A q \in Pages \ {p} : cards'[q] = cards[q]
  <2>1. \/ cards'[p] = Drawn(Others(p))
        \/ cards'[p] = Others(p) \union post[p].answer
        \/ \E note \in {0, post[p].note} : cards'[p] =
             Others(p) \union {[c EXCEPT !.refused = note] : c \in Asked(p)}
        \/ cards'[p] = cards[p]
    <3>1. cards'[p] =
            CASE post[p].phase = "ok" /\ post[p].op = "delete" -> Drawn(Others(p))
              [] post[p].phase = "ok" /\ post[p].op = "save" /\ Asked(p) # {} ->
                   Others(p) \union post[p].answer
              [] post[p].phase # "ok" /\ post[p].op = "save" /\ post[p].drawn ->
                   Others(p) \union
                     {[c EXCEPT !.refused =
                         IF post[p].phase = "conflict" THEN post[p].note ELSE 0] : c \in Asked(p)}
              [] OTHER -> cards[p]
      BY DEF Heard, CardsOK
    <3> QED BY ONLY <3>1
  <2>2. \A q \in Pages \ {p} : cards'[q] = cards[q] BY DEF Heard, CardsOK
  <2> QED BY <1>5, <1>6, <1>7, <2>1, <2>2 DEF CardsTold
<1>9. Quiet BY <1>2 DEF Quiet
<1> QED BY <1>2, <1>3, <1>4, <1>8, <1>9, OnePage DEF ToldInv, PostOK

LEMMA NotesAgain ==
  ASSUME TypeOK, TypeOK', NotesInv, NEW p \in Pages, SaveAgain(p)
  PROVE  NotesInv'
<1> USE TypeParts DEF NotesInv
<1>1. post[p] # Idle /\ post[p] \in Posts BY PostUnderWay DEF SaveAgain, Reloaded, Idle
<1>2. UNCHANGED <<rows, blind, marks, load, creating>> BY DEF SaveAgain, server, bounds
<1>3. PICK told \in post[p].answer :
        /\ cards' = [cards EXCEPT ![p] =
             IF Asked(p) = {} THEN @
             ELSE Others(p) \union
                    {[told EXCEPT !.refused = IF post[p].drawn THEN post[p].note ELSE 0]}]
        /\ post' = [post EXCEPT ![p].phase = "sent", ![p].op = "save", ![p].answer = {},
                     ![p].mark = told.mark, ![p].base = told.revision,
                     ![p].known = told.note]
  BY DEF SaveAgain
<1>4. told \in Cards /\ ToldCard(told) BY <1>1 DEF Posts, ToldInv, PostTold
<1>5. \A note : ToldCard([told EXCEPT !.refused = note]) BY <1>4 DEF ToldCard, Cards
<1>6. CardsTold(cards'[p]) /\ \A q \in Pages \ {p} : cards'[q] = cards[q]
  BY <1>3, <1>5 DEF CardsOK, ToldInv, CardsTold, Others
<1>7. /\ post'[p] = [post[p] EXCEPT !.phase = "sent", !.op = "save", !.answer = {},
                       !.mark = told.mark, !.base = told.revision, !.known = told.note]
      /\ \A q \in Pages \ {p} : post'[q] = post[q]
  BY <1>3 DEF PostOK
<1>8. /\ post'[p].phase = "sent" /\ post'[p].answer = {} /\ post'[p].id = post[p].id
      /\ post'[p].mark = told.mark /\ post'[p].base = told.revision
      /\ post'[p].known = told.note
  BY <1>1, <1>7 DEF Posts
<1>9. told.id = post[p].id BY <1>1 DEF ToldInv, PostTold
<1>10. PostTold(post'[p]) BY <1>4, <1>8, <1>9 DEF PostTold, ToldCard
<1>11. Quiet BY <1>2 DEF Quiet
<1>12. Written(p)' BY <1>8 DEF Written
<1> QED BY <1>2, <1>6, <1>7, <1>10, <1>11, <1>12, OnePage DEF ToldInv

LEMMA NotesIdle == NotesInv /\ UNCHANGED vars => NotesInv'
BY DEF vars, server, screen, bounds, NotesInv, MarksInv, ToldInv, Written, CardsTold, LoadTold,
       CreateTold, PostTold, ToldCard, Told, Known, Here

LEMMA NotesPost ==
  ASSUME PromptReadBack, TypeOK, TypeOK', NotesInv, NEW p \in Pages, PostStep(p)
  PROVE  NotesInv'
<1>1. CASE LosePost(p)
  <2>1. post[p] # Idle BY <1>1 DEF LosePost, Idle
  <2>2. Reply(p, "error") /\ UNCHANGED <<rows, blind, marks, cards, load, creating>>
    BY <1>1 DEF LosePost, server, screen
  <2> QED BY <2>1, <2>2, NotesReply
<1> QED
  BY <1>1, NotesWrite, NotesRead, NotesDelete, NotesHeard, NotesAgain DEF PostStep

\* As long as nothing is written between a write and its read-back, no save replaces
\* a note of the highlight its page shows that the page has not been told.
THEOREM NoNoteIsReplacedBlindly ==
  ASSUME PromptReadBack
  PROVE  Spec => []NoBlindNote
<1>1. TypeOK /\ TypeOK' /\ NotesInv /\ [Next]_vars => NotesInv'
  BY NotesLoad, NotesCreate, NotesPost, NotesUser, NotesIdle DEF Next
<1>2. NotesInv => NoBlindNote BY DEF NotesInv, NoBlindNote
<1> QED BY NotesInit, <1>1, <1>2, TypeCorrect, PTL DEF Spec
=============================================================================
