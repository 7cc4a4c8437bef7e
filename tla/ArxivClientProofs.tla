-------------------------- MODULE ArxivClientProofs --------------------------
(***************************************************************************)
(* For any number of searching threads, any delay, pages of any size, any  *)
(* answers and any changes of the results:                                 *)
(*                                                                         *)
(* Requests are spaced: whoever is between the lock's acquisition and the  *)
(* end of its request is the owner of the lock, and while every request    *)
(* that ended was noted, the client's own measure of the time since the    *)
(* last one is the true one.                                               *)
(*                                                                         *)
(* Only the tail is missed: papers that do not move only go down in the    *)
(* results and keep their order (Slides), so that a crawl has whatever is  *)
(* above its offset and no paper without those above it (TailInv); what it *)
(* misses lies below as many papers as it found at first.                  *)
(*                                                                         *)
(* A stream is implemented: between two requests the crawl has what it has *)
(* yielded, so that the same invariant says in which order it yields.      *)
(***************************************************************************)
EXTENDS ArxivClient, SequenceTheorems, FiniteSetTheorems, TLAPS

Limiter ==
  /\ pc \in [Threads -> {"idle", "ready", "locked", "sent", "answered", "waiting",
                         "done", "raised"}]
  /\ \A t \in Threads : pc[t] \in {"locked", "sent"} => lock = t
  /\ elapsed \in 0..Delay
  /\ stamped => quiet = elapsed

\* What the saturating clock computes.
LEMMA MinOfTwo ==
  ASSUME NEW a \in Int, NEW b \in Int
  PROVE  Min({a, b}) = IF a <= b THEN a ELSE b
<1>1. CASE a <= b
  <2> a \in {a, b} /\ \A y \in {a, b} : a <= y
    BY <1>1
  <2> \A x \in {a, b} : (\A y \in {a, b} : x <= y) => x = a
    BY <1>1
  <2> QED  BY <1>1 DEF Min
<1>2. CASE ~(a <= b)
  <2> b \in {a, b} /\ \A y \in {a, b} : b <= y
    BY <1>2
  <2> \A x \in {a, b} : (\A y \in {a, b} : x <= y) => x = b
    BY <1>2
  <2> QED  BY <1>2 DEF Min
<1> QED  BY <1>1, <1>2

LEMMA LimiterInit == Init => Limiter
BY ClientAssumption DEF Init, Limiter, Threads

\* Steps that neither end a request nor touch the lock or the clock.
LEMMA LimiterElsewhere ==
  ASSUME Limiter, UNCHANGED <<lock, elapsed, quiet, stamped>>,
         NEW t \in Threads, NEW to \in {"idle", "ready", "answered", "waiting", "done", "raised"},
         pc' = [pc EXCEPT ![t] = to]
  PROVE  Limiter'
BY DEF Limiter

\* Steps that end a request of the lock's owner.
LEMMA LimiterEnds ==
  ASSUME Limiter, NEW t \in Threads, NEW to \in {"idle", "answered", "raised"},
         Transition(t, "sent", to), elapsed' \in 0..Delay, stamped' => quiet' = elapsed'
  PROVE  Limiter'
<1>1. lock = t
  BY DEF Limiter, Transition
<1>2. \A u \in Threads : pc[u] \in {"locked", "sent"} => u = t
  BY <1>1 DEF Limiter
<1>3. pc' = [pc EXCEPT ![t] = to]
  BY DEF Transition
<1>4. \A u \in Threads : pc'[u] \notin {"locked", "sent"}
  BY <1>2, <1>3 DEF Limiter
<1> QED  BY <1>3, <1>4 DEF Limiter

LEMMA LimiterNext == Limiter /\ [Next]_vars => Limiter'
<1> SUFFICES ASSUME Limiter, [Next]_vars PROVE Limiter'
  OBVIOUS
<1> Crawler \in Threads /\ \A t \in Searchers : t \in Threads /\ t # Crawler
  BY ClientAssumption DEF ClientAssumption, Threads
<1>1. CASE Enter \/ Move
  BY <1>1 DEF Limiter, Enter, Move, clock
<1>2. CASE Tick
  <2>1. elapsed' = IF elapsed + 1 <= Delay THEN elapsed + 1 ELSE Delay
    BY <1>2, MinOfTwo, ClientAssumption DEF Tick, Limiter, ClientAssumption
  <2>2. stamped => quiet' = elapsed'
    BY <1>2 DEF Tick, Limiter
  <2> QED
    BY <1>2, <2>1, <2>2, ClientAssumption DEF Tick, Limiter, ClientAssumption
<1>3. ASSUME NEW t \in Threads, Start(t) PROVE Limiter'
  BY <1>3, LimiterElsewhere DEF Start, Transition, clock
<1>4. ASSUME NEW t \in Threads, Request(t) PROVE Limiter'
  <2>1. CASE Acquire(t)
    <3>1. lock = NoOne /\ lock' = t /\ pc' = [pc EXCEPT ![t] = "locked"]
      BY <2>1 DEF Acquire, LockIsFree, Transition
    <3>2. \A u \in Threads : pc[u] \notin {"locked", "sent"}
      BY <3>1, ClientAssumption DEF Limiter, ClientAssumption, Threads
    <3> QED
      BY <2>1, <3>1, <3>2 DEF Acquire, Limiter, clock
  <2>2. CASE Send(t)
    BY <2>2 DEF Send, Limiter, Transition, clock
  <2>3. CASE Unlisted(t)
    BY <2>3, LimiterEnds DEF Unlisted, Limiter, arxiv, crawl
  <2> QED  BY <1>4, <2>1, <2>2, <2>3 DEF Request
<1>5. ASSUME NEW t \in Threads, NEW to \in {"idle", "answered"},
             Transition(t, "sent", to), Ended
      PROVE Limiter'
  BY <1>5, LimiterEnds, ClientAssumption DEF Ended, ClientAssumption
<1>6. CASE AnswerPage \/ AnswerError
  BY <1>5, <1>6 DEF AnswerPage, AnswerError, CrawlHears
<1>7. CASE Failed \/ Fatal \/ Empty \/ Page \/ Wake \/ NoticeRaises
  <2> DEFINE Others == {"idle", "ready", "answered", "waiting", "done", "raised"}
  <2>1. UNCHANGED <<lock, elapsed, quiet, stamped>>
    BY <1>7 DEF Failed, Fatal, Empty, Page, Wake, NoticeRaises, clock
  <2>2. \E to \in Others : pc' = [pc EXCEPT ![Crawler] = to]
    BY <1>7 DEF Failed, Fatal, Empty, Page, Wake, NoticeRaises, RetryOrRaise, Transition
  <2> QED  BY <2>1, <2>2, LimiterElsewhere
<1>8. ASSUME NEW t \in Searchers, SearchEnds(t) PROVE Limiter'
  BY <1>5, <1>8 DEF SearchEnds
<1>9. CASE UNCHANGED vars
  BY <1>9 DEF vars, clock, Limiter
<1> QED
  BY <1>1, <1>2, <1>3, <1>4, <1>6, <1>7, <1>8, <1>9
     DEF Next, CrawlStep, SearchStep

LEMMA LimiterSpaces ==
  ASSUME Limiter, [Next]_vars,
         NEW t \in Threads, pc[t] = "locked", pc'[t] = "sent"
  PROVE  /\ \A u \in Threads : pc[u] # "sent"
         /\ stamped => quiet = Delay
<1>1. \A u \in Threads : pc[u] # "sent"
  BY DEF Limiter
<1>2. elapsed >= Delay
  <2>1. SUFFICES ASSUME ~Send(t) PROVE FALSE
    BY DEF Send
  <2>2. Crawler \in Threads /\ \A u \in Searchers : u \in Threads
    BY DEF Threads
  <2>3. ASSUME NEW u \in Threads, pc[u] # "locked", NEW to,
               pc' = [pc EXCEPT ![u] = to]
        PROVE FALSE
    BY <2>3 DEF Limiter
  <2>4. ASSUME NEW u \in Threads, Request(u) PROVE FALSE
    <3>1. CASE Acquire(u)
      BY <2>3, <3>1 DEF Acquire, Transition
    <3>2. CASE Send(u)
      <4>1. u = t
        BY <3>2 DEF Send, Transition, Limiter
      <4> QED  BY <2>1, <3>2, <4>1
    <3>3. CASE Unlisted(u)
      BY <2>3, <3>3 DEF Unlisted, Transition
    <3> QED  BY <2>4, <3>1, <3>2, <3>3 DEF Request
  <2>5. CASE AnswerPage \/ AnswerError
    BY <2>2, <2>3, <2>5 DEF AnswerPage, AnswerError, CrawlHears, Transition
  <2>6. CASE Failed \/ Fatal \/ Empty \/ Page \/ Wake \/ NoticeRaises
    BY <2>2, <2>3, <2>6
       DEF Failed, Fatal, Empty, Page, Wake, NoticeRaises, RetryOrRaise, Transition
  <2>7. ASSUME NEW u \in Searchers, SearchEnds(u) PROVE FALSE
    BY <2>2, <2>3, <2>7 DEF SearchEnds, Transition
  <2>8. ASSUME NEW u \in Threads, Start(u) PROVE FALSE
    BY <2>3, <2>8 DEF Start, Transition
  <2>9. CASE Enter \/ Move \/ Tick \/ UNCHANGED vars
    BY <2>9 DEF Enter, Move, Tick, vars
  <2> QED
    BY <2>2, <2>4, <2>5, <2>6, <2>7, <2>8, <2>9 DEF Next, CrawlStep, SearchStep
<1> QED
  BY <1>1, <1>2, ClientAssumption DEF Limiter, ClientAssumption

\* No request of the client, by the crawl or a search, starts beside another one,
\* or sooner than Delay after one that ended in a way the client noted.
THEOREM RequestsKeepTheirDistance == Spec => RequestsAreSpaced
<1>1. Spec => []Limiter
  BY LimiterInit, LimiterNext, PTL DEF Spec
<1>2. Limiter /\ [Next]_vars =>
        [\A t \in Threads : pc[t] = "locked" /\ pc'[t] = "sent" =>
           /\ \A u \in Threads : pc[u] # "sent"
           /\ stamped => quiet = Delay]_vars
  BY LimiterSpaces
<1> QED
  BY <1>1, <1>2, PTL DEF Spec, RequestsAreSpaced
-----------------------------------------------------------------------------
(* How the results change.                                                 *)

Distinct(s) == \A k, l \in DOMAIN s : s[k] = s[l] => k = l

LEMMA Joined ==
  ASSUME NEW S, NEW a \in Seq(S), NEW b \in Seq(S), NEW c, c = a \o b
  PROVE  /\ c \in Seq(S) /\ Len(c) = Len(a) + Len(b) /\ Len(c) \in Nat
         /\ \A k \in 1..Len(c) : k <= Len(a) => c[k] = a[k]
         /\ \A k \in 1..Len(c) : k > Len(a) => c[k] = b[k - Len(a)]
BY ConcatProperties

\* What insertion and a move to the front do, place by place.
IsInsertion(s, i, e, t) ==
  /\ Len(t) = Len(s) + 1
  /\ \A k \in 1..(Len(s) + 1) :
       t[k] = IF k < i THEN s[k] ELSE IF k = i THEN e ELSE s[k - 1]

IsMoveToFront(s, i, t) ==
  /\ Len(t) = Len(s)
  /\ \A k \in 1..Len(s) :
       t[k] = IF k = 1 THEN s[i] ELSE IF k <= i THEN s[k - 1] ELSE s[k]

LEMMA Inserted ==
  ASSUME NEW S, NEW s \in Seq(S), NEW i \in 1..(Len(s) + 1), NEW e \in S,
         NEW t, t = InsertAt(s, i, e)
  PROVE  t \in Seq(S) /\ IsInsertion(s, i, e, t)
<1>0. Len(s) \in Nat /\ i \in Int /\ i - 1 \in Int /\ Len(s) - i + 1 \in Int OBVIOUS
<1>1. PICK head : head = SubSeq(s, 1, i - 1) OBVIOUS
<1>2. PICK tail : tail = SubSeq(s, i, Len(s)) OBVIOUS
<1>3. /\ head \in Seq(S) /\ Len(head) = i - 1
      /\ \A k \in 1..(i - 1) : head[k] = s[k]
  BY <1>1
<1>4. /\ tail \in Seq(S) /\ Len(tail) = Len(s) - i + 1
      /\ \A k \in 1..(Len(s) - i + 1) : tail[k] = s[i + k - 1]
  BY <1>2
<1>5. PICK one : one = <<e>> OBVIOUS
<1>6. one \in Seq(S) /\ Len(one) = 1 /\ one[1] = e BY <1>5
<1>7. PICK front : front = head \o one OBVIOUS
<1>8. /\ front \in Seq(S) /\ Len(front) = Len(head) + Len(one)
      /\ \A k \in 1..Len(front) : k <= Len(head) => front[k] = head[k]
      /\ \A k \in 1..Len(front) : k > Len(head) => front[k] = one[k - Len(head)]
  <2>1. head \in Seq(S) /\ one \in Seq(S) BY <1>3, <1>6
  <2> QED BY <1>7, <2>1, Joined
<1>9. /\ front \in Seq(S) /\ Len(front) = i
      /\ \A k \in 1..i : front[k] = IF k < i THEN s[k] ELSE e
  <2> SUFFICES ASSUME NEW k \in 1..i PROVE front[k] = IF k < i THEN s[k] ELSE e
    BY <1>0, <1>3, <1>6, <1>8
  <2>1. CASE k < i BY <1>0, <1>3, <1>6, <1>8, <2>1
  <2>2. CASE k = i BY <1>3, <1>0, <1>6, <1>8, <2>2
  <2> QED BY <1>0, <2>1, <2>2
<1>10. t = front \o tail BY <1>1, <1>2, <1>5, <1>7 DEF InsertAt
<1>11. /\ t \in Seq(S) /\ Len(t) = Len(s) + 1
       /\ \A k \in 1..(Len(s) + 1) : t[k] = IF k <= i THEN front[k] ELSE tail[k - i]
  <2>1. /\ t \in Seq(S) /\ Len(t) = Len(front) + Len(tail)
        /\ \A k \in 1..Len(t) : k <= Len(front) => t[k] = front[k]
        /\ \A k \in 1..Len(t) : k > Len(front) => t[k] = tail[k - Len(front)]
    <3>1. front \in Seq(S) /\ tail \in Seq(S) BY <1>4, <1>9
    <3> QED BY <1>10, <3>1, Joined
  <2> QED BY <1>0, <1>4, <1>9, <2>1
<1>12. ASSUME NEW k \in 1..(Len(s) + 1)
       PROVE  t[k] = IF k < i THEN s[k] ELSE IF k = i THEN e ELSE s[k - 1]
  <2>1. CASE k <= i BY <1>0, <1>9, <1>11, <2>1
  <2>2. CASE k > i
    <3>1. k - i \in 1..(Len(s) - i + 1) /\ i + (k - i) - 1 = k - 1 BY <1>0, <2>2
    <3>2. tail[k - i] = s[k - 1] BY <1>4, <3>1
    <3> QED BY <1>0, <1>11, <2>2, <3>2
  <2> QED BY <1>0, <2>1, <2>2
<1> QED BY <1>0, <1>11, <1>12 DEF IsInsertion

LEMMA MovedToFront ==
  ASSUME NEW S, NEW s \in Seq(S), NEW i \in 2..Len(s),
         NEW t, t = <<s[i]>> \o RemoveAt(s, i)
  PROVE  t \in Seq(S) /\ IsMoveToFront(s, i, t)
<1>0. Len(s) \in Nat /\ i \in Int /\ i - 1 \in Int /\ Len(s) - i \in Int /\ Len(s) - 1 \in Int
  OBVIOUS
<1>1. PICK head : head = SubSeq(s, 1, i - 1) OBVIOUS
<1>2. PICK tail : tail = SubSeq(s, i + 1, Len(s)) OBVIOUS
<1>3. /\ head \in Seq(S) /\ Len(head) = i - 1
      /\ \A k \in 1..(i - 1) : head[k] = s[k]
  BY <1>1
<1>4. /\ tail \in Seq(S) /\ Len(tail) = Len(s) - i
      /\ \A k \in 1..(Len(s) - i) : tail[k] = s[i + k]
  BY <1>2
<1>5. PICK one : one = <<s[i]>> OBVIOUS
<1>6. one \in Seq(S) /\ Len(one) = 1 /\ one[1] = s[i] BY <1>5
<1>7. PICK rest : rest = head \o tail OBVIOUS
<1>8. /\ rest \in Seq(S) /\ Len(rest) = Len(s) - 1
      /\ \A k \in 1..(Len(s) - 1) :
           rest[k] = IF k <= i - 1 THEN head[k] ELSE tail[k - (i - 1)]
  <2>1. /\ rest \in Seq(S) /\ Len(rest) = Len(head) + Len(tail)
        /\ \A k \in 1..Len(rest) : k <= Len(head) => rest[k] = head[k]
        /\ \A k \in 1..Len(rest) : k > Len(head) => rest[k] = tail[k - Len(head)]
    <3>1. head \in Seq(S) /\ tail \in Seq(S) BY <1>3, <1>4
    <3> QED BY <1>7, <3>1, Joined
  <2> QED BY <1>0, <1>3, <1>4, <2>1
<1>9. /\ rest \in Seq(S) /\ Len(rest) = Len(s) - 1
      /\ \A k \in 1..(Len(s) - 1) : rest[k] = IF k < i THEN s[k] ELSE s[k + 1]
  <2> SUFFICES ASSUME NEW k \in 1..(Len(s) - 1)
               PROVE  rest[k] = IF k < i THEN s[k] ELSE s[k + 1]
    BY <1>0, <1>8
  <2>1. CASE k < i BY <1>0, <1>3, <1>8, <2>1
  <2>2. CASE k >= i
    <3>1. k - (i - 1) \in 1..(Len(s) - i) /\ i + (k - (i - 1)) = k + 1 BY <1>0, <2>2
    <3>2. tail[k - (i - 1)] = s[k + 1] BY <1>4, <3>1
    <3> QED BY <1>0, <1>8, <2>2, <3>2
  <2> QED BY <1>0, <2>1, <2>2
<1>10. PICK u : u = one \o rest OBVIOUS
<1>11. /\ u \in Seq(S) /\ Len(u) = Len(s)
       /\ \A k \in 1..Len(s) : u[k] = IF k <= 1 THEN one[k] ELSE rest[k - 1]
  <2>1. /\ u \in Seq(S) /\ Len(u) = Len(one) + Len(rest)
        /\ \A k \in 1..Len(u) : k <= Len(one) => u[k] = one[k]
        /\ \A k \in 1..Len(u) : k > Len(one) => u[k] = rest[k - Len(one)]
    <3>1. one \in Seq(S) /\ rest \in Seq(S) BY <1>6, <1>9
    <3> QED BY <1>10, <3>1, Joined
  <2> QED BY <1>0, <1>6, <1>9, <2>1
<1>12. ASSUME NEW k \in 1..Len(s)
       PROVE  u[k] = IF k = 1 THEN s[i] ELSE IF k <= i THEN s[k - 1] ELSE s[k]
  <2>1. CASE k = 1 BY <1>0, <1>6, <1>11, <2>1
  <2>2. CASE k > 1
    <3>1. k - 1 \in 1..(Len(s) - 1) /\ (k - 1) + 1 = k BY <1>0, <2>2
    <3>2. rest[k - 1] = IF k - 1 < i THEN s[k - 1] ELSE s[k] BY <1>9, <3>1
    <3> QED BY <1>0, <1>11, <2>2, <3>2
  <2> QED BY <1>0, <2>1, <2>2
<1>13. t = u BY <1>1, <1>2, <1>5, <1>7, <1>10 DEF RemoveAt
<1> QED BY <1>0, <1>11, <1>12, <1>13 DEF IsMoveToFront

-----------------------------------------------------------------------------
(* Types.                                                                  *)

\* The page that the crawl has been sent and not yet yielded; how far it
\* reaches; what the crawl has, or is about to have.
Pending == IF answer.kind = "page" THEN answer.entries ELSE <<>>
Reach   == offset + Len(Pending)
Got     == yielded \union Listed(Pending)

ThreadsOK ==
  /\ lock \in Threads \union {NoOne}
  /\ elapsed \in 0..Delay /\ quiet \in 0..Delay
  /\ pc \in [Threads -> {"idle", "ready", "locked", "sent", "answered", "waiting",
                         "done", "raised"}]
  /\ attempt \in 0..Retries /\ empties \in 0..2 /\ searches \in 0..MaxSearches
  /\ truthful \in BOOLEAN /\ stamped \in BOOLEAN

\* The papers are numbered as they enter, and listed once.
ListingOK ==
  /\ listing \in Seq(Papers) /\ Distinct(listing)
  /\ \A k \in DOMAIN listing : listing[k] <= Len(listing)
  /\ changes \in 0..MaxChanges /\ Len(listing) <= MaxListed + changes
  /\ base \in Seq(Papers) /\ added \in 0..changes /\ moved \subseteq Papers

ResultsOK ==
  /\ offset \in Nat /\ Reach <= Len(listing)
  /\ total \in NoTotal..Len(listing)
  /\ Got \subseteq Listed(listing)
  /\ answer # NoAnswer =>
       answer.kind \in {"failed", "fatal", "page"} /\ pc[Crawler] \in {"answered", "raised"}
  /\ answer.kind = "page" =>
       answer.entries \in Seq(Papers) /\ answer.count \in NoTotal..Len(listing)

TypeInv == ThreadsOK /\ ListingOK /\ ResultsOK

LEMMA PendingTypes ==
  ASSUME ListingOK, ResultsOK
  PROVE  /\ Pending \in Seq(Papers) /\ Len(Pending) \in Nat /\ Len(listing) \in Nat
         /\ offset <= Reach /\ Reach \in Nat
         /\ answer = NoAnswer => Pending = <<>> /\ Reach = offset /\ Got = yielded
<1>1. Len(listing) \in Nat BY DEF ListingOK
<1>2. Pending \in Seq(Papers) BY DEF ResultsOK, Pending
<1>3. Len(Pending) \in Nat BY <1>2
<1>4. answer = NoAnswer => Pending = <<>> BY DEF Pending, NoAnswer
<1>5. Listed(<<>>) = {} BY DEF Listed, ToSet
<1> QED BY <1>1, <1>2, <1>3, <1>4, <1>5 DEF ResultsOK, Reach, Got

LEMMA TypeParts == TypeInv => TypeOK
<1> SUFFICES ASSUME TypeInv PROVE TypeOK OBVIOUS
<1>1. offset \in 0..Len(listing) BY PendingTypes DEF TypeInv, ResultsOK
<1>2. answer.kind \in {"none", "page", "failed", "fatal"} BY DEF TypeInv, ResultsOK, NoAnswer
<1>3. yielded \subseteq Listed(listing) BY DEF TypeInv, ResultsOK, Got
<1>4. added \in 0..MaxChanges BY ClientAssumption DEF TypeInv, ListingOK
<1> QED BY <1>1, <1>2, <1>3, <1>4 DEF TypeInv, ThreadsOK, ListingOK, ResultsOK, TypeOK

LEMMA TypeInit == Init => TypeInv
<1> SUFFICES ASSUME Init PROVE TypeInv OBVIOUS
<1>1. PICK n \in 0..MaxListed : listing = [i \in 1..n |-> n + 1 - i] BY DEF Init
<1>2. /\ listing \in Seq(Papers) /\ Len(listing) = n /\ DOMAIN listing = 1..n
      /\ \A k \in 1..n : listing[k] = n + 1 - k
  BY <1>1, ClientAssumption DEF Papers, ClientAssumption
<1>3. Distinct(listing) /\ \A k \in DOMAIN listing : listing[k] <= Len(listing)
  BY <1>2, ClientAssumption DEF Distinct, ClientAssumption
<1>4. ListingOK BY <1>2, <1>3, ClientAssumption DEF Init, ListingOK, ClientAssumption
<1>5. Pending = <<>> /\ Listed(<<>>) = {} BY DEF Init, Pending, NoAnswer, Listed, ToSet
<1>6. ResultsOK
  BY <1>2, <1>5, ClientAssumption DEF Init, ResultsOK, Reach, Got, NoAnswer, NoTotal,
     ClientAssumption
<1>7. ThreadsOK BY ClientAssumption DEF Init, ThreadsOK, Threads, ClientAssumption
<1> QED BY <1>4, <1>6, <1>7 DEF TypeInv

LEMMA TypeThreads == ThreadsOK /\ [Next]_vars => ThreadsOK'
<1> SUFFICES ASSUME ThreadsOK, [Next]_vars PROVE ThreadsOK' OBVIOUS
<1>0. Crawler \in Threads /\ Searchers \subseteq Threads BY DEF Threads
<1> USE ClientAssumption DEF ThreadsOK, ClientAssumption
<1>1. CASE Enter \/ Move BY <1>1 DEF Enter, Move, clock
<1>2. CASE Tick
  <2>1. Min({elapsed + 1, Delay}) \in 0..Delay /\ Min({quiet + 1, Delay}) \in 0..Delay
    BY MinOfTwo
  <2> QED BY <1>2, <2>1 DEF Tick
<1>3. ASSUME NEW t \in Threads, Start(t) PROVE ThreadsOK'
  BY <1>3 DEF Start, Transition, clock
<1>4. ASSUME NEW t \in Threads, Request(t) PROVE ThreadsOK'
  <2>1. CASE Acquire(t) \/ Send(t) BY <2>1 DEF Acquire, Send, Transition, clock
  <2>2. CASE Unlisted(t)
    <3>1. PICK to \in {"raised", "idle"} : pc' = [pc EXCEPT ![t] = to]
      BY <2>2 DEF Unlisted, Transition
    <3>2. /\ lock' = NoOne /\ quiet' = 0 /\ stamped' = FALSE
          /\ UNCHANGED <<elapsed, attempt, empties, searches, truthful>>
      BY <2>2 DEF Unlisted
    <3>3. stamped' \in BOOLEAN /\ truthful' \in BOOLEAN BY <3>2
    <3>4. pc' \in [Threads -> {"idle", "ready", "locked", "sent", "answered", "waiting",
                              "done", "raised"}]
      BY <3>1
    <3>5. elapsed' \in 0..Delay /\ quiet' \in 0..Delay BY <3>2
    <3> QED BY <3>2, <3>3, <3>4, <3>5
  <2> QED BY <1>4, <2>1, <2>2 DEF Request
<1>5. CASE AnswerPage \/ AnswerError
  <2>1. PICK answered : CrawlHears(answered) BY <1>5 DEF AnswerPage, AnswerError
  <2>2. truthful' \in BOOLEAN
    <3>1. CASE AnswerPage
      <4>1. PICK agrees \in BOOLEAN : truthful' = (truthful /\ agrees)
        BY <3>1, Zenon DEF AnswerPage
      <4> QED BY <4>1
    <3>2. CASE AnswerError BY <3>2 DEF AnswerError
    <3> QED BY <1>5, <3>1, <3>2
  <2> QED BY <1>0, <2>1, <2>2 DEF CrawlHears, Ended, Transition
<1>6. CASE Failed \/ Fatal BY <1>0, <1>6 DEF Failed, Fatal, RetryOrRaise, MayRetry, Transition, clock
<1>7. CASE Empty BY <1>0, <1>7 DEF Empty, RetryOrRaise, MayRetry, Transition, clock
<1>8. CASE Page \/ Wake \/ NoticeRaises
  BY <1>0, <1>8 DEF Page, Wake, NoticeRaises, Transition, clock
<1>9. ASSUME NEW t \in Searchers, SearchEnds(t) PROVE ThreadsOK'
  BY <1>0, <1>9 DEF SearchEnds, Ended, Transition
<1>10. CASE UNCHANGED vars BY <1>10 DEF vars, clock
<1> QED
  BY <1>0, <1>1, <1>2, <1>3, <1>4, <1>5, <1>6, <1>7, <1>8, <1>9, <1>10
     DEF Next, CrawlStep, SearchStep

\* The listing slides: every place goes to some place, unmoved papers go down or
\* stay, in the same order, and only a new paper comes from nowhere.
Slides ==
  \E to \in [1..Len(listing) -> 1..Len(listing')] :
    /\ \A k \in 1..Len(listing) : listing'[to[k]] = listing[k]
    /\ \A k \in 1..Len(listing) : listing[k] \notin moved' => k <= to[k]
    /\ \A k, l \in 1..Len(listing) :
         k < l /\ listing[k] \notin moved' /\ listing[l] \notin moved' => to[k] < to[l]
    /\ \A m \in 1..Len(listing') :
         (\E k \in 1..Len(listing) : m = to[k]) \/ listing'[m] = Len(listing) + 1

LEMMA EnterSlides ==
  ASSUME ListingOK, Enter
  PROVE  ListingOK' /\ Slides /\ Len(listing') = Len(listing) + 1
<1>0. /\ listing \in Seq(Papers)
      /\ Len(listing) \in Nat /\ DOMAIN listing = 1..Len(listing)
  BY DEF ListingOK
<1>1. PICK i \in 1..(Len(listing) + 1) : listing' = InsertAt(listing, i, Len(listing) + 1)
  BY DEF Enter
<1>2. Len(listing) + 1 \in Papers
  BY <1>0, ClientAssumption DEF Enter, Change, ListingOK, Papers, ClientAssumption
<1>3. /\ listing' \in Seq(Papers) /\ Len(listing') = Len(listing) + 1
      /\ \A k \in 1..(Len(listing) + 1) :
           listing'[k] = IF k < i THEN listing[k]
                         ELSE IF k = i THEN Len(listing) + 1 ELSE listing[k - 1]
  <2>1. listing' \in Seq(Papers) /\ IsInsertion(listing, i, Len(listing) + 1, listing')
    BY <1>0, <1>1, <1>2, Inserted
  <2> QED BY <2>1 DEF IsInsertion
<1>4. DOMAIN listing' = 1..(Len(listing) + 1) BY <1>0, <1>3
<1>5. \A k \in 1..Len(listing) : listing[k] \in Int /\ listing[k] <= Len(listing)
  <2> SUFFICES ASSUME NEW k \in 1..Len(listing)
               PROVE  listing[k] \in Int /\ listing[k] <= Len(listing)
    OBVIOUS
  <2>1. listing[k] \in Papers BY <1>0
  <2> QED BY <1>0, <2>1 DEF Papers, ListingOK
<1>6. \A k \in DOMAIN listing' : listing'[k] <= Len(listing')
  <2> SUFFICES ASSUME NEW k \in 1..(Len(listing) + 1) PROVE listing'[k] <= Len(listing) + 1
    BY <1>3, <1>4
  <2>1. CASE k < i BY <1>0, <1>3, <1>5, <2>1
  <2>2. CASE k = i BY <1>0, <1>3, <2>2
  <2>3. CASE k > i BY <1>0, <1>3, <1>5, <2>3
  <2> QED BY <1>0, <2>1, <2>2, <2>3
<1>7. Distinct(listing')
  <2> SUFFICES ASSUME NEW k \in 1..(Len(listing) + 1), NEW l \in 1..(Len(listing) + 1),
                      listing'[k] = listing'[l]
               PROVE  k = l
    BY <1>4 DEF Distinct
  <2> DEFINE From(m) == IF m < i THEN m ELSE m - 1
  <2>1. \A m \in 1..(Len(listing) + 1) :
          m # i => From(m) \in 1..Len(listing) /\ listing'[m] = listing[From(m)]
    BY <1>0, <1>3
  <2>2. \A m, n \in Int : m # i /\ n # i /\ From(m) = From(n) => m = n BY <1>0
  <2>3. listing'[i] = Len(listing) + 1 BY <1>0, <1>3
  <2> HIDE DEF From
  <2>4. CASE k = i \/ l = i BY <1>0, <1>5, <2>1, <2>3, <2>4
  <2>5. CASE k # i /\ l # i
    <3>1. From(k) = From(l) BY <1>0, <2>1, <2>5 DEF ListingOK, Distinct
    <3> QED BY <1>0, <2>2, <2>5, <3>1
  <2> QED BY <2>4, <2>5
<1>8. ListingOK'
  BY <1>0, <1>3, <1>6, <1>7, ClientAssumption DEF ListingOK, Enter, Change, ClientAssumption
<1>9. Slides
  <2> DEFINE to == [k \in 1..Len(listing) |-> IF k < i THEN k ELSE k + 1]
  <2>1. to \in [1..Len(listing) -> 1..Len(listing')] BY <1>0, <1>3
  <2>2. \A k \in 1..Len(listing) : k <= to[k] BY <1>0
  <2>3. \A k, l \in 1..Len(listing) : k < l => to[k] < to[l] BY <1>0
  <2>4. ASSUME NEW k \in 1..Len(listing) PROVE listing'[to[k]] = listing[k]
    <3>1. CASE k < i BY <1>0, <1>3, <3>1
    <3>2. CASE k >= i
      <4>1. to[k] = k + 1 /\ k + 1 \in 1..(Len(listing) + 1) /\ ~(k + 1 < i) /\ k + 1 # i
            /\ (k + 1) - 1 = k
        BY <1>0, <3>2
      <4> QED BY <1>3, <4>1
    <3> QED BY <1>0, <3>1, <3>2
  <2>5. ASSUME NEW m \in 1..Len(listing'), m # i
        PROVE  \E k \in 1..Len(listing) : m = to[k]
    <3>1. CASE m < i
      <4>1. m \in 1..Len(listing) /\ to[m] = m BY <1>0, <1>3, <3>1
      <4> QED BY <4>1
    <3>2. CASE m > i
      <4>1. m - 1 \in 1..Len(listing) /\ to[m - 1] = m BY <1>0, <1>3, <3>2
      <4> QED BY <4>1
    <3> QED BY <1>0, <1>3, <2>5, <3>1, <3>2
  <2>6. listing'[i] = Len(listing) + 1 BY <1>0, <1>3
  <2> HIDE DEF to
  <2> QED BY <2>1, <2>2, <2>3, <2>4, <2>5, <2>6 DEF Slides
<1> QED BY <1>3, <1>8, <1>9

LEMMA MoveSlides ==
  ASSUME ListingOK, Move
  PROVE  ListingOK' /\ Slides /\ Len(listing') = Len(listing)
<1>0. /\ listing \in Seq(Papers)
      /\ Len(listing) \in Nat /\ DOMAIN listing = 1..Len(listing)
  BY DEF ListingOK
<1>1. PICK i \in 2..Len(listing) :
        listing' = <<listing[i]>> \o RemoveAt(listing, i) /\ moved' = moved \union {listing[i]}
  BY DEF Move
<1>2. /\ listing' \in Seq(Papers) /\ Len(listing') = Len(listing)
      /\ \A k \in 1..Len(listing) :
           listing'[k] = IF k = 1 THEN listing[i]
                         ELSE IF k <= i THEN listing[k - 1] ELSE listing[k]
  <2>1. listing' \in Seq(Papers) /\ IsMoveToFront(listing, i, listing')
    BY <1>0, <1>1, MovedToFront
  <2> QED BY <2>1 DEF IsMoveToFront
<1>3. DOMAIN listing' = 1..Len(listing) BY <1>0, <1>2
<1> DEFINE From(m) == IF m = 1 THEN i ELSE IF m <= i THEN m - 1 ELSE m
           to == [k \in 1..Len(listing) |-> IF k < i THEN k + 1 ELSE IF k = i THEN 1 ELSE k]
<1>4. \A m \in 1..Len(listing) : From(m) \in 1..Len(listing) /\ listing'[m] = listing[From(m)]
  BY <1>0, <1>2
<1>5. \A m \in 1..Len(listing) : to[From(m)] = m BY <1>0
<1>6. /\ to \in [1..Len(listing) -> 1..Len(listing)]
      /\ \A k \in 1..Len(listing) : From(to[k]) = k
  BY <1>0
<1>7. /\ \A k \in 1..Len(listing) : k # i => k <= to[k]
      /\ \A k, l \in 1..Len(listing) : k < l /\ k # i /\ l # i => to[k] < to[l]
  BY <1>0
<1> HIDE DEF From, to
<1>8. listing[i] \in moved' /\ listing[i] \in Papers BY <1>1 DEF ListingOK
<1>9. Distinct(listing')
  <2> SUFFICES ASSUME NEW k \in 1..Len(listing), NEW l \in 1..Len(listing),
                      listing'[k] = listing'[l]
               PROVE  k = l
    BY <1>3 DEF Distinct
  <2>1. From(k) = From(l) BY <1>0, <1>4 DEF ListingOK, Distinct
  <2> QED BY <1>5, <2>1
<1>10. ListingOK'
  <2>1. \A k \in DOMAIN listing' : listing'[k] <= Len(listing')
    BY <1>0, <1>2, <1>3, <1>4 DEF ListingOK
  <2>2. /\ changes' = changes + 1 /\ changes < MaxChanges
        /\ UNCHANGED <<base, added>> /\ moved' \subseteq Papers
    BY <1>1, <1>8 DEF Move, Change, ListingOK
  <2> QED
    BY <1>0, <1>2, <1>9, <2>1, <2>2, ClientAssumption DEF ListingOK, ClientAssumption
<1>11. Slides
  <2>1. \A k \in 1..Len(listing) : listing'[to[k]] = listing[k] BY <1>4, <1>6
  <2>2. \A k \in 1..Len(listing) : listing[k] \notin moved' => k # i BY <1>8
  <2>3. \A m \in 1..Len(listing) : \E k \in 1..Len(listing) : m = to[k] BY <1>4, <1>5
  <2>4. \A k \in 1..Len(listing) : listing[k] \notin moved' => k <= to[k]
    BY <1>7, <2>2
  <2>5. \A k, l \in 1..Len(listing) :
          k < l /\ listing[k] \notin moved' /\ listing[l] \notin moved' => to[k] < to[l]
    BY <1>7, <2>2
  <2>6. to \in [1..Len(listing) -> 1..Len(listing')] BY <1>2, <1>6
  <2>7. \A m \in 1..Len(listing') : \E k \in 1..Len(listing) : m = to[k] BY <1>2, <2>3
  <2> QED BY <2>1, <2>4, <2>5, <2>6, <2>7, Zenon DEF Slides
<1> QED BY <1>2, <1>10, <1>11

\* A page is the part of the listing that follows what has been read.
LEMMA PageRead ==
  ASSUME TypeInv, AnswerPage
  PROVE  /\ answer = NoAnswer
         /\ UNCHANGED <<listing, changes, offset, total, yielded>>
         /\ answer'.kind = "page" /\ Pending' = answer'.entries
         /\ Pending' \in Seq(Papers) /\ Len(Pending') \in Nat
         /\ Reach' = offset + Len(Pending') /\ Reach' \in offset..Len(listing)
         /\ Listed(Pending') = {listing[k] : k \in (offset + 1)..Reach'}
         /\ answer'.count \in {Len(listing)} \union IF total = NoTotal THEN {NoTotal} ELSE {}
         /\ truthful' /\ Len(Pending') < PageSize => Reach' = Len(listing)
<1>0. /\ offset \in Nat /\ offset <= Len(listing) /\ Len(listing) \in Nat
      /\ listing \in Seq(Papers) /\ PageSize \in Nat \ {0}
  BY PendingTypes, ClientAssumption DEF TypeInv, ResultsOK, ListingOK, ClientAssumption
<1>1. PICK n \in 0..PageSize, count \in Counts :
        LET page == SubSeq(listing, offset + 1, Min({offset + n, Len(listing)}))
        IN /\ CrawlHears([kind |-> "page", entries |-> page, count |-> count])
           /\ truthful' = (truthful
                             /\ offset + Len(page) = Min({offset + PageSize, Len(listing)}))
  BY DEF AnswerPage
<1> DEFINE last == Min({offset + n, Len(listing)})
           page == SubSeq(listing, offset + 1, last)
<1>2. last \in offset..Len(listing) BY <1>0, MinOfTwo
<1>3. /\ answer' = [kind |-> "page", entries |-> page, count |-> count]
      /\ UNCHANGED <<listing, changes, offset, total, yielded>>
      /\ pc[Crawler] = "sent"
  BY <1>1 DEF CrawlHears, Ended, crawl, Transition
<1>4. truthful' => offset + Len(page) = Min({offset + PageSize, Len(listing)}) BY <1>1, Zenon
<1>5. Min({offset + PageSize, Len(listing)}) =
        IF offset + PageSize <= Len(listing) THEN offset + PageSize ELSE Len(listing)
  BY <1>0, MinOfTwo
<1> HIDE DEF last
<1>6. /\ page \in Seq(Papers) /\ Len(page) = last - offset
      /\ \A k \in 1..(last - offset) : page[k] = listing[offset + k]
  BY <1>0, <1>2
<1> HIDE DEF page
<1>7. answer'.kind = "page" /\ Pending' = answer'.entries /\ Pending' = page
  BY <1>3 DEF Pending
<1>8. Reach' = last BY <1>0, <1>2, <1>3, <1>6, <1>7 DEF Reach
<1>9. Listed(page) = {listing[k] : k \in (offset + 1)..last}
  <2>1. DOMAIN page = 1..(last - offset) BY <1>0, <1>2, <1>6
  <2>2. \A k \in 1..(last - offset) : offset + k \in (offset + 1)..last BY <1>0, <1>2
  <2>3. \A k \in (offset + 1)..last : k - offset \in 1..(last - offset) /\ offset + (k - offset) = k
    BY <1>0, <1>2
  <2> QED BY <1>6, <2>1, <2>2, <2>3 DEF Listed, ToSet
<1>10. answer = NoAnswer BY <1>3 DEF TypeInv, ResultsOK
<1>11. truthful' /\ Len(page) < PageSize => last = Len(listing)
  BY <1>0, <1>2, <1>4, <1>5, <1>6
<1> QED
  BY <1>0, <1>2, <1>3, <1>6, <1>7, <1>8, <1>9, <1>10, <1>11 DEF Counts

\* What the crawl makes of an answer.
Handles == Failed \/ Fatal \/ Empty

\* What the other steps leave alone.
Aside ==
  /\ UNCHANGED <<arxiv, crawl, answer, truthful>>
  /\ pc'[Crawler] \in {"answered", "done"} => pc'[Crawler] = pc[Crawler]
  /\ pc[Crawler] \in {"answered", "done", "raised"} => pc'[Crawler] \in {pc[Crawler], "raised"}
  /\ pc[Crawler] = "done" => pc'[Crawler] = "done"

LEMMA HandlesGives ==
  ASSUME TypeInv, Handles
  PROVE  /\ answer # NoAnswer /\ answer' = NoAnswer /\ pc[Crawler] = "answered"
         /\ Pending = <<>>
         /\ UNCHANGED <<arxiv, crawl, truthful>>
         /\ pc'[Crawler] = "done" =>
              offset = 0 /\ answer.kind = "page" /\ answer.entries = <<>>
<1>1. pc \in [Threads -> {"idle", "ready", "locked", "sent", "answered", "waiting",
                          "done", "raised"}] /\ Crawler \in Threads
  BY DEF TypeInv, ThreadsOK, Threads
<1>2. CASE Failed BY <1>1, <1>2 DEF Failed, RetryOrRaise, Transition, Heard, NoAnswer, Pending
<1>3. CASE Fatal BY <1>1, <1>3 DEF Fatal, Transition, Heard, NoAnswer, Pending
<1>4. CASE Empty
  BY <1>1, <1>4 DEF Empty, EmptyPage, RetryOrRaise, Transition, Heard, NoAnswer, Pending
<1> QED BY <1>2, <1>3, <1>4 DEF Handles

LEMMA OtherSteps ==
  ASSUME TypeInv, [Next]_vars
  PROVE  Enter \/ Move \/ AnswerPage \/ AnswerError \/ Handles \/ Page \/ Aside
<1> SUFFICES ASSUME ~(Enter \/ Move \/ AnswerPage \/ AnswerError \/ Handles \/ Page)
             PROVE  Aside
  OBVIOUS
<1>0. /\ pc \in [Threads -> {"idle", "ready", "locked", "sent", "answered", "waiting",
                             "done", "raised"}]
      /\ Crawler \in Threads /\ \A t \in Searchers : t \in Threads /\ t # Crawler
  BY ClientAssumption DEF TypeInv, ThreadsOK, Threads, ClientAssumption
<1>1. CASE Tick BY <1>1 DEF Tick, Aside
<1>2. ASSUME NEW t \in Threads, Start(t) PROVE Aside
  BY <1>0, <1>2 DEF Start, Transition, Aside
<1>3. ASSUME NEW t \in Threads, Acquire(t) \/ Send(t) PROVE Aside
  BY <1>0, <1>3 DEF Acquire, Send, Transition, Aside
<1>4. ASSUME NEW t \in Threads, Unlisted(t) PROVE Aside
  BY <1>0, <1>4 DEF Unlisted, Transition, Aside
<1>5. ASSUME NEW t \in Searchers, SearchEnds(t) PROVE Aside
  BY <1>0, <1>5 DEF SearchEnds, Ended, Transition, Aside, arxiv
<1>6. CASE Wake BY <1>0, <1>6 DEF Wake, Transition, Aside
<1>7. CASE UNCHANGED vars BY <1>7 DEF vars, Aside
<1>8. CASE NoticeRaises BY <1>0, <1>8 DEF NoticeRaises, Transition, Aside
<1> QED
  BY <1>0, <1>1, <1>2, <1>3, <1>4, <1>5, <1>6, <1>7, <1>8
     DEF Next, CrawlStep, SearchStep, Request, Handles

LEMMA TypeListing == TypeInv /\ [Next]_vars => ListingOK'
<1> SUFFICES ASSUME TypeInv, [Next]_vars PROVE ListingOK' OBVIOUS
<1>0. ListingOK BY DEF TypeInv
<1>1. CASE Enter BY <1>0, <1>1, EnterSlides
<1>2. CASE Move BY <1>0, <1>2, MoveSlides
<1>3. CASE AnswerPage
  <2>1. UNCHANGED <<listing, changes>> BY <1>3, PageRead
  <2>2. \/ base' = listing /\ added' = 0 /\ moved' = {}
        \/ UNCHANGED <<base, added, moved>>
    BY <1>3 DEF AnswerPage
  <2> QED BY <1>0, <2>1, <2>2 DEF ListingOK
<1>4. CASE UNCHANGED arxiv BY <1>0, <1>4 DEF ListingOK, arxiv
<1>5. CASE AnswerError BY <1>0, <1>5 DEF AnswerError, CrawlHears, Ended, ListingOK
<1>6. CASE Page BY <1>4, <1>6 DEF Page
<1> QED BY <1>1, <1>2, <1>3, <1>4, <1>5, <1>6, OtherSteps, HandlesGives DEF Aside

\* A crawl without a pending page has what it has yielded.
LEMMA NothingPending ==
  ASSUME TypeInv, answer' = NoAnswer \/ answer'.kind \in {"failed", "fatal"},
         UNCHANGED <<listing, offset, total, yielded>>,
         answer' # NoAnswer => pc'[Crawler] = "answered"
  PROVE  ResultsOK'
<1>1. Pending' = <<>> /\ Listed(<<>>) = {} /\ Len(<<>>) = 0
  BY DEF Pending, NoAnswer, Listed, ToSet
<1>2. Reach' = offset /\ Got' = yielded BY <1>1 DEF Reach, Got, TypeInv, ResultsOK
<1>3. offset <= Reach /\ Reach \in Nat /\ Len(listing) \in Nat BY PendingTypes DEF TypeInv
<1> QED BY <1>2, <1>3 DEF TypeInv, ResultsOK, NoAnswer, Got

LEMMA TypeSlides ==
  ASSUME TypeInv, Slides, ListingOK', Len(listing) <= Len(listing'),
         UNCHANGED <<crawl, answer, pc>>
  PROVE  ResultsOK'
<1>1. DOMAIN listing = 1..Len(listing) /\ DOMAIN listing' = 1..Len(listing')
      /\ Len(listing) \in Nat /\ Len(listing') \in Nat
  BY DEF TypeInv, ListingOK
<1>2. Listed(listing) \subseteq Listed(listing')
  <2> SUFFICES ASSUME NEW k \in 1..Len(listing)
               PROVE  \E m \in 1..Len(listing') : listing'[m] = listing[k]
    BY <1>1 DEF Listed, ToSet
  <2> QED BY DEF Slides
<1>3. Pending' = Pending /\ Reach' = Reach /\ Got' = Got
  BY DEF crawl, Pending, Reach, Got
<1>4. Reach \in Nat BY PendingTypes DEF TypeInv
<1> QED BY <1>1, <1>2, <1>3, <1>4 DEF TypeInv, ResultsOK, crawl, NoTotal

LEMMA TypeResults == TypeInv /\ [Next]_vars => ResultsOK'
<1> SUFFICES ASSUME TypeInv, [Next]_vars PROVE ResultsOK' OBVIOUS
<1>0. /\ ListingOK /\ ResultsOK /\ listing \in Seq(Papers) /\ Len(listing) \in Nat
      /\ pc \in [Threads -> {"idle", "ready", "locked", "sent", "answered", "waiting",
                             "done", "raised"}]
      /\ Crawler \in Threads
  BY DEF TypeInv, ListingOK, ThreadsOK, Threads
<1>1. CASE Enter
  BY <1>0, <1>1, EnterSlides, TypeSlides DEF Enter
<1>2. CASE Move
  <2>1. ListingOK' /\ Slides /\ Len(listing) <= Len(listing') BY <1>0, <1>2, MoveSlides
  <2>2. UNCHANGED <<crawl, answer, pc>> BY <1>2 DEF Move
  <2> QED BY <2>1, <2>2, TypeSlides
<1>3. CASE AnswerPage
  <2>1. pc'[Crawler] = "answered" BY <1>0, <1>3 DEF AnswerPage, CrawlHears, Transition
  <2>2. Listed(Pending') \subseteq Listed(listing)
    <3>1. offset \in Nat /\ Reach' \in offset..Len(listing) BY <1>3, PageRead DEF TypeInv, ResultsOK
    <3>2. \A k \in (offset + 1)..Reach' : k \in DOMAIN listing BY <1>0, <3>1
    <3> QED BY <1>3, <3>2, PageRead DEF Listed, ToSet
  <2>3. yielded \subseteq Listed(listing) BY <1>0 DEF ResultsOK, Got
  <2>4. Got' \subseteq Listed(listing) BY <1>3, <2>2, <2>3, PageRead DEF Got
  <2> QED BY <1>0, <1>3, <2>1, <2>4, PageRead DEF ResultsOK, NoTotal
<1>4. CASE AnswerError
  <2>1. PICK kind \in {"failed", "fatal"} : CrawlHears([kind |-> kind]) BY <1>4 DEF AnswerError
  <2>2. /\ UNCHANGED <<listing, offset, total, yielded>>
        /\ answer'.kind = kind /\ pc'[Crawler] = "answered"
    BY <1>0, <2>1 DEF CrawlHears, Ended, crawl, Transition
  <2> QED BY <2>2, NothingPending
<1>5. CASE Handles
  BY <1>5, HandlesGives, NothingPending DEF arxiv, crawl
<1>6. CASE Page
  <2>1. /\ answer' = NoAnswer /\ UNCHANGED listing /\ offset' = offset + Len(answer.entries)
        /\ yielded' = yielded \union (Listed(answer.entries) \ Partial)
        /\ total' = IF total = NoTotal THEN answer.count ELSE total
        /\ answer.kind = "page"
    BY <1>6 DEF Page, FullPage, Heard, arxiv, NextOffset
  <2>2. offset' = Reach /\ yielded' \subseteq Got BY <2>1 DEF Reach, Got, Pending
  <2>3. Pending' = <<>> /\ Listed(<<>>) = {} /\ Len(<<>>) = 0
    BY <2>1 DEF Pending, NoAnswer, Listed, ToSet
  <2>4. Reach \in Nat BY PendingTypes DEF TypeInv
  <2>5. Reach' = offset' /\ Got' = yielded' BY <2>2, <2>3, <2>4 DEF Reach, Got
  <2> QED BY <1>0, <2>1, <2>2, <2>4, <2>5 DEF ResultsOK, NoAnswer
<1>7. CASE Aside
  <2>1. Pending' = Pending /\ Reach' = Reach /\ Got' = Got
    BY <1>7 DEF Aside, crawl, Pending, Reach, Got
  <2> QED BY <1>0, <1>7, <2>1 DEF Aside, arxiv, crawl, ResultsOK
<1> QED BY <1>1, <1>2, <1>3, <1>4, <1>5, <1>6, <1>7, OtherSteps

LEMMA TypeNext == TypeInv /\ [Next]_vars => TypeInv'
BY TypeThreads, TypeListing, TypeResults DEF TypeInv

\* Offsets, totals and yielded papers stay within a listing that changes under
\* the crawl; attempts, clocks and threads keep their types.
THEOREM TypeCorrect == Spec => []TypeOK
BY TypeInit, TypeNext, TypeParts, PTL DEF Spec

-----------------------------------------------------------------------------
(* What paging by offset misses.                                           *)

\* Papers of the first answer that have not moved since keep their order.
Ordered ==
  /\ Distinct(base) /\ Listed(base) \subseteq Listed(listing)
  /\ \A i, j \in DOMAIN base : \A k, l \in DOMAIN listing :
       /\ i < j /\ base[i] \notin moved /\ base[j] \notin moved
       /\ listing[k] = base[i] /\ listing[l] = base[j]
       => k < l

\* They only go down, so that the crawl has what is above its offset ...
HasRead ==
  \A k \in DOMAIN listing :
    k <= Reach /\ listing[k] \in Listed(base) \ moved => listing[k] \in Got \union Partial

\* ... and whatever was above a paper that it has.
NoGaps ==
  \A i, j \in DOMAIN base :
    i < j /\ base[j] \in Got \ (moved \union Partial) => base[i] \in Got \union moved \union Partial

\* The crawl ends no sooner than past as many papers as it found at first.
Sizes ==
  /\ base # <<>> => Len(listing) = Len(base) + added
  /\ offset = 0 => total = NoTotal /\ yielded = {}
  /\ total # NoTotal => Len(base) <= total
  /\ answer.kind = "page" =>
       /\ answer.count # NoTotal => Len(base) <= answer.count
       /\ truthful /\ Len(answer.entries) < PageSize => Len(base) <= Reach
  /\ pc[Crawler] = "done" /\ truthful => Len(base) <= offset

TailInv == Ordered /\ HasRead /\ NoGaps /\ Sizes

LEMMA TailInit == Init => TailInv
<1> SUFFICES ASSUME Init PROVE TailInv OBVIOUS
<1>1. base = <<>> /\ DOMAIN base = {} /\ Listed(base) = {} /\ Len(base) = 0
  BY DEF Init, Listed, ToSet
<1>2. Ordered BY <1>1 DEF Ordered, Distinct
<1>3. HasRead /\ NoGaps BY <1>1 DEF HasRead, NoGaps
<1>4. Sizes
  BY <1>1 DEF Init, Sizes, NoAnswer, Threads
<1> QED BY <1>2, <1>3, <1>4 DEF TailInv

\* The listing has room for what it had at first.
LEMMA Room ==
  ASSUME TypeInv, Sizes
  PROVE  Len(base) <= Len(listing) /\ Len(base) \in Nat
<1>1. added \in Nat /\ Len(base) \in Nat /\ Len(listing) \in Nat
  BY DEF TypeInv, ListingOK
<1>2. CASE base = <<>> BY <1>1, <1>2
<1>3. CASE base # <<>> BY <1>1, <1>3 DEF Sizes
<1> QED BY <1>1, <1>2, <1>3

\* Steps that neither change the results nor what the crawl has.
LEMMA TailSteady ==
  ASSUME Ordered, HasRead, NoGaps,
         UNCHANGED <<listing, base, moved, Reach>>,
         Got' \union Partial = Got \union Partial, Got' \ Partial = Got \ Partial
  PROVE  Ordered' /\ HasRead' /\ NoGaps'
<1>1. Ordered' BY DEF Ordered, Distinct, Listed, ToSet
<1>2. HasRead'
  <2> SUFFICES ASSUME NEW k \in DOMAIN listing, k <= Reach, listing[k] \in Listed(base) \ moved
               PROVE  listing[k] \in Got' \union Partial
    BY DEF HasRead, Listed, ToSet
  <2> QED BY DEF HasRead
<1>3. NoGaps'
  <2> SUFFICES ASSUME NEW i \in DOMAIN base, NEW j \in DOMAIN base, i < j,
                      base[j] \in Got' \ (moved \union Partial)
               PROVE  base[i] \in Got' \union moved \union Partial
    BY DEF NoGaps
  <2>1. base[j] \in Got \ (moved \union Partial) OBVIOUS
  <2> QED BY <2>1 DEF NoGaps
<1> QED BY <1>1, <1>2, <1>3

LEMMA TailSlides ==
  ASSUME TypeInv, TailInv, Slides, ListingOK', Len(listing') >= Len(listing),
         UNCHANGED <<base, crawl, answer, pc, truthful>>, moved \subseteq moved',
         base # <<>> => Len(listing') = Len(base) + added'
  PROVE  TailInv'
<1>0. DOMAIN listing = 1..Len(listing) /\ DOMAIN listing' = 1..Len(listing')
      /\ Len(listing) \in Nat /\ Len(listing') \in Nat
  BY DEF TypeInv, ListingOK
<1>1. Pending' = Pending /\ Reach' = Reach /\ Got' = Got /\ Listed(base)' = Listed(base)
  BY DEF crawl, Pending, Reach, Got
<1>2. PICK to \in [1..Len(listing) -> 1..Len(listing')] :
        /\ \A k \in 1..Len(listing) : listing'[to[k]] = listing[k]
        /\ \A k \in 1..Len(listing) : listing[k] \notin moved' => k <= to[k]
        /\ \A k, l \in 1..Len(listing) :
             k < l /\ listing[k] \notin moved' /\ listing[l] \notin moved' => to[k] < to[l]
        /\ \A m \in 1..Len(listing') :
             (\E k \in 1..Len(listing) : m = to[k]) \/ listing'[m] = Len(listing) + 1
  BY DEF Slides
\* A paper of the first answer comes from a place it had before.
<1>3. ASSUME NEW m \in 1..Len(listing'), listing'[m] \in Listed(base)
      PROVE  \E k \in 1..Len(listing) : m = to[k] /\ listing[k] = listing'[m]
  <2>1. listing'[m] \in Listed(listing) BY <1>3 DEF TailInv, Ordered
  <2>2. listing'[m] # Len(listing) + 1
    BY <1>0, <2>1 DEF Listed, ToSet, TypeInv, ListingOK, Papers
  <2> QED BY <1>2, <2>2
<1>4. Ordered'
  <2>1. Listed(base) \subseteq Listed(listing')
    <3>1. \A k \in 1..Len(listing) : \E m \in 1..Len(listing') : listing'[m] = listing[k]
      BY <1>2
    <3>2. Listed(listing) \subseteq Listed(listing') BY <1>0, <3>1 DEF Listed, ToSet
    <3> QED BY <3>2 DEF TailInv, Ordered
  <2>2. ASSUME NEW i \in DOMAIN base, NEW j \in DOMAIN base,
               NEW m \in 1..Len(listing'), NEW n \in 1..Len(listing'),
               i < j, base[i] \notin moved', base[j] \notin moved',
               listing'[m] = base[i], listing'[n] = base[j]
        PROVE  m < n
    <3>1. base[i] \in Listed(base) /\ base[j] \in Listed(base) BY DEF Listed, ToSet
    <3>2. PICK k \in 1..Len(listing) : m = to[k] /\ listing[k] = base[i]
      BY <1>3, <2>2, <3>1
    <3>3. PICK l \in 1..Len(listing) : n = to[l] /\ listing[l] = base[j]
      BY <1>3, <2>2, <3>1
    <3>4. base[i] \notin moved /\ base[j] \notin moved BY <2>2
    <3>5. k < l BY <1>0, <2>2, <3>2, <3>3, <3>4 DEF TailInv, Ordered
    <3> QED BY <1>2, <2>2, <3>2, <3>3, <3>5
  <2> QED BY <1>0, <2>1, <2>2 DEF TailInv, Ordered, Distinct, Listed, ToSet
<1>5. HasRead'
  <2> SUFFICES ASSUME NEW m \in 1..Len(listing'), m <= Reach,
                      listing'[m] \in Listed(base) \ moved'
               PROVE  listing'[m] \in Got \union Partial
    BY <1>0, <1>1 DEF HasRead
  <2>1. PICK k \in 1..Len(listing) : m = to[k] /\ listing[k] = listing'[m] BY <1>3
  <2>2. k <= m BY <1>2, <2>1
  <2>3. Reach \in Nat BY PendingTypes DEF TypeInv
  <2>4. k <= Reach BY <1>0, <2>2, <2>3
  <2> QED BY <1>0, <2>1, <2>4 DEF TailInv, HasRead
<1>6. NoGaps' BY <1>1 DEF TailInv, NoGaps
<1>7. Sizes' BY <1>1 DEF TailInv, Sizes, crawl
<1> QED BY <1>4, <1>5, <1>6, <1>7 DEF TailInv

LEMMA TailPage ==
  ASSUME TypeInv, TypeInv', TailInv, AnswerPage
  PROVE  TailInv'
<1>t. /\ DOMAIN listing = 1..Len(listing) /\ Len(listing) \in Nat /\ offset \in Nat
      /\ Distinct(listing)
  BY DEF TypeInv, ListingOK, ResultsOK
<1>c. Crawler \in Threads /\ DOMAIN pc = Threads BY DEF TypeInv, ThreadsOK, Threads
<1>1. /\ answer = NoAnswer
      /\ UNCHANGED <<listing, offset, total, yielded>>
      /\ answer'.kind = "page" /\ Pending' = answer'.entries
      /\ Reach' = offset + Len(Pending') /\ Reach' \in offset..Len(listing)
      /\ Listed(Pending') = {listing[k] : k \in (offset + 1)..Reach'}
      /\ answer'.count \in {Len(listing)} \union IF total = NoTotal THEN {NoTotal} ELSE {}
      /\ truthful' /\ Len(Pending') < PageSize => Reach' = Len(listing)
  BY PageRead
<1>r. Reach' \in Nat
  <2>1. Reach' \in offset..Len(listing) BY <1>1
  <2> QED BY <1>t, <2>1
<1>0. /\ DOMAIN listing = 1..Len(listing) /\ Len(listing) \in Nat /\ offset \in Nat
      /\ Distinct(listing) /\ Reach' \in Nat
      /\ Crawler \in Threads /\ DOMAIN pc = Threads
  BY <1>t, <1>c, <1>r
<1>2. /\ offset = 0 => base' = listing /\ added' = 0 /\ moved' = {}
      /\ offset # 0 => UNCHANGED <<base, added, moved>>
      /\ pc'[Crawler] = "answered"
  BY <1>0 DEF AnswerPage, CrawlHears, Transition
<1>3. Reach = offset /\ Got = yielded /\ (offset = 0 => yielded = {})
  BY <1>1, PendingTypes DEF TypeInv, TailInv, Sizes
<1>4. Got' = Got \union Listed(Pending') BY <1>1, <1>3 DEF Got
<1>5. Ordered'
  <2>1. CASE offset = 0
    <3>1. Ordered' <=> (Distinct(listing) /\ \A i, j, k, l \in DOMAIN listing :
            i < j /\ listing[k] = listing[i] /\ listing[l] = listing[j] => k < l)
      BY <1>1, <1>2, <2>1 DEF Ordered, Distinct, Listed, ToSet
    <3> QED BY <1>0, <3>1 DEF Distinct
  <2>2. CASE offset # 0
    <3>1. UNCHANGED <<listing, base, moved>> BY <1>1, <1>2, <2>2
    <3>2. Ordered' <=> Ordered BY <3>1 DEF Ordered, Distinct, Listed, ToSet
    <3> QED BY <3>2 DEF TailInv
  <2> QED BY <2>1, <2>2
<1>6. HasRead'
  <2> SUFFICES ASSUME NEW k \in 1..Len(listing), k <= Reach',
                      listing[k] \in Listed(base') \ moved'
               PROVE  listing[k] \in Got' \union Partial
    BY <1>0, <1>1 DEF HasRead, Listed, ToSet
  <2>1. CASE k > offset
    <3>1. k \in (offset + 1)..Reach' BY <1>0, <2>1
    <3> QED BY <1>1, <1>4, <3>1
  <2>2. CASE k <= offset
    <3>1. base' = base /\ moved' = moved BY <1>0, <1>2, <2>2
    <3> QED BY <1>0, <1>3, <1>4, <2>2, <3>1 DEF TailInv, HasRead
  <2> QED BY <1>0, <2>1, <2>2
<1>7. NoGaps'
  <2> SUFFICES ASSUME NEW i \in DOMAIN base', NEW j \in DOMAIN base', i < j,
                      base'[j] \in Got' \ (moved' \union Partial), base'[i] \notin moved'
               PROVE  base'[i] \in Got' \union Partial
    BY DEF NoGaps
  <2>1. CASE base'[j] \in Got
    <3>1. base' = base /\ moved' = moved BY <1>2, <1>3, <2>1
    <3> QED BY <1>4, <2>1, <3>1 DEF TailInv, NoGaps
  <2>2. CASE base'[j] \in Listed(Pending')
    <3>1. PICK l \in (offset + 1)..Reach' : base'[j] = listing[l] BY <1>1, <2>2
    <3>2. l \in 1..Len(listing) /\ l <= Reach' /\ l \in Int
      <4>1. Reach' \in offset..Len(listing) BY <1>1
      <4> QED BY <1>t, <1>r, <4>1
    <3>3. base'[i] \in Listed(base') /\ Listed(base') \subseteq Listed(listing)
      BY <1>1, <1>5 DEF Ordered, Listed, ToSet
    <3>4. PICK k \in 1..Len(listing) : base'[i] = listing[k] BY <1>0, <3>3 DEF Listed, ToSet
    <3>5. k < l BY <1>0, <1>1, <1>5, <3>1, <3>2, <3>4 DEF Ordered
    <3>6. k <= Reach' BY <1>0, <3>2, <3>5
    <3> QED BY <1>0, <1>1, <1>6, <3>3, <3>4, <3>6 DEF HasRead, Listed, ToSet
  <2> QED BY <1>4, <2>1, <2>2
<1>8. base' # <<>> => Len(listing) = Len(base') + added'
  <2>1. CASE offset = 0 BY <1>0, <1>2, <2>1
  <2>2. CASE offset # 0 BY <1>2, <2>2 DEF TailInv, Sizes
  <2> QED BY <2>1, <2>2
<1>9. Len(base') <= Len(listing)
  <2>1. CASE offset = 0 BY <1>0, <1>2, <2>1
  <2>2. CASE offset # 0 BY <1>2, <2>2, Room DEF TailInv
  <2> QED BY <2>1, <2>2
<1>10. total # NoTotal => Len(base') <= total
  BY <1>2 DEF TailInv, Sizes
<1>11. answer'.count # NoTotal => Len(base') <= answer'.count BY <1>1, <1>9
<1>12. Sizes'
  BY <1>1, <1>2, <1>3, <1>8, <1>9, <1>10, <1>11 DEF TailInv, Sizes
<1> QED BY <1>5, <1>6, <1>7, <1>12 DEF TailInv

\* A page is yielded.
LEMMA TailYields ==
  ASSUME TypeInv, TailInv, Page
  PROVE  TailInv'
<1>0. /\ offset \in Nat /\ Len(answer.entries) \in Nat /\ Reach \in Nat
      /\ Pending = answer.entries /\ Reach = offset + Len(answer.entries)
      /\ answer.entries # <<>> /\ answer.entries \in Seq(Papers) /\ answer.kind = "page"
      /\ Crawler \in Threads /\ DOMAIN pc = Threads
  BY PendingTypes DEF Page, FullPage, TypeInv, ResultsOK, ThreadsOK, Threads, Pending, Reach
<1> DEFINE count == IF total = NoTotal THEN answer.count ELSE total
<1>1. /\ answer' = NoAnswer /\ UNCHANGED <<listing, base, added, moved, truthful>>
      /\ yielded' = yielded \union (Listed(answer.entries) \ Partial)
      /\ total' = count /\ offset' = Reach
      /\ pc'[Crawler] = IF LastPage(answer.entries, count) THEN "done" ELSE "ready"
  BY <1>0 DEF Page, Heard, arxiv, NextOffset, Transition
<1>2. Pending' = <<>> /\ Listed(<<>>) = {} /\ Len(<<>>) = 0
  BY <1>1 DEF Pending, NoAnswer, Listed, ToSet
<1>3. Reach' = Reach /\ Got' = yielded' BY <1>0, <1>1, <1>2 DEF Reach, Got
<1>4. Got' \union Partial = Got \union Partial /\ Got' \ Partial = Got \ Partial
  BY <1>0, <1>1, <1>3 DEF Got
<1>5. Ordered' /\ HasRead' /\ NoGaps' BY <1>1, <1>3, <1>4, TailSteady DEF TailInv
<1>6. offset' # 0 BY <1>0, <1>1
<1>7. count # NoTotal => Len(base) <= count BY <1>0 DEF TailInv, Sizes
<1>8. pc'[Crawler] = "done" /\ truthful => Len(base) <= Reach
  <2> SUFFICES ASSUME LastPage(answer.entries, count), truthful PROVE Len(base) <= Reach
    BY <1>1
  <2>1. CASE Len(answer.entries) < PageSize BY <1>0, <2>1 DEF TailInv, Sizes
  <2>2. CASE count # NoTotal /\ count <= Reach
    <3>1. count \in Int BY <1>0 DEF TypeInv, ResultsOK, NoTotal
    <3>2. Len(base) \in Nat BY Room DEF TailInv
    <3> HIDE DEF count
    <3> QED BY <1>0, <1>7, <2>2, <3>1, <3>2
  <2>3. CASE count # NoTotal /\ ~(count <= Reach) /\ ~(Len(answer.entries) < PageSize)
    <3>1. ~(Reach >= count) BY <2>3
    <3> QED BY <1>0, <2>3, <3>1 DEF LastPage, NextOffset
  <2> QED BY <2>1, <2>2, <2>3 DEF LastPage
<1>9. Sizes'
  <2> HIDE DEF count
  <2> QED BY <1>1, <1>6, <1>7, <1>8 DEF TailInv, Sizes, NoAnswer
<1> QED BY <1>5, <1>9 DEF TailInv

LEMMA TailNext == TypeInv /\ TypeInv' /\ TailInv /\ [Next]_vars => TailInv'
<1> SUFFICES ASSUME TypeInv, TypeInv', TailInv, [Next]_vars PROVE TailInv' OBVIOUS
<1>l. ListingOK /\ ListingOK' BY DEF TypeInv
<1>n. Len(listing) \in Nat /\ added \in Nat /\ Len(base) \in Nat
  BY <1>l DEF ListingOK
<1>c. Crawler \in Threads /\ DOMAIN pc = Threads BY DEF TypeInv, ThreadsOK, Threads
<1>0. /\ ListingOK /\ ListingOK' /\ Len(listing) \in Nat /\ added \in Nat
      /\ Len(base) \in Nat /\ Crawler \in Threads /\ DOMAIN pc = Threads
  BY <1>l, <1>n, <1>c
<1>1. CASE Enter
  <2>1. Slides /\ Len(listing') = Len(listing) + 1 BY <1>0, <1>1, EnterSlides
  <2>2. /\ UNCHANGED <<base, crawl, answer, pc, truthful, moved>>
        /\ added' = added + 1
    BY <1>1 DEF Enter
  <2>3. base # <<>> => Len(listing') = Len(base) + added'
    BY <1>0, <2>1, <2>2 DEF TailInv, Sizes
  <2> QED BY <1>0, <2>1, <2>2, <2>3, TailSlides
<1>2. CASE Move
  <2>1. Slides /\ Len(listing') = Len(listing) BY <1>0, <1>2, MoveSlides
  <2>2. UNCHANGED <<base, crawl, answer, pc, truthful, added>> /\ moved \subseteq moved'
    BY <1>2 DEF Move
  <2>3. base # <<>> => Len(listing') = Len(base) + added'
    BY <2>1, <2>2 DEF TailInv, Sizes
  <2> QED BY <1>0, <2>1, <2>2, <2>3, TailSlides
<1>3. CASE AnswerPage BY <1>3, TailPage
<1>4. CASE AnswerError
  <2>1. PICK kind \in {"failed", "fatal"} : CrawlHears([kind |-> kind]) BY <1>4 DEF AnswerError
  <2>2. /\ UNCHANGED <<listing, offset, total, yielded, base, added, moved, truthful>>
        /\ answer'.kind = kind /\ pc'[Crawler] = "answered" /\ pc[Crawler] = "sent"
    BY <1>0, <1>4, <2>1 DEF CrawlHears, Ended, crawl, Transition, AnswerError
  <2>3. answer = NoAnswer BY <2>2 DEF TypeInv, ResultsOK
  <2>4. Pending = <<>> /\ Pending' = <<>> BY <2>2, <2>3 DEF Pending, NoAnswer
  <2>5. Reach' = Reach /\ Got' = Got BY <2>2, <2>4 DEF Reach, Got
  <2>6. Sizes' BY <2>2 DEF TailInv, Sizes
  <2> QED BY <2>2, <2>5, <2>6, TailSteady DEF TailInv
<1>5. CASE Handles
  <2>1. /\ answer' = NoAnswer /\ Pending = <<>>
        /\ UNCHANGED <<listing, offset, total, yielded, base, added, moved, truthful>>
        /\ pc'[Crawler] = "done" => answer.kind = "page" /\ answer.entries = <<>>
    BY <1>5, HandlesGives DEF arxiv, crawl
  <2>2. Pending' = <<>> BY <2>1 DEF Pending, NoAnswer
  <2>3. Reach' = Reach /\ Got' = Got BY <2>1, <2>2 DEF Reach, Got
  <2>4. Reach = offset /\ Len(<<>>) < PageSize
    BY <2>1, ClientAssumption DEF Reach, TypeInv, ResultsOK, ClientAssumption
  <2>5. pc'[Crawler] = "done" /\ truthful => Len(base) <= offset
    BY <2>1, <2>4 DEF TailInv, Sizes
  <2>6. Sizes' BY <2>1, <2>5 DEF TailInv, Sizes, NoAnswer
  <2> QED BY <2>1, <2>3, <2>6, TailSteady DEF TailInv
<1>6. CASE Page BY <1>6, TailYields
<1>7. CASE Aside
  <2>1. /\ UNCHANGED <<listing, offset, total, yielded, base, added, moved, answer, truthful>>
        /\ pc'[Crawler] = "done" => pc[Crawler] = "done"
    BY <1>7 DEF Aside, arxiv, crawl
  <2>2. Reach' = Reach /\ Got' = Got BY <2>1 DEF Reach, Got, Pending
  <2>3. Sizes' BY <2>1, <2>2 DEF TailInv, Sizes
  <2> QED BY <2>1, <2>2, <2>3, TailSteady DEF TailInv
<1> QED BY <1>1, <1>2, <1>3, <1>4, <1>5, <1>6, <1>7, OtherSteps

\* What is missed lies below the offset, at different places of the listing.
LEMMA TailIsMissed ==
  ASSUME TypeInv, TailInv
  PROVE  OnlyTheTailIsMissed
<1> SUFFICES ASSUME pc[Crawler] = "done", truthful
             PROVE  /\ Cardinality(Missed) <= added
                    /\ \A i \in Missed : \A j \in DOMAIN base :
                         j > i => j \in Missed \/ base[j] \in moved \union Partial
  BY DEF OnlyTheTailIsMissed
<1>0. /\ DOMAIN listing = 1..Len(listing) /\ Len(listing) \in Nat /\ added \in Nat
      /\ offset \in Nat /\ DOMAIN base = 1..Len(base) /\ Len(base) \in Nat
  BY DEF TypeInv, ListingOK, ResultsOK
<1>1. answer = NoAnswer BY DEF TypeInv, ResultsOK
<1>2. Reach = offset /\ Got = yielded /\ Len(base) <= offset
  BY <1>1, PendingTypes DEF TypeInv, TailInv, Sizes
<1>3. \A i \in Missed : i \in DOMAIN base /\ base[i] \notin Got \union moved \union Partial
  BY <1>2 DEF Missed
<1>4. ASSUME NEW i \in Missed, NEW j \in DOMAIN base, j > i
      PROVE  j \in Missed \/ base[j] \in moved \union Partial
  <2>1. i \in DOMAIN base /\ i < j BY <1>0, <1>3, <1>4
  <2>2. base[j] \notin Got \ (moved \union Partial) BY <1>3, <2>1 DEF TailInv, NoGaps
  <2> QED BY <1>2, <2>2 DEF Missed
<1>5. Cardinality(Missed) <= added
  <2>1. CASE base = <<>>
    <3>1. Missed = {} BY <2>1 DEF Missed
    <3> QED BY <1>0, <3>1, FS_EmptySet
  <2>2. CASE base # <<>>
    <3> DEFINE Below == (Len(base) + 1)..Len(listing)
               place == [i \in Missed |-> CHOOSE k \in DOMAIN listing : listing[k] = base[i]]
    <3>1. ASSUME NEW i \in Missed
          PROVE  place[i] \in Below /\ listing[place[i]] = base[i]
      <4>1. \E k \in DOMAIN listing : listing[k] = base[i]
        BY <1>3 DEF TailInv, Ordered, Listed, ToSet
      <4>2. place[i] \in DOMAIN listing /\ listing[place[i]] = base[i] BY <4>1
      <4>3. base[i] \in Listed(base) BY <1>3 DEF Listed, ToSet
      <4>4. ~(place[i] <= offset) BY <1>2, <1>3, <4>2, <4>3 DEF TailInv, HasRead
      <4> HIDE DEF place
      <4> QED BY <1>0, <1>2, <4>2, <4>4
    <3>2. place \in [Missed -> Below] BY <3>1
    <3>3. \A i, j \in Missed : place[i] = place[j] => i = j
      <4> HIDE DEF place
      <4> QED BY <1>3, <3>1 DEF TailInv, Ordered, Distinct
    <3> HIDE DEF place
    <3>4. place \in Injection(Missed, Below) BY <3>2, <3>3 DEF Injection, IsInjective
    <3>5. IsFiniteSet(Below) /\ Cardinality(Below) = IF Len(base) + 1 > Len(listing) THEN 0
                                                     ELSE Len(listing) - (Len(base) + 1) + 1
      <4>1. Len(base) + 1 \in Int /\ Len(listing) \in Int BY <1>0
      <4> QED BY <4>1, FS_Interval
    <3>6. Len(listing) = Len(base) + added BY <2>2 DEF TailInv, Sizes
    <3>7. Cardinality(Below) = added BY <1>0, <3>5, <3>6
    <3> HIDE DEF Below
    <3> QED BY <3>4, <3>5, <3>7, FS_Injection
  <2> QED BY <2>1, <2>2
<1> QED BY <1>4, <1>5

\* For any number of results, pages of any size, any answers and any changes: a
\* crawl that ends without an error has missed at most as many of the papers it
\* was first shown as entered since, and those at the end.
THEOREM CrawlMissesOnlyTheTail == Spec => []OnlyTheTailIsMissed
BY TypeInit, TypeNext, TailInit, TailNext, TailIsMissed, PTL DEF Spec

-----------------------------------------------------------------------------
(* What the crawl amounts to.                                              *)

\* What the stream has yielded between two requests.
StreamInv ==
  /\ OnlyTheTailIsMissed
  /\ answer = NoAnswer => Stream!InOrder

LEMMA StreamKeepsOrder == TypeInv /\ TailInv => StreamInv
<1> SUFFICES ASSUME TypeInv, TailInv, answer = NoAnswer PROVE Stream!InOrder
  BY TailIsMissed DEF StreamInv
<1>1. Got = yielded BY PendingTypes DEF TypeInv
<1>2. DOMAIN base \subseteq Int BY DEF TypeInv, ListingOK
<1> SUFFICES ASSUME NEW i \in DOMAIN base, base[i] \notin yielded \union moved \union Partial,
                    NEW j \in DOMAIN base, j > i, base[j] \notin moved \union Partial
             PROVE  base[j] \notin yielded
  BY DEF Stream!InOrder, Stream!LeftOut
<1>3. i < j BY <1>2
<1> QED BY <1>1, <1>3 DEF TailInv, NoGaps

LEMMA StreamInit == Init => Stream!Init
BY DEF Init, Stream!Init, StreamState, Threads

LEMMA StreamPage ==
  ASSUME TypeInv, TailInv, AnswerPage
  PROVE  [Stream!Next]_(Stream!vars)
<1>0. /\ Crawler \in Threads /\ DOMAIN pc = Threads /\ truthful \in BOOLEAN
      /\ listing \in Seq(Papers) /\ Distinct(listing)
  BY DEF TypeInv, ThreadsOK, ListingOK, Threads
<1>1. /\ pc[Crawler] = "sent" /\ pc'[Crawler] = "answered"
      /\ yielded' = yielded
      /\ offset = 0 => base' = listing /\ added' = 0 /\ moved' = {}
      /\ offset # 0 => UNCHANGED <<base, added, moved>>
  BY <1>0 DEF AnswerPage, CrawlHears, Transition, Ended, crawl
<1>2. truthful' \in {truthful, FALSE}
  <2>1. PICK agrees \in BOOLEAN : truthful' = (truthful /\ agrees) BY Zenon DEF AnswerPage
  <2> QED BY <1>0, <2>1
<1>3. StreamState = "open" /\ StreamState' = "open" BY <1>1 DEF StreamState
<1>4. CASE offset = 0
  <2>1. yielded = {} BY <1>4 DEF TailInv, Sizes
  <2>2. Stream!IsInjective(listing) BY <1>0 DEF Stream!IsInjective, Distinct
  <2>3. base' \in Seq(Papers) /\ Stream!IsInjective(base') /\ added' = 0 /\ moved' = {}
    BY <1>0, <1>1, <1>4, <2>2
  <2>4. UNCHANGED <<yielded, StreamState>> BY <1>1, <1>3
  <2>5. Stream!Start BY <1>2, <1>3, <2>1, <2>3, <2>4, Zenon DEF Stream!Start
  <2> QED BY <2>5 DEF Stream!Next
<1>5. CASE offset # 0 /\ truthful' = truthful
  BY <1>1, <1>3, <1>5 DEF Stream!vars, Stream!list
<1>6. CASE offset # 0 /\ truthful' = FALSE
  <2>1. Stream!Shorten BY <1>1, <1>3, <1>6 DEF Stream!Shorten
  <2> QED BY <2>1 DEF Stream!Next
<1> QED BY <1>2, <1>4, <1>5, <1>6

\* A page, or the last page, or none after three tries.
LEMMA StreamYields ==
  ASSUME NEW page, page \subseteq Papers \ Partial, yielded' = yielded \union page,
         UNCHANGED <<base, added, moved, truthful>>, answer' = NoAnswer, StreamInv',
         pc[Crawler] = "answered", pc'[Crawler] # "raised"
  PROVE  Stream!Yield
<1>1. StreamState = "open" BY DEF StreamState
<1>2. StreamState' = IF pc'[Crawler] = "done" THEN "exhausted" ELSE "open" BY DEF StreamState
<1>3. Stream!InOrder' BY DEF StreamInv
<1>4. pc'[Crawler] = "done" => Stream!Complete'
  <2>1. Stream!LeftOut' = Missed' BY DEF Missed, Stream!LeftOut
  <2>2. pc'[Crawler] = "done" /\ truthful' => Cardinality(Missed') <= added'
    BY Zenon DEF StreamInv, OnlyTheTailIsMissed
  <2>3. \A S : Stream!Cardinality(S) = Cardinality(S)
    BY DEF Stream!Cardinality, Cardinality
  <2> QED BY <2>1, <2>2, <2>3, Zenon DEF Stream!Complete
<1>5. UNCHANGED Stream!list BY DEF Stream!list
<1>6. page \in SUBSET (Papers \ Partial) OBVIOUS
<1> QED BY <1>1, <1>2, <1>3, <1>4, <1>5, <1>6 DEF Stream!Yield

LEMMA StreamNext ==
  ASSUME TypeInv, TailInv, StreamInv', [Next]_vars
  PROVE  [Stream!Next]_(Stream!vars)
<1>0. /\ Crawler \in Threads /\ DOMAIN pc = Threads
      /\ listing \in Seq(Papers) /\ added \in Nat
  BY DEF TypeInv, ThreadsOK, ListingOK, Threads
<1>1. CASE Enter
  <2>1. Stream!Enter
    BY <1>1 DEF Enter, Change, crawl, StreamState, Stream!Enter
  <2> QED BY <2>1 DEF Stream!Next
<1>2. CASE Move
  <2>1. PICK i \in 2..Len(listing) : moved' = moved \union {listing[i]} BY <1>2 DEF Move
  <2>2. listing[i] \in Papers BY <1>0, <2>1
  <2>3. Stream!Move
    BY <1>2, <2>1, <2>2 DEF Move, Change, crawl, StreamState, Stream!Move
  <2> QED BY <2>3 DEF Stream!Next
<1>3. CASE AnswerPage BY <1>3, StreamPage
<1>4. CASE AnswerError
  <2>1. /\ UNCHANGED <<base, added, moved, truthful, yielded>>
        /\ pc[Crawler] = "sent" /\ pc'[Crawler] = "answered"
    BY <1>0, <1>4 DEF AnswerError, CrawlHears, Ended, crawl, Transition
  <2> QED BY <2>1 DEF StreamState, Stream!vars, Stream!list
<1>5. CASE Handles
  <2>1. /\ answer' = NoAnswer /\ pc[Crawler] = "answered"
        /\ UNCHANGED <<base, added, moved, truthful, yielded>>
    BY <1>5, HandlesGives DEF arxiv, crawl
  <2>2. CASE pc'[Crawler] = "raised"
    <3>1. Stream!Raise BY <2>1, <2>2 DEF StreamState, Stream!Raise, Stream!list
    <3> QED BY <3>1 DEF Stream!Next
  <2>3. CASE pc'[Crawler] # "raised"
    <3>1. {} \subseteq Papers \ Partial /\ yielded' = yielded \union {} BY <2>1
    <3>2. Stream!Yield BY <2>1, <2>3, <3>1, StreamYields, Zenon
    <3> QED BY <3>2 DEF Stream!Next
  <2> QED BY <2>2, <2>3
<1>6. CASE Page
  <2>1. /\ answer' = NoAnswer /\ UNCHANGED <<base, added, moved, truthful>>
        /\ yielded' = yielded \union (Listed(answer.entries) \ Partial)
        /\ pc[Crawler] = "answered" /\ pc'[Crawler] # "raised"
        /\ answer.kind = "page"
    BY <1>0, <1>6 DEF Page, FullPage, Heard, arxiv, Transition
  <2>2. answer.entries \in Seq(Papers) BY <2>1 DEF TypeInv, ResultsOK
  <2>3. Listed(answer.entries) \subseteq Papers BY <2>2 DEF Listed, ToSet
  <2>4. Stream!Yield BY <2>1, <2>3, StreamYields
  <2> QED BY <2>4 DEF Stream!Next
<1>7. CASE Aside
  <2>1. /\ UNCHANGED <<base, added, moved, truthful, yielded>>
        /\ \/ StreamState' = StreamState
           \/ StreamState = "open" /\ StreamState' = "raised"
    BY <1>7 DEF Aside, arxiv, crawl, StreamState
  <2>2. CASE StreamState' = StreamState BY <2>1, <2>2 DEF Stream!vars, Stream!list
  <2>3. CASE StreamState = "open" /\ StreamState' = "raised"
    <3>1. Stream!Raise BY <2>1, <2>3 DEF Stream!Raise, Stream!list
    <3> QED BY <3>1 DEF Stream!Next
  <2> QED BY <2>1, <2>2, <2>3
<1> QED BY <1>1, <1>2, <1>3, <1>4, <1>5, <1>6, <1>7, OtherSteps

\* Requests under a lock, retries and pages by offset amount to a stream that
\* yields papers from the newest on, leaves out no more than entered the results
\* meanwhile, and is silent after its end.
THEOREM ImplementsResultStream == Spec => StreamSpec
<1>1. Init => TypeInv /\ TailInv BY TypeInit, TailInit
<1>2. TypeInv /\ TailInv /\ [Next]_vars => (TypeInv /\ TailInv)' BY TypeNext, TailNext
<1>3. TypeInv /\ TailInv => StreamInv BY StreamKeepsOrder
<1>4. TypeInv /\ TailInv /\ StreamInv' /\ [Next]_vars => [Stream!Next]_(Stream!vars)
  BY StreamNext
<1> QED BY <1>1, <1>2, <1>3, <1>4, StreamInit, PTL DEF Spec, StreamSpec, Stream!Spec
====
