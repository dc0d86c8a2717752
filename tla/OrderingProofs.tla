--------------------------- MODULE OrderingProofs ---------------------------
(***************************************************************************)
(* The loose order of services (mod_reorder), for any services that may go *)
(* before and after each other in any way, circles included, any number of *)
(* modules for each and any of them failing, on the way up, on the way     *)
(* down and at a shutdown - as long as no module requires another.         *)
(*                                                                         *)
(* A thread gets to its module only past a mod_reorder of its own, which   *)
(* has found nothing to wait for.  So whatever the module goes after has   *)
(* left the queue by then, has been dealt with, is behind the module as    *)
(* well, or its deferral is still to be looked at or to be entered (Seen). *)
(* That a look that finds a circle in the chains has found one between the *)
(* modules needs that the chains hold nothing else (Loosely).              *)
(***************************************************************************)
EXTENDS Ordering, TLAPS

\* Every service has a module, and none of its modules requires anything.
Undemanding ==
  /\ Nobody # Batch
  /\ \A s \in Services :
       Candidates(s) # {} /\ \A k \in Candidates(s) : Requires[s][k] = {}

\* The task of all that is queued.
Way == IF target_disable = {} THEN "enable" ELSE "disable"

Deferral(s, d) == [who |-> s, whom |-> d]
Deferrals == {p \in [who : Services, whom : Services] : p.who # p.whom}
Orders == [at : {"new", "busy", "done"}, late : BOOLEAN, todo : SUBSET Deferrals,
           entry : Deferrals \cup {None}]

\* The deferrals of a mod_reorder that are not entered yet.
Open(s) == order[s].todo \cup ({order[s].entry} \ {None})

OrderTypes ==
  /\ order \in [Services -> Orders]
  /\ after \in [Services -> SUBSET Services] /\ before \in [Services -> SUBSET Services]
  /\ work \in [Services -> Stages] /\ goal \in [Services -> {"none", "enable", "disable"}]
  /\ head \in [Services -> Nat] /\ candidate \in [Services -> Nat]
  /\ up \in [Services -> Nat] /\ listed \in [Services -> Nat]

\* The queue has one task, and what a batch has yet to look at is on it.
OneWay ==
  /\ enable \subseteq target_enable /\ disable \subseteq target_disable
  /\ target_enable = {} \/ target_disable = {}
  /\ target_enable \cup target_disable = Services
  /\ InBatch => left \subseteq enable \cup disable

\* No service is deferred but for the order.
Loosely == \A s \in Services : after[s] \subseteq Earlier(Way)[s]

New == {"none", "examine", "wait", "decide"}
Walking == {"apply", "need", "pre", "call", "run", "update", "next"}
Ordered == {"call", "run", "update", "next"}

Thread(s) ==
  /\ work[s] # "defer"
  /\ InBatch => work[s] \in New \cup {"leave"}
  /\ head[s] \in Candidates(s) /\ {up[s], listed[s]} \subseteq {0} \cup Candidates(s)
  /\ work[s] \in Walking => goal[s] = Way /\ candidate[s] \in Candidates(s)
  /\ work[s] \in New => order[s].at # "done"
  /\ At(s, "apply") /\ order[s].at = "done" => ~order[s].late
  /\ At(s, "need") => Busy(s)
  /\ work[s] \in Ordered => order[s].at = "done" /\ ~order[s].late

Seen(s, d) ==
  \/ d \notin enable \cup disable \/ d \in Settled
  \/ Circle(s, d, Way) \/ Deferral(s, d) \in Open(s)

Order(s) ==
  /\ \A p \in Open(s) : p.whom \in Earlier(Way)[p.who]
  /\ ~Busy(s) => Open(s) = {}
  /\ order[s].at # "new" /\ ~order[s].late => \A d \in Behind(s, Way) \cap Services : Seen(s, d)

OrderInv ==
  OrderTypes /\ OneWay /\ Loosely /\ \A s \in Services : Thread(s) /\ Order(s)

-----------------------------------------------------------------------------
\* What is behind s is in a circle with it, and so is s itself.
LEMMA BehindCircles ==
  ASSUME NEW s \in Services, NEW d \in Services, NEW t, s = d \/ s \in Earlier(t)[d]
  PROVE  Circle(s, d, t)
BY DEF Circle, Reached

\* A circle in the chains is one of the order.
LEMMA CirclesFound ==
  ASSUME Loosely, NEW s \in Services, NEW d \in Services, Circular(s, d)
  PROVE  Circle(s, d, Way)
<1>1. SUFFICES ASSUME NEW R \in SUBSET Services, d \in R,
                      \A x \in R : Earlier(Way)[x] \subseteq R
               PROVE  s \in R
  BY DEF Circle, Reached
<1>2. \A x \in R : after[x] \subseteq R BY <1>1 DEF Loosely
<1> QED BY <1>1, <1>2 DEF Circular, Reached

LEMMA EarlierOf ==
  ASSUME NEW s \in Services, NEW t
  PROVE  Earlier(t)[s] = Behind(s, t) \cup {a \in Services : s \in Ahead(a, t)}
BY DEF Earlier

\* The order of the modules does not change, the queue only shrinks and what is settled
\* stays so.
Onward ==
  /\ UNCHANGED target
  /\ enable' \subseteq enable /\ disable' \subseteq disable
  /\ Settled \subseteq Settled'

LEMMA OrderFixed ==
  ASSUME UNCHANGED target
  PROVE  /\ Way' = Way
         /\ \A s \in Services : Behind(s, Way)' = Behind(s, Way)
         /\ Earlier(Way)' = Earlier(Way)
         /\ \A s, d \in Services : Circle(s, d, Way)' = Circle(s, d, Way)
<1>1. Way' = Way /\ shutting_down' = shutting_down BY DEF target, Way
<1>2. \A s \in Services : Behind(s, Way)' = Behind(s, Way) /\ Ahead(s, Way)' = Ahead(s, Way)
  BY <1>1 DEF Behind, Ahead
<1>3. Earlier(Way)' = Earlier(Way) BY <1>2 DEF Earlier
<1>4. \A s, d \in Services : Circle(s, d, Way)' = Circle(s, d, Way)
  BY <1>3 DEF Circle, Reached
<1> QED BY <1>1, <1>2, <1>3, <1>4

\* A mod_reorder that makes no step stays as good as it is.
LEMMA OrderRests ==
  ASSUME NEW s \in Services, Order(s), Onward, order'[s] = order[s]
  PROVE  Order(s)'
<1>1. /\ Behind(s, Way)' = Behind(s, Way) /\ Earlier(Way)' = Earlier(Way)
      /\ \A d \in Services : Circle(s, d, Way)' = Circle(s, d, Way)
  BY OrderFixed DEF Onward
<1>2. Open(s)' = Open(s) /\ Busy(s)' = Busy(s) BY DEF Open, Busy
<1>3. \A d \in Services : Seen(s, d) => Seen(s, d)'
  BY <1>1, <1>2 DEF Seen, Onward
<1> QED BY <1>1, <1>2, <1>3 DEF Order

LEMMA OrderEmpty ==
  ASSUME NEW s \in Services, order'[s] = NoOrder
  PROVE  Order(s)'
<1>1. Open(s)' = {} BY DEF Open, NoOrder
<1> QED BY <1>1 DEF Order, NoOrder

LEMMA OneWayRests ==
  ASSUME OneWay, Onward, InBatch' => left' \subseteq enable' \cup disable'
  PROVE  OneWay'
BY DEF OneWay, Onward, target

LEMMA LooselyRests ==
  ASSUME Loosely, Onward, \A s \in Services : after'[s] \subseteq after[s]
  PROVE  Loosely'
<1>1. Earlier(Way)' = Earlier(Way) BY OrderFixed DEF Onward
<1> QED BY <1>1 DEF Loosely

\* All that is queued has the one task.
LEMMA TaskIsWay ==
  ASSUME OneWay, NEW s \in Services
  PROVE  /\ Task(s) = Way
         /\ s \in enable => Way = "enable"
         /\ s \in disable => Way = "disable"
         /\ (IF Way = "enable" THEN enable ELSE disable) = enable \cup disable
BY DEF OneWay, Task, Way

\* The deferrals a mod_reorder is to look at are all of those that count.
LEMMA Begun ==
  ASSUME Undemanding, OrderInv, NEW s \in Services,
         BeginOrder(s, Way), UNCHANGED <<target, marks, enable, disable>>
  PROVE  /\ order' \in [Services -> Orders]
         /\ Order(s)' /\ Busy(s)'
         /\ \A y \in Services \ {s} : order'[y] = order[y]
<1> DEFINE P == Pairs(s, Way)
           new == [at |-> "busy", todo |-> P, entry |-> None, late |-> FALSE]
           queued == enable \cup disable
<1>1. /\ order \in [Services -> Orders] /\ OneWay /\ Thread(s)
  BY DEF OrderInv, OrderTypes
<1>2. Requires[s][head[s]] = {} BY <1>1 DEF Thread, Undemanding
<1>3. /\ (IF Way = "enable" THEN enable ELSE disable) = queued
      /\ queued \subseteq Services
  BY <1>1, TaskIsWay DEF OneWay
<1>4. \A X : Loose(s, X, Way) = (X \cap queued) \ ({s} \cup Settled)
  BY <1>2, <1>3 DEF Loose
<1>5. \A p \in P : /\ p \in Deferrals
                   /\ p.whom \in Earlier(Way)[p.who]
  <2> SUFFICES ASSUME NEW p \in P PROVE p \in Deferrals /\ p.whom \in Earlier(Way)[p.who]
    OBVIOUS
  <2>1. CASE \E b \in Loose(s, Ahead(s, Way), Way) : p = [who |-> b, whom |-> s]
    <3>1. PICK b \in Services \ {s} : b \in Ahead(s, Way) /\ p = [who |-> b, whom |-> s]
      BY <1>3, <1>4, <2>1
    <3>2. s \in Earlier(Way)[b] BY <3>1, EarlierOf
    <3> QED BY <3>1, <3>2 DEF Deferrals
  <2>2. CASE \E a \in Loose(s, Behind(s, Way), Way) : p = [who |-> s, whom |-> a]
    <3>1. PICK a \in Services \ {s} : a \in Behind(s, Way) /\ p = [who |-> s, whom |-> a]
      BY <1>3, <1>4, <2>2
    <3>2. a \in Earlier(Way)[s] BY <3>1, EarlierOf
    <3> QED BY <3>1, <3>2 DEF Deferrals
  <2> QED BY <2>1, <2>2 DEF Pairs
<1>6. \A d \in Behind(s, Way) \cap Services :
        d \notin queued \/ d \in Settled \/ Circle(s, d, Way) \/ Deferral(s, d) \in P
  <2> SUFFICES ASSUME NEW d \in Services, d \in Behind(s, Way), d \in queued,
                      d \notin Settled, ~Circle(s, d, Way)
               PROVE  Deferral(s, d) \in P
    OBVIOUS
  <2>1. s # d /\ s \notin Earlier(Way)[d] BY BehindCircles
  <2>2. d \notin Ahead(s, Way) BY <2>1, EarlierOf
  <2>3. d \in Loose(s, Behind(s, Way), Way) \ Loose(s, Ahead(s, Way), Way)
    BY <1>4, <2>1, <2>2
  <2> QED BY <2>3 DEF Pairs, Deferral
<1>7. order' = [order EXCEPT ![s] = new] BY DEF BeginOrder
<1> HIDE DEF P
<1>8. new \in Orders BY <1>5 DEF Orders
<1>9. order' \in [Services -> Orders] /\ order'[s] = new BY <1>1, <1>7, <1>8
<1>10. Open(s)' = P /\ Busy(s)' BY <1>9 DEF Open, Busy
<1>11. /\ Behind(s, Way)' = Behind(s, Way) /\ Earlier(Way)' = Earlier(Way)
       /\ \A d \in Services : Circle(s, d, Way)' = Circle(s, d, Way)
  BY OrderFixed
<1>12. \A d \in Behind(s, Way) \cap Services : Seen(s, d)'
  BY <1>6, <1>10, <1>11 DEF Seen, Settled, marks
<1>13. Order(s)' BY <1>5, <1>10, <1>11, <1>12 DEF Order
<1> QED BY <1>1, <1>7, <1>9, <1>10, <1>13

-----------------------------------------------------------------------------
\* Threads that are created examine their service, and nothing else changes.
Woken(w) ==
  /\ work' \in [Services -> Stages] /\ before' \in [Services -> SUBSET Services]
  /\ \A y \in Services : work'[y] = w[y] \/ (w[y] = "none" /\ work'[y] = "examine")

LEMMA CreateWakes ==
  ASSUME NEW X, NEW w \in [Services -> Stages], NEW bf \in [Services -> SUBSET Services],
         Create(X, w, bf)
  PROVE  Woken(w)
<1>1. PICK seen :
        /\ work' = [x \in Services |-> IF x \in seen \ Settled' /\ w[x] = "none"
                                          THEN "examine" ELSE w[x]]
        /\ before' = [x \in Services |-> IF x \in seen \cap Settled' THEN {} ELSE bf[x]]
  BY DEF Create
<1>2. before' \in [Services -> SUBSET Services] BY <1>1
<1>3. work' \in [Services -> Stages] BY <1>1 DEF Stages
<1> QED BY <1>1, <1>2, <1>3 DEF Woken

LEMMA MovedTypes ==
  ASSUME NEW s \in Services, NEW stage \in Stages, work \in [Services -> Stages]
  PROVE  /\ Moved(work, s, stage) \in [Services -> Stages]
         /\ Moved(work, s, stage)[s] = stage
         /\ \A y \in Services \ {s} : Moved(work, s, stage)[y] = work[y]
BY DEF Moved

\* A thread that makes no step.
Still(y) ==
  /\ work'[y] = work[y] \/ (work[y] = "none" /\ work'[y] = "examine")
  /\ goal'[y] = goal[y] /\ candidate'[y] = candidate[y] /\ head'[y] = head[y]
  /\ up'[y] = up[y] /\ listed'[y] = listed[y]
  /\ order'[y] = order[y]

LEMMA ThreadRests ==
  ASSUME NEW y \in Services, Thread(y), Still(y), UNCHANGED target,
         InBatch' => InBatch \/ work'[y] = "none"
  PROVE  Thread(y)'
<1>1. Way' = Way BY OrderFixed
<1>2. (InBatch => work[y] \in New \cup {"leave"}) => (InBatch => work[y] \in New \cup {"leave"})'
  BY DEF Still, New
<1> QED BY <1>1, <1>2 DEF Thread, Still, At, Busy, New, Walking, Ordered

\* A step of one thread, or of a mod_reorder for one service.
LEMMA OneStep ==
  ASSUME OrderInv, Onward, OrderTypes', OneWay', Loosely',
         \A y \in Services :
           \/ Still(y) /\ (InBatch' => InBatch \/ work'[y] = "none")
           \/ Thread(y)' /\ Order(y)'
  PROVE  OrderInv'
<1>1. ASSUME NEW y \in Services PROVE Thread(y)' /\ Order(y)'
  <2>1. CASE Still(y) /\ (InBatch' => InBatch \/ work'[y] = "none")
    BY <2>1, ThreadRests, OrderRests DEF OrderInv, Onward, Still
  <2> QED BY <1>1, <2>1
<1> QED BY <1>1 DEF OrderInv

\* The same where the batch and what is being ordered stay as they are.
LEMMA OneThread ==
  ASSUME OrderInv, NEW s \in Services, NEW w, Woken(w), w[s] # "none",
         \A y \in Services \ {s} :
           /\ w[y] = work[y] /\ goal'[y] = goal[y] /\ candidate'[y] = candidate[y]
           /\ head'[y] = head[y] /\ up'[y] = up[y] /\ listed'[y] = listed[y],
         UNCHANGED <<order, target, left, tbmutex>>,
         InBatch => enable' = enable /\ disable' = disable,
         enable' \subseteq enable, disable' \subseteq disable, Settled \subseteq Settled',
         after' \in [Services -> SUBSET Services],
         \A y \in Services : after'[y] \subseteq after[y],
         goal' \in [Services -> {"none", "enable", "disable"}],
         head' \in [Services -> Nat], candidate' \in [Services -> Nat],
         up' \in [Services -> Nat], listed' \in [Services -> Nat],
         work'[s] = w[s] => Thread(s)'
  PROVE  OrderInv'
<1>1. Onward BY DEF Onward
<1>2. OneWay' /\ Loosely' BY <1>1, OneWayRests, LooselyRests DEF OrderInv, InBatch, OneWay
<1>3. OrderTypes' BY DEF OrderInv, OrderTypes, Woken
<1>4. \A y \in Services \ {s} : Still(y) /\ (InBatch' => InBatch)
  BY DEF Still, Woken, InBatch
<1>5. Thread(s)' BY DEF Woken
<1>6. Order(s)' BY <1>1, OrderRests DEF OrderInv
<1> QED BY <1>1, <1>2, <1>3, <1>4, <1>5, <1>6, OneStep

-----------------------------------------------------------------------------
\* The steps of the batch.
LEMMA InitOrder ==
  ASSUME Undemanding, Init
  PROVE  OrderInv
<1>1. PICK up0 \in {0, 1} :
        /\ up = [s \in Services |-> up0] /\ listed = up
        /\ enable = IF up0 = 0 THEN Services ELSE {}
        /\ disable = Services \ enable
  BY DEF Init
<1>2. /\ order = [s \in Services |-> NoOrder]
      /\ NoOrder \in Orders
  BY DEF Init, NoOrder, Orders
<1>3. OrderTypes BY <1>1, <1>2 DEF Init, OrderTypes, Stages
<1>4. OneWay BY <1>1 DEF Init, OneWay
<1>5. Loosely BY DEF Init, Loosely
<1>6. ASSUME NEW s \in Services PROVE Thread(s)
  <2>1. Requires[s] \in Seq(SUBSET Services) /\ Candidates(s) # {}
    BY WorkersAssumption DEF Undemanding
  <2>2. 1 \in Candidates(s) BY <2>1 DEF Candidates
  <2> QED BY <1>1, <1>2, <2>2 DEF Init, Thread, At, Busy, New, Walking, Ordered, NoOrder
<1>7. ASSUME NEW s \in Services PROVE Order(s)
  BY <1>2 DEF Order, Open, Busy, NoOrder
<1> QED BY <1>3, <1>4, <1>5, <1>6, <1>7 DEF OrderInv

LEMMA SpawnedKeeps ==
  ASSUME Undemanding, OrderInv, Spawned
  PROVE  OrderInv'
<1>1. Onward BY DEF Spawned, Onward, target, Settled, marks
<1>2. Woken(work)
  <2> DEFINE bf == IF dospawn = {} THEN [s \in Services |-> {}] ELSE before
  <2>1. bf \in [Services -> SUBSET Services] /\ work \in [Services -> Stages]
    BY DEF OrderInv, OrderTypes
  <2>2. Create(dospawn, work, bf) BY DEF Spawned
  <2> HIDE DEF bf
  <2> QED BY <2>1, <2>2, CreateWakes
<1>3. ~InBatch' BY DEF Spawned, InBatch, Undemanding
<1>4. /\ after' \in [Services -> SUBSET Services]
      /\ \A y \in Services : after'[y] \subseteq after[y]
  BY DEF Spawned, OrderInv, OrderTypes
<1>5. OrderTypes' BY <1>2, <1>4 DEF Spawned, OrderInv, OrderTypes, Woken, modstate, walk
<1>6. OneWay' /\ Loosely' BY <1>1, <1>3, <1>4, OneWayRests, LooselyRests DEF OrderInv
<1>7. \A y \in Services : Still(y) BY <1>2 DEF Spawned, Still, Woken, modstate, walk
<1> QED BY <1>1, <1>3, <1>5, <1>6, <1>7, OneStep

LEMMA LookKeeps ==
  ASSUME Undemanding, OrderInv, NEW s \in Services, Look(s)
  PROVE  OrderInv'
<1>1. UNCHANGED <<modstate, queue, target, after, walk, leaving, dospawn, asked, marks>>
  BY DEF Look
<1>2. Onward BY <1>1 DEF Onward, target, Settled, marks, queue
<1>3. Loosely' BY <1>1, <1>2, LooselyRests DEF OrderInv
<1>4. left' \subseteq left /\ InBatch BY DEF Look
<1>5. OneWay' BY <1>1, <1>2, <1>4, OneWayRests DEF OrderInv, OneWay, queue
<1>6. CASE Woken(work) /\ UNCHANGED order
  <2>1. OrderTypes' BY <1>1, <1>6 DEF OrderInv, OrderTypes, Woken, modstate, walk
  <2>2. \A y \in Services : Still(y) BY <1>1, <1>6 DEF Still, Woken, modstate, walk
  <2>3. Thread(s)' /\ Order(s)'
    BY <1>2, <1>4, <2>2, ThreadRests, OrderRests DEF OrderInv, Onward, Still
  <2> QED BY <1>2, <1>3, <1>4, <1>5, <2>1, <2>2, <2>3, OneStep
<1>7. CASE BeginOrder(s, IF s \in enable THEN "enable" ELSE "disable")
           /\ UNCHANGED <<work, before, left>>
  <2>1. (IF s \in enable THEN "enable" ELSE "disable") = Way
    BY TaskIsWay DEF Look, OrderInv, OneWay
  <2>2. BeginOrder(s, Way) BY <1>7, <2>1
  <2>3. /\ order' \in [Services -> Orders] /\ Order(s)' /\ Busy(s)'
        /\ \A y \in Services \ {s} : order'[y] = order[y]
    BY <1>1, <2>2, Begun DEF queue
  <2>4. OrderTypes' BY <1>1, <1>7, <2>3 DEF OrderInv, OrderTypes, modstate, walk
  <2>5. \A y \in Services \ {s} : Still(y) BY <1>1, <1>7, <2>3 DEF Still, modstate, walk
  <2>6. work[s] \in New \cup {"leave"} BY <1>4 DEF OrderInv, Thread
  <2>7. Thread(s)'
    <3>1. Way' = Way BY <1>2, OrderFixed DEF Onward
    <3> QED BY <1>1, <1>7, <2>3, <2>6, <3>1
          DEF OrderInv, Thread, At, Busy, New, Walking, Ordered, modstate, walk
  <2> QED BY <1>2, <1>3, <1>4, <1>5, <2>3, <2>4, <2>5, <2>7, OneStep
<1>8. CASE s \in broken \/ Deferred(s)
  <2>1. Create(IF s \in broken THEN {} ELSE after[s], work, before) /\ UNCHANGED order
    BY <1>8 DEF Look
  <2>2. Woken(work) BY <2>1, CreateWakes DEF OrderInv, OrderTypes
  <2> QED BY <1>6, <2>1, <2>2
<1> QED BY <1>7, <1>8 DEF Look

LEMMA LookedKeeps ==
  ASSUME OrderInv, NEW s \in Services, Looked(s)
  PROVE  OrderInv'
<1>1. /\ UNCHANGED <<modstate, tbmutex, target, marks, chains, threads, asked>>
      /\ enable' \subseteq enable /\ disable' \subseteq disable
      /\ order' = [order EXCEPT ![s] = NoOrder] /\ InBatch
  BY DEF Looked
<1>2. Onward BY <1>1 DEF Onward, Settled, marks
<1>3. Loosely' BY <1>1, <1>2, LooselyRests DEF OrderInv, chains
<1>4. left' \subseteq enable' \cup disable'
  BY DEF Looked, OrderInv, OneWay
<1>5. OneWay' BY <1>2, <1>4, OneWayRests DEF OrderInv
<1>6. NoOrder \in Orders BY DEF NoOrder, Orders
<1>7. OrderTypes' /\ order'[s] = NoOrder
  BY <1>1, <1>6 DEF OrderInv, OrderTypes, modstate, chains, threads, walk
<1>8. \A y \in Services \ {s} : Still(y) /\ (InBatch' => InBatch)
  BY <1>1 DEF Still, modstate, threads, walk, OrderInv, OrderTypes
<1>9. work[s] \in New \cup {"leave"} BY <1>1 DEF OrderInv, Thread
<1>10. Thread(s)'
  <2>1. Way' = Way BY <1>1, OrderFixed
  <2> QED BY <1>1, <1>7, <1>9, <2>1
        DEF OrderInv, Thread, At, Busy, New, Walking, Ordered, NoOrder, modstate, threads, walk
<1>11. Order(s)' BY <1>7, OrderEmpty
<1> QED BY <1>2, <1>3, <1>5, <1>7, <1>8, <1>10, <1>11, OneStep

-----------------------------------------------------------------------------
\* The steps of a mod_reorder.
LEMMA CheckKeeps ==
  ASSUME OrderInv, NEW s \in Services, Check(s)
  PROVE  OrderInv'
<1>1. PICK p \in order[s].todo :
        order' = [order EXCEPT ![s].todo = @ \ {p},
                               ![s].entry = IF Circular(p.who, p.whom) THEN None ELSE p]
  BY DEF Check
<1>2. UNCHANGED <<workervars, left, dospawn, asked>> /\ Busy(s) /\ order[s].entry = None
  BY DEF Check
<1> DEFINE e == IF Circular(p.who, p.whom) THEN None ELSE p
<1>3. /\ order \in [Services -> Orders] /\ p \in Deferrals /\ order[s].todo \subseteq Deferrals
  BY DEF OrderInv, OrderTypes, Orders
<1>4. e \in Deferrals \cup {None} /\ None \notin Deferrals
  BY <1>3 DEF Deferrals, None
<1>5. /\ order' \in [Services -> Orders]
      /\ order'[s].todo = order[s].todo \ {p} /\ order'[s].entry = e
      /\ order'[s].at = order[s].at /\ order'[s].late = order[s].late
      /\ \A y \in Services \ {s} : order'[y] = order[y]
  <2>1. order' = [order EXCEPT ![s].todo = @ \ {p}, ![s].entry = e] BY <1>1
  <2> HIDE DEF e
  <2> QED BY <2>1, <1>3, <1>4 DEF Orders
<1>6. Onward /\ UNCHANGED <<queue, target, chains, marks, threads, modstate>>
  BY <1>2 DEF Onward, workervars, queue, Settled, marks
<1>7. OrderTypes'
  BY <1>2, <1>5 DEF OrderInv, OrderTypes, workervars, modstate, chains, threads, walk
<1>8. OneWay' /\ Loosely'
  BY <1>2, <1>6, OneWayRests, LooselyRests DEF OrderInv, OneWay, queue, chains, InBatch
<1>9. \A y \in Services \ {s} : Still(y) /\ (InBatch' => InBatch)
  BY <1>5, <1>6 DEF Still, modstate, threads, walk, InBatch, queue
<1>10. Thread(s)'
  <2>1. Way' = Way BY <1>6, OrderFixed
  <2> QED BY <1>2, <1>5, <1>6, <2>1
        DEF OrderInv, Thread, At, Busy, InBatch, modstate, threads, walk, queue
<1>11. Order(s)'
  <2>1. /\ Behind(s, Way)' = Behind(s, Way) /\ Earlier(Way)' = Earlier(Way)
        /\ \A d \in Services : Circle(s, d, Way)' = Circle(s, d, Way)
    BY <1>6, OrderFixed
  <2>2. Open(s)' \subseteq Open(s) /\ Busy(s)' BY <1>1, <1>2, <1>5 DEF Open, Busy
  <2>3. \A q \in Open(s) : q \in Open(s)' \/ (q = p /\ Circular(p.who, p.whom))
    <3>1. CASE Circular(p.who, p.whom)
      <4>1. Open(s)' = order[s].todo \ {p} BY <1>5, <3>1 DEF Open
      <4> QED BY <1>2, <3>1, <4>1 DEF Open
    <3>2. CASE ~Circular(p.who, p.whom)
      <4>1. p # None /\ order'[s].entry = p BY <1>3, <1>4, <1>5, <3>2
      <4>2. Open(s)' = order[s].todo BY <1>5, <4>1 DEF Open
      <4> QED BY <1>2, <4>2 DEF Open
    <3> QED BY <3>1, <3>2
  <2>4. ASSUME NEW d \in Services, Seen(s, d) PROVE Seen(s, d)'
    <3>1. CASE Deferral(s, d) = p /\ Circular(p.who, p.whom)
      <4>1. Circular(s, d) BY <3>1 DEF Deferral
      <4>2. Circle(s, d, Way) BY <4>1, CirclesFound DEF OrderInv
      <4> QED BY <2>1, <4>2 DEF Seen
    <3>2. CASE Deferral(s, d) \in Open(s) /\ ~(Deferral(s, d) = p /\ Circular(p.who, p.whom))
      <4>1. Deferral(s, d) \in Open(s)' BY <2>3, <3>2 DEF Deferral
      <4>2. Deferral(s, d)' = Deferral(s, d) BY DEF Deferral
      <4> QED BY <4>1, <4>2 DEF Seen
    <3>3. CASE Deferral(s, d) \notin Open(s)
      BY <1>6, <2>1, <2>4, <3>3 DEF Seen, queue, marks, Settled
    <3> QED BY <3>1, <3>2, <3>3
  <2> QED BY <1>5, <2>1, <2>2, <2>4 DEF OrderInv, Order
<1> QED BY <1>6, <1>7, <1>8, <1>9, <1>10, <1>11, OneStep

LEMMA EnterKeeps ==
  ASSUME OrderInv, NEW s \in Services, Enter(s)
  PROVE  OrderInv'
<1> DEFINE p == order[s].entry
<1>1. /\ Busy(s) /\ p # None
      /\ after' = [after EXCEPT ![p.who] = @ \cup {p.whom}]
      /\ before' = [before EXCEPT ![p.whom] = @ \cup {p.who}]
      /\ order' = [order EXCEPT ![s].entry = None, ![s].late = @ \/ p.who = s]
      /\ UNCHANGED <<modstate, queue, target, marks, threads, left, dospawn, asked>>
  BY DEF Enter
<1>2. /\ order \in [Services -> Orders] /\ p \in Deferrals
      /\ p.who \in Services /\ p.whom \in Services
  BY <1>1 DEF OrderInv, OrderTypes, Orders, Deferrals
<1>3. /\ order' \in [Services -> Orders]
      /\ order'[s].todo = order[s].todo /\ order'[s].entry = None
      /\ order'[s].at = order[s].at /\ order'[s].late = (order[s].late \/ p.who = s)
      /\ \A y \in Services \ {s} : order'[y] = order[y]
  <2> HIDE DEF p
  <2> QED BY <1>1, <1>2 DEF Orders
<1>4. p \in Open(s) BY <1>1 DEF Open
<1>5. p.whom \in Earlier(Way)[p.who] BY <1>4 DEF OrderInv, Order
<1> HIDE DEF p
<1>6. Onward BY <1>1 DEF Onward, Settled, marks, queue
<1>7. Way' = Way /\ Earlier(Way)' = Earlier(Way) BY <1>1, OrderFixed
<1>8. OrderTypes' BY <1>1, <1>2, <1>3 DEF OrderInv, OrderTypes, modstate, threads, walk
<1>9. Loosely' BY <1>1, <1>2, <1>5, <1>7 DEF OrderInv, OrderTypes, Loosely
<1>10. OneWay' BY <1>1, <1>6, OneWayRests DEF OrderInv, OneWay, queue, InBatch
<1>11. \A y \in Services \ {s} : Still(y) /\ (InBatch' => InBatch)
  BY <1>1, <1>3 DEF Still, modstate, threads, walk, InBatch, queue
<1>12. Thread(s)'
  BY <1>1, <1>3, <1>7 DEF OrderInv, Thread, At, Busy, InBatch, modstate, threads, walk, queue,
                          New, Ordered
<1>13. Order(s)'
  <2>1. /\ Behind(s, Way)' = Behind(s, Way)
        /\ \A d \in Services : Circle(s, d, Way)' = Circle(s, d, Way)
    BY <1>6, OrderFixed DEF Onward
  <2>2. Open(s) \ {p} \subseteq Open(s)' /\ Open(s)' \subseteq Open(s) /\ Busy(s)'
    BY <1>1, <1>3 DEF Open, Busy, p
  <2>3. ASSUME NEW d \in Services, Seen(s, d), p.who # s PROVE Seen(s, d)'
    <3>1. Deferral(s, d) # p /\ Deferral(s, d)' = Deferral(s, d) BY <2>3 DEF Deferral
    <3> QED BY <1>1, <2>1, <2>2, <2>3, <3>1 DEF Seen, queue, marks, Settled
  <2> QED BY <1>3, <1>7, <2>1, <2>2, <2>3 DEF OrderInv, Order
<1> QED BY <1>6, <1>8, <1>9, <1>10, <1>11, <1>12, <1>13, OneStep

\* A thread that begins a mod_reorder.
LEMMA ReorderKeeps ==
  ASSUME Undemanding, OrderInv, NEW s \in Services, Reorder(s) \/ ReorderLast(s)
  PROVE  OrderInv'
<1>1. /\ UNCHANGED <<modstate, queue, target, marks, chains, walk, leaving, left, dospawn>>
      /\ work' = work \/ work' = Moved(work, s, "need")
      /\ At(s, "apply") /\ Unlocked
  BY DEF Reorder, ReorderLast, workervars, threads, Goto
<1>2. goal[s] = Way /\ work \in [Services -> Stages]
  BY <1>1 DEF OrderInv, OrderTypes, Thread, At, Walking
<1>3. BeginOrder(s, Way) BY <1>2 DEF Reorder, ReorderLast
<1>4. /\ order' \in [Services -> Orders] /\ Order(s)' /\ Busy(s)'
      /\ \A y \in Services \ {s} : order'[y] = order[y]
  BY <1>1, <1>3, Begun DEF queue
<1>5. /\ work' \in [Services -> Stages] /\ work'[s] \in {"apply", "need"}
      /\ \A y \in Services \ {s} : work'[y] = work[y]
  BY <1>1, <1>2, MovedTypes DEF Stages, At
<1>6. Onward BY <1>1 DEF Onward, Settled, marks, queue
<1>7. OneWay' /\ Loosely'
  BY <1>1, <1>6, OneWayRests, LooselyRests DEF OrderInv, OneWay, queue, chains, InBatch
<1>8. OrderTypes' BY <1>1, <1>4, <1>5 DEF OrderInv, OrderTypes, modstate, chains, walk
<1>9. \A y \in Services \ {s} : Still(y) /\ (InBatch' => InBatch)
  BY <1>1, <1>4, <1>5 DEF Still, modstate, walk, InBatch, queue
<1>10. Thread(s)'
  <2>1. Way' = Way BY <1>1, OrderFixed
  <2>2. ~InBatch' BY <1>1 DEF InBatch, Unlocked, queue, Undemanding
  <2>3. goal[s] = Way /\ candidate[s] \in Candidates(s)
    BY <1>1 DEF OrderInv, Thread, At, Walking
  <2> QED BY <1>1, <1>4, <1>5, <2>1, <2>2, <2>3
        DEF OrderInv, Thread, At, Busy, New, Ordered, modstate, walk
<1> QED BY <1>4, <1>6, <1>7, <1>8, <1>9, <1>10, OneStep

\* A thread that has carried out a mod_reorder goes on only if it has found nothing to
\* wait for.
LEMMA ReorderedKeeps ==
  ASSUME Undemanding, OrderInv, NEW s \in Services, Reordered(s) \/ ReorderedLast(s)
  PROVE  OrderInv'
<1>1. /\ UNCHANGED <<modstate, queue, target, marks, chains, walk, leaving, left, dospawn>>
      /\ work[s] \in {"apply", "need"} /\ Over(s)
  BY DEF Reordered, ReorderedLast, At
<1>2. \/ /\ order[s].late /\ work' = Moved(work, s, "wait")
         /\ order' = [order EXCEPT ![s] = NoOrder]
      \/ /\ ~order[s].late /\ work' = Moved(work, s, "apply")
         /\ order' = [order EXCEPT ![s].at = "done"]
      \/ /\ work' = Moved(work, s, IF order[s].late THEN "pre" ELSE "call")
         /\ order' = [order EXCEPT ![s].at = "done"]
  <2>1. CASE Reordered(s)
    <3>1. CASE order[s].late BY <2>1, <3>1 DEF Reordered, Goto
    <3>2. CASE ~order[s].late
      <4>1. order' = [order EXCEPT ![s] = [@ EXCEPT !.at = "done"]]
        BY <2>1, <3>2 DEF Reordered
      <4>2. order' = [order EXCEPT ![s].at = "done"] BY <4>1
      <4> QED BY <2>1, <3>2, <4>2 DEF Reordered, Goto
    <3> QED BY <3>1, <3>2
  <2>2. CASE ReorderedLast(s) BY <2>2 DEF ReorderedLast, Goto
  <2> QED BY <2>1, <2>2
<1>3. /\ order \in [Services -> Orders] /\ work \in [Services -> Stages]
      /\ NoOrder \in Orders
  BY DEF OrderInv, OrderTypes, NoOrder, Orders
<1>4. /\ order' \in [Services -> Orders]
      /\ \A y \in Services \ {s} : order'[y] = order[y]
  BY <1>2, <1>3 DEF Orders
<1>5. /\ work' \in [Services -> Stages]
      /\ \A y \in Services \ {s} : work'[y] = work[y]
      /\ \/ /\ work'[s] = "wait" /\ order'[s] = NoOrder
         \/ /\ ~order[s].late /\ work'[s] = "apply"
         \/ /\ work'[s] = IF order[s].late THEN "pre" ELSE "call"
  <2>1. {"wait", "apply", "pre", "call"} \subseteq Stages BY DEF Stages
  <2>2. (IF order[s].late THEN "pre" ELSE "call") \in Stages BY <2>1
  <2>3. CASE /\ order[s].late /\ work' = Moved(work, s, "wait")
             /\ order' = [order EXCEPT ![s] = NoOrder]
    BY <1>3, <2>1, <2>3, MovedTypes
  <2>4. CASE ~order[s].late /\ work' = Moved(work, s, "apply")
    BY <1>3, <2>1, <2>4, MovedTypes
  <2>5. CASE work' = Moved(work, s, IF order[s].late THEN "pre" ELSE "call")
    <3> DEFINE stage == IF order[s].late THEN "pre" ELSE "call"
    <3>1. stage \in Stages /\ work' = Moved(work, s, stage) BY <2>2, <2>5
    <3> HIDE DEF stage
    <3>2. /\ work' \in [Services -> Stages] /\ work'[s] = stage
          /\ \A y \in Services \ {s} : work'[y] = work[y]
      BY <1>3, <3>1, MovedTypes
    <3> QED BY <3>2 DEF stage
  <2> QED BY <1>2, <2>3, <2>4, <2>5
<1>6. \/ order'[s] = NoOrder
      \/ /\ order'[s].at = "done" /\ order'[s].late = order[s].late
         /\ order'[s].todo = order[s].todo /\ order'[s].entry = order[s].entry
  BY <1>2, <1>3 DEF Orders
<1>7. Onward BY <1>1 DEF Onward, Settled, marks, queue
<1>8. OneWay' /\ Loosely'
  BY <1>1, <1>7, OneWayRests, LooselyRests DEF OrderInv, OneWay, queue, chains, InBatch
<1>9. OrderTypes' BY <1>1, <1>4, <1>5 DEF OrderInv, OrderTypes, modstate, chains, walk
<1>10. \A y \in Services \ {s} : Still(y) /\ (InBatch' => InBatch)
  BY <1>1, <1>4, <1>5 DEF Still, modstate, walk, InBatch, queue
<1>11. Thread(s)'
  <2>1. Way' = Way BY <1>1, OrderFixed
  <2>2. /\ ~InBatch' /\ goal[s] = Way /\ candidate[s] \in Candidates(s)
        /\ head[s] \in Candidates(s) /\ {up[s], listed[s]} \subseteq {0} \cup Candidates(s)
    BY <1>1 DEF OrderInv, Thread, InBatch, queue, New, Walking
  <2>3. work'[s] # "wait" => order'[s].at = "done" /\ order'[s].late = order[s].late
    BY <1>2, <1>3, <1>5, <1>6, MovedTypes DEF NoOrder, Stages
  <2>4. work'[s] = "wait" => order'[s] = NoOrder BY <1>5
  <2> QED BY <1>1, <1>5, <2>1, <2>2, <2>3, <2>4
        DEF Thread, At, Busy, New, Walking, Ordered, modstate, walk, NoOrder
<1>12. Order(s)'
  <2>1. CASE order'[s] = NoOrder BY <2>1, OrderEmpty
  <2>2. CASE order'[s] # NoOrder
    <3>1. /\ order'[s].at = "done" /\ order'[s].late = order[s].late
          /\ order'[s].todo = order[s].todo /\ order'[s].entry = order[s].entry
      BY <1>6, <2>2
    <3>2. Open(s) = {} /\ Open(s)' = {} BY <1>1, <3>1 DEF Open, Over
    <3>3. /\ Behind(s, Way)' = Behind(s, Way) /\ Earlier(Way)' = Earlier(Way)
          /\ \A d \in Services : Circle(s, d, Way)' = Circle(s, d, Way)
      BY <1>1, OrderFixed
    <3>4. \A d \in Services : Seen(s, d) => Seen(s, d)'
      BY <1>1, <3>2, <3>3 DEF Seen, queue, marks, Settled
    <3> QED BY <1>1, <3>1, <3>2, <3>3, <3>4 DEF OrderInv, Order, Over, Busy
  <2> QED BY <2>1, <2>2
<1> QED BY <1>4, <1>7, <1>8, <1>9, <1>10, <1>11, <1>12, OneStep

-----------------------------------------------------------------------------
\* The other steps of a thread.
LEMMA RotatedCandidate ==
  ASSUME NEW s \in Services, head[s] \in Nat, Candidates(s) # {}
  PROVE  Rotated(s) \in Candidates(s) /\ Rotated(s) \in Nat
<1>1. Requires[s] \in Seq(SUBSET Services) BY WorkersAssumption
<1>2. Candidates(s) = 1..Len(Requires[s]) /\ Len(Requires[s]) \in Nat
  BY <1>1 DEF Candidates
<1>3. Len(Requires[s]) >= 1 BY <1>2
<1>4. head[s] % Len(Requires[s]) \in 0..(Len(Requires[s]) - 1) BY <1>2, <1>3
<1> QED BY <1>2, <1>3, <1>4 DEF Rotated

\* Where nothing is required nothing is in use.
LEMMA NothingNeeded ==
  ASSUME Undemanding, OrderInv, NEW s \in Services
  PROVE  /\ Users(s) = {}
         /\ work[s] \in Walking => Met(s)
BY DEF Undemanding, OrderInv, Thread, Users, Met, Provided

\* Nothing else than the stage of a thread changes, and what it starts.
LEMMA StageKeeps ==
  ASSUME OrderInv, NEW s \in Services, NEW stage \in Stages \ {"none", "defer"},
         Woken(Moved(work, s, stage)),
         UNCHANGED <<modstate, queue, target, walk, left, order>>,
         Settled \subseteq Settled',
         after' \in [Services -> SUBSET Services],
         \A y \in Services : after'[y] \subseteq after[y],
         InBatch => stage \in New \cup {"leave"},
         stage \in Walking => goal[s] = Way /\ candidate[s] \in Candidates(s),
         stage \in New => order[s].at # "done",
         stage # "apply", stage # "need",
         stage \in Ordered => order[s].at = "done" /\ ~order[s].late
  PROVE  OrderInv'
<1> DEFINE w == Moved(work, s, stage)
<1>1. w[s] = stage /\ \A y \in Services \ {s} : w[y] = work[y]
  BY MovedTypes DEF OrderInv, OrderTypes
<1>2. Woken(w) OBVIOUS
<1> HIDE DEF w
<1>3. Way' = Way BY OrderFixed
<1>4. work'[s] = w[s] => Thread(s)'
  BY <1>1, <1>3 DEF OrderInv, Thread, At, InBatch, New, Walking, Ordered, modstate, queue, walk
<1>5. OrderTypes BY DEF OrderInv
<1> QED
  BY <1>1, <1>2, <1>4, <1>5, OneThread DEF OrderTypes, modstate, queue, walk

\* A thread that starts nothing.
LEMMA Goes ==
  ASSUME NEW s \in Services, NEW stage \in Stages, OrderTypes, Goto(s, stage),
         before' = before
  PROVE  Woken(Moved(work, s, stage))
<1>1. work' = Moved(work, s, stage) /\ work \in [Services -> Stages]
  BY DEF Goto, OrderTypes
<1>2. Moved(work, s, stage) \in [Services -> Stages] BY <1>1, MovedTypes
<1> QED BY <1>1, <1>2 DEF Woken, OrderTypes

LEMMA Creates ==
  ASSUME NEW s \in Services, NEW stage \in Stages, OrderTypes, NEW X,
         NEW bf \in [Services -> SUBSET Services], Create(X, Moved(work, s, stage), bf)
  PROVE  Woken(Moved(work, s, stage))
<1>1. Moved(work, s, stage) \in [Services -> Stages] BY MovedTypes DEF OrderTypes
<1> HIDE DEF Moved
<1> QED BY <1>1, CreateWakes

LEMMA ExamineKeeps ==
  ASSUME OrderInv, NEW s \in Services, Examine(s), UNCHANGED <<left, order>>
  PROVE  OrderInv'
<1> DEFINE stage == IF Deferred(s) THEN "wait" ELSE "decide"
<1>1. /\ stage \in {"wait", "decide"} /\ work[s] \in New
      /\ UNCHANGED <<modstate, queue, target, after, walk, marks>>
      /\ Create(after[s], Moved(work, s, stage), before)
  BY DEF Examine, At, New
<1> HIDE DEF stage
<1>2. stage \in Stages \ {"none", "defer"} BY <1>1 DEF Stages
<1>3. Woken(Moved(work, s, stage)) BY <1>1, <1>2, Creates DEF OrderInv, OrderTypes
<1>4. after' \in [Services -> SUBSET Services] /\ order[s].at # "done"
  BY <1>1 DEF OrderInv, OrderTypes, Thread
<1> QED BY <1>1, <1>2, <1>3, <1>4, StageKeeps DEF New, Walking, Ordered, Settled, marks

LEMMA GiveUpKeeps ==
  ASSUME OrderInv, NEW s \in Services, GiveUp(s), UNCHANGED <<left, order>>
  PROVE  OrderInv'
<1>1. /\ UNCHANGED <<modstate, queue, target, marks, chains, walk>> /\ Goto(s, "leave")
  BY DEF GiveUp
<1>2. "leave" \in Stages \ {"none", "defer"} BY DEF Stages
<1>3. Woken(Moved(work, s, "leave")) BY <1>1, <1>2, Goes DEF OrderInv, chains
<1>4. after' = after /\ after \in [Services -> SUBSET Services]
  BY <1>1 DEF OrderInv, OrderTypes, chains
<1> QED BY <1>1, <1>2, <1>3, <1>4, StageKeeps DEF New, Walking, Ordered, Settled, marks

LEMMA DecideKeeps ==
  ASSUME Undemanding, OrderInv, NEW s \in Services, Decide(s), UNCHANGED <<left, order>>
  PROVE  OrderInv'
<1>1. /\ At(s, "decide") /\ Unlocked /\ Task(s) = Way /\ ~InBatch
      /\ UNCHANGED <<modstate, queue, target, changed, before>>
  BY TaskIsWay DEF Decide, OrderInv, Unlocked, InBatch, Undemanding
<1>2. CASE Goto(s, "post") /\ UNCHANGED <<broken, after, walk>>
  <2>1. "post" \in Stages \ {"none", "defer"} BY DEF Stages
  <2>2. Woken(Moved(work, s, "post")) BY <1>1, <1>2, <2>1, Goes DEF OrderInv
  <2>3. after' \in [Services -> SUBSET Services] BY <1>2 DEF OrderInv, OrderTypes
  <2> QED BY <1>1, <1>2, <2>1, <2>2, <2>3, StageKeeps DEF New, Walking, Ordered, Settled
<1>3. CASE /\ Goto(s, "apply")
           /\ goal' = [goal EXCEPT ![s] = Task(s)]
           /\ candidate' = [candidate EXCEPT ![s] = head[s]]
           /\ UNCHANGED <<broken, after>>
  <2> DEFINE w == Moved(work, s, "apply")
  <2>1. "apply" \in Stages BY DEF Stages
  <2>2. Woken(w) BY <1>1, <1>3, <2>1, Goes DEF OrderInv
  <2>3. w[s] = "apply" /\ \A y \in Services \ {s} : w[y] = work[y]
    BY <2>1, MovedTypes DEF OrderInv, OrderTypes
  <2> HIDE DEF w
  <2>4. OrderTypes BY DEF OrderInv
  <2>5. /\ goal' \in [Services -> {"none", "enable", "disable"}] /\ goal'[s] = Way
        /\ candidate' \in [Services -> Nat] /\ candidate'[s] = head[s]
        /\ \A y \in Services \ {s} : goal'[y] = goal[y] /\ candidate'[y] = candidate[y]
    BY <1>1, <1>3, <2>4 DEF OrderTypes, Way
  <2>6. Way' = Way BY <1>1, OrderFixed
  <2>7. order[s].at # "done" BY <1>1 DEF OrderInv, Thread, At, New
  <2>8. work'[s] = "apply" => Thread(s)'
    BY <1>1, <2>5, <2>6, <2>7
      DEF OrderInv, Thread, At, InBatch, New, Walking, Ordered, modstate, queue
  <2> QED
    BY <1>1, <1>3, <2>2, <2>3, <2>4, <2>5, <2>8, OneThread
      DEF OrderTypes, modstate, queue, Settled
<1>4. Candidates(s) # {} BY DEF Undemanding
<1> QED BY <1>1, <1>2, <1>3, <1>4 DEF Decide

\* A thread is called for nothing that its service is to wait for.
LEMMA ApplyKeeps ==
  ASSUME Undemanding, OrderInv, NEW s \in Services, Apply(s)
  PROVE  OrderInv'
<1>1. /\ order[s].at = "done" /\ UNCHANGED <<left, order>>
      /\ \/ ApplyEnable(s) \/ (ApplyDisable(s) /\ ~At(s, "call")')
         \/ EnableRequirements(s) \/ DisableUsers(s)
  BY DEF Apply, loosevars
<1>2. work[s] # "need" BY <1>1 DEF OrderInv, Thread, At, Busy
<1>3. ~EnableRequirements(s) /\ ~DisableUsers(s)
  BY <1>2 DEF EnableRequirements, DisableUsers, At
<1>4. /\ At(s, "apply") /\ ~order[s].late /\ ~InBatch
      /\ goal[s] = Way /\ candidate[s] \in Candidates(s)
  BY <1>1, <1>3 DEF ApplyEnable, ApplyDisable, At, OrderInv, Thread, New, Walking
<1>5. Met(s) /\ Users(s) = {} BY <1>4, NothingNeeded DEF At, Walking
<1>6. /\ UNCHANGED <<modstate, queue, target, marks, chains, walk>>
      /\ \E stage \in {"post", "call", "next"} : Goto(s, stage)
  <2>1. CASE ApplyEnable(s) BY <1>5, <2>1 DEF ApplyEnable
  <2>2. CASE ApplyDisable(s) BY <1>5, <2>2 DEF ApplyDisable
  <2> QED BY <1>1, <1>3, <2>1, <2>2
<1>7. PICK stage \in {"post", "call", "next"} : Goto(s, stage) BY <1>6
<1>8. stage \in Stages \ {"none", "defer"} BY DEF Stages
<1>9. Woken(Moved(work, s, stage)) BY <1>6, <1>7, <1>8, Goes DEF OrderInv, chains
<1>10. after' = after /\ after \in [Services -> SUBSET Services]
  BY <1>6 DEF OrderInv, OrderTypes, chains
<1> QED
  BY <1>1, <1>4, <1>6, <1>8, <1>9, <1>10, StageKeeps DEF New, Walking, Ordered, Settled, marks

LEMMA PreExamineKeeps ==
  ASSUME OrderInv, NEW s \in Services, PreExamine(s), UNCHANGED <<left, order>>
  PROVE  OrderInv'
<1>1. /\ UNCHANGED <<modstate, queue, target, walk, marks>>
      /\ after' = after \/ after' = [after EXCEPT ![s] = {}]
  BY DEF PreExamine
<1>2. "leave" \in Stages \ {"none", "defer"} BY DEF Stages
<1>3. PICK X, done : Create(X, Moved(work, s, "leave"),
                            [x \in Services |-> IF x \in done THEN {} ELSE before[x]])
  BY DEF PreExamine
<1>4. [x \in Services |-> IF x \in done THEN {} ELSE before[x]] \in [Services -> SUBSET Services]
  BY DEF OrderInv, OrderTypes
<1>5. Woken(Moved(work, s, "leave")) BY <1>2, <1>3, <1>4, Creates DEF OrderInv
<1>6. /\ after' \in [Services -> SUBSET Services]
      /\ \A y \in Services : after'[y] \subseteq after[y]
  BY <1>1 DEF OrderInv, OrderTypes
<1> QED BY <1>1, <1>2, <1>5, <1>6, StageKeeps DEF New, Walking, Ordered, Settled, marks

LEMMA CallKeeps ==
  ASSUME OrderInv, NEW s \in Services, Call(s), UNCHANGED <<left, order>>
  PROVE  OrderInv'
<1>1. /\ UNCHANGED <<modstate, queue, target, marks, chains, walk>> /\ At(s, "call")
      /\ \E stage \in {"run", "next"} : Goto(s, stage)
  BY DEF Call
<1>2. PICK stage \in {"run", "next"} : Goto(s, stage) BY <1>1
<1>3. stage \in Stages \ {"none", "defer"} BY DEF Stages
<1>4. Woken(Moved(work, s, stage)) BY <1>1, <1>2, <1>3, Goes DEF OrderInv, chains
<1>5. after' = after /\ after \in [Services -> SUBSET Services]
  BY <1>1 DEF OrderInv, OrderTypes, chains
<1>6. /\ ~InBatch /\ goal[s] = Way /\ candidate[s] \in Candidates(s)
      /\ order[s].at = "done" /\ ~order[s].late
  BY <1>1 DEF OrderInv, Thread, At, New, Walking, Ordered
<1> QED BY <1>1, <1>3, <1>4, <1>5, <1>6, StageKeeps DEF New, Settled, marks

LEMMA RunKeeps ==
  ASSUME Undemanding, OrderInv, NEW s \in Services, Run(s), UNCHANGED <<left, order>>
  PROVE  OrderInv'
<1>1. /\ At(s, "run") /\ ~InBatch
      /\ UNCHANGED <<listed, head, tbmutex, target, after, walk>>
      /\ enable' \subseteq enable /\ disable' \subseteq disable
      /\ Settled \subseteq Settled'
      /\ up' = [up EXCEPT ![s] = candidate[s]] \/ up' = [up EXCEPT ![s] = 0]
  BY DEF Run, Settled, Unlocked, InBatch, Undemanding
<1>2. OrderTypes /\ Thread(s) BY DEF OrderInv
<1> DEFINE w == Moved(work, s, "update")
<1>3. "update" \in Stages BY DEF Stages
<1>4. Woken(w)
  <2>1. Create(before[s], w, [before EXCEPT ![s] = {}]) BY DEF Run, PostExamine
  <2>2. [before EXCEPT ![s] = {}] \in [Services -> SUBSET Services] BY <1>2 DEF OrderTypes
  <2> QED BY <1>2, <1>3, <2>1, <2>2, Creates
<1>5. w[s] = "update" /\ \A y \in Services \ {s} : w[y] = work[y]
  BY <1>2, <1>3, MovedTypes DEF OrderTypes
<1> HIDE DEF w
<1>6. /\ up' \in [Services -> Nat] /\ up'[s] \in {0} \cup Candidates(s)
      /\ \A y \in Services \ {s} : up'[y] = up[y]
  BY <1>1, <1>2 DEF OrderTypes, Thread, At, Walking
<1>7. Way' = Way BY <1>1, OrderFixed
<1>8. work'[s] = w[s] => Thread(s)'
  BY <1>1, <1>2, <1>5, <1>6, <1>7 DEF Thread, At, InBatch, New, Walking, Ordered, walk
<1> QED BY <1>1, <1>2, <1>4, <1>5, <1>6, <1>8, OneThread DEF OrderTypes, walk

LEMMA UpdateKeeps ==
  ASSUME OrderInv, NEW s \in Services, Update(s), UNCHANGED <<left, order>>
  PROVE  OrderInv'
<1>1. /\ At(s, "update") /\ listed' = [listed EXCEPT ![s] = up[s]]
      /\ UNCHANGED <<up, head, queue, target, marks, chains, walk>>
      /\ \E stage \in {"post", "next"} : Goto(s, stage)
  BY DEF Update
<1>2. OrderTypes /\ Thread(s) BY DEF OrderInv
<1>3. PICK stage \in {"post", "next"} : Goto(s, stage) BY <1>1
<1> DEFINE w == Moved(work, s, stage)
<1>4. stage \in Stages BY DEF Stages
<1>5. Woken(w) BY <1>1, <1>2, <1>3, <1>4, Goes DEF chains
<1>6. w[s] = stage /\ \A y \in Services \ {s} : w[y] = work[y]
  BY <1>2, <1>4, MovedTypes DEF OrderTypes
<1> HIDE DEF w
<1>7. /\ listed' \in [Services -> Nat] /\ listed'[s] \in {0} \cup Candidates(s)
      /\ \A y \in Services \ {s} : listed'[y] = listed[y]
  BY <1>1, <1>2 DEF OrderTypes, Thread
<1>8. Way' = Way BY <1>1, OrderFixed
<1>9. work'[s] = w[s] => Thread(s)'
  BY <1>1, <1>2, <1>6, <1>7, <1>8 DEF Thread, At, InBatch, New, Walking, Ordered, walk, queue
<1>10. Settled' = Settled BY <1>1 DEF Settled, marks
<1> QED
  BY <1>1, <1>2, <1>5, <1>6, <1>7, <1>9, <1>10, OneThread DEF OrderTypes, walk, chains, queue

LEMMA NextCandidateKeeps ==
  ASSUME Undemanding, OrderInv, NEW s \in Services, NextCandidate(s), UNCHANGED <<left, order>>
  PROVE  OrderInv'
<1> DEFINE lm == IF head[s] = candidate[s] THEN Rotated(s) ELSE head[s]
<1>1. OrderTypes /\ Thread(s) BY DEF OrderInv
<1>2. lm \in Candidates(s) /\ lm \in Nat
  <2>1. Candidates(s) # {} /\ head[s] \in Nat BY <1>1 DEF Undemanding, OrderTypes
  <2>2. Rotated(s) \in Candidates(s) /\ Rotated(s) \in Nat BY <2>1, RotatedCandidate
  <2> QED BY <1>1, <2>1, <2>2 DEF Thread
<1>3. /\ At(s, "next") /\ ~InBatch
      /\ UNCHANGED <<tbmutex, target, broken, chains, goal, first>>
      /\ head' = [head EXCEPT ![s] = lm] /\ candidate' = [candidate EXCEPT ![s] = lm]
      /\ up' = up \/ up' = [up EXCEPT ![s] = 0]
      /\ listed' = listed \/ listed' = [listed EXCEPT ![s] = 0]
      /\ changed \subseteq changed'
      /\ enable' \subseteq enable /\ disable' \subseteq disable
      /\ \E stage \in {"apply", "post", "mark"} : Goto(s, stage)
  BY DEF NextCandidate, Unlocked, InBatch, Undemanding
<1> HIDE DEF lm
<1>4. PICK stage \in {"apply", "post", "mark"} : Goto(s, stage) BY <1>3
<1> DEFINE w == Moved(work, s, stage)
<1>5. stage \in Stages BY DEF Stages
<1>6. Woken(w) BY <1>1, <1>3, <1>4, <1>5, Goes DEF chains
<1>7. w[s] = stage /\ \A y \in Services \ {s} : w[y] = work[y]
  BY <1>1, <1>5, MovedTypes DEF OrderTypes
<1> HIDE DEF w
<1>8. /\ head' \in [Services -> Nat] /\ candidate' \in [Services -> Nat]
      /\ head'[s] = lm /\ candidate'[s] = lm
      /\ up' \in [Services -> Nat] /\ listed' \in [Services -> Nat]
      /\ {up'[s], listed'[s]} \subseteq {0} \cup Candidates(s)
      /\ \A y \in Services \ {s} :
           /\ head'[y] = head[y] /\ candidate'[y] = candidate[y]
           /\ up'[y] = up[y] /\ listed'[y] = listed[y]
  BY <1>1, <1>2, <1>3 DEF OrderTypes, Thread
<1>9. Way' = Way BY <1>3, OrderFixed
<1>10. work'[s] = w[s] => Thread(s)'
  BY <1>1, <1>2, <1>3, <1>7, <1>8, <1>9 DEF Thread, At, InBatch, New, Walking, Ordered
<1>11. Settled \subseteq Settled' BY <1>3 DEF Settled
<1> QED
  BY <1>1, <1>3, <1>6, <1>7, <1>8, <1>10, <1>11, OneThread DEF OrderTypes, chains

LEMMA MarkBrokenKeeps ==
  ASSUME OrderInv, NEW s \in Services, MarkBroken(s), UNCHANGED <<left, order>>
  PROVE  OrderInv'
<1>1. /\ UNCHANGED <<modstate, queue, target, changed, before, walk>>
      /\ Goto(s, "quit") /\ At(s, "mark")
      /\ after' = [after EXCEPT ![s] = {}] /\ broken \subseteq broken'
  BY DEF MarkBroken
<1>2. "quit" \in Stages \ {"none", "defer"} BY DEF Stages
<1>3. Woken(Moved(work, s, "quit")) BY <1>1, <1>2, Goes DEF OrderInv
<1>4. /\ after' \in [Services -> SUBSET Services]
      /\ \A y \in Services : after'[y] \subseteq after[y]
  BY <1>1 DEF OrderInv, OrderTypes
<1>5. ~InBatch BY <1>1 DEF OrderInv, Thread, At, New
<1> QED BY <1>1, <1>2, <1>3, <1>4, <1>5, StageKeeps DEF New, Walking, Ordered, Settled

LEMMA FinishKeeps ==
  ASSUME OrderInv, NEW s \in Services, Finish(s), UNCHANGED <<left, order>>
  PROVE  OrderInv'
<1> DEFINE stage == IF work[s] = "post" THEN "settle" ELSE "leave"
<1>1. /\ work[s] \in {"post", "quit"} /\ stage \in {"settle", "leave"}
      /\ UNCHANGED <<modstate, queue, target, after, walk, marks>>
      /\ Create(before[s], Moved(work, s, stage), [before EXCEPT ![s] = {}])
  BY DEF Finish, PostExamine
<1> HIDE DEF stage
<1>2. stage \in Stages \ {"none", "defer"} BY <1>1 DEF Stages
<1>3. /\ [before EXCEPT ![s] = {}] \in [Services -> SUBSET Services]
      /\ after' \in [Services -> SUBSET Services]
  BY <1>1 DEF OrderInv, OrderTypes
<1>4. Woken(Moved(work, s, stage)) BY <1>1, <1>2, <1>3, Creates DEF OrderInv
<1>5. ~InBatch BY <1>1 DEF OrderInv, Thread, New
<1> QED BY <1>1, <1>2, <1>3, <1>4, <1>5, StageKeeps DEF New, Walking, Ordered, Settled, marks

\* The last thread to end has everything looked at again.
LEMMA EndKeeps ==
  ASSUME OrderInv, NEW s \in Services, EndLoosely(s)
  PROVE  OrderInv'
<1>1. OrderTypes BY DEF OrderInv
<1>2. /\ work' = Moved(work, s, "none")
      /\ UNCHANGED <<modstate, target, broken, enable, disable>>
      /\ changed \subseteq changed'
      /\ goal' = [goal EXCEPT ![s] = "none"] /\ candidate' = [candidate EXCEPT ![s] = 0]
      /\ order' = [order EXCEPT ![s] = NoOrder]
  BY DEF EndLoosely, LeaveLoosely
<1>3. \/ UNCHANGED <<chains, left, tbmutex>>
      \/ /\ Working = {s} /\ left' = enable \cup disable
         /\ after' = [x \in Services |-> {}] /\ before' = after'
  BY DEF EndLoosely, LeaveLoosely
<1>4. /\ work' \in [Services -> Stages] /\ work'[s] = "none"
      /\ \A y \in Services \ {s} : work'[y] = work[y]
  BY <1>1, <1>2, MovedTypes DEF OrderTypes, Stages
<1>5. NoOrder \in Orders BY DEF NoOrder, Orders
<1>6. /\ order' \in [Services -> Orders] /\ order'[s] = NoOrder
      /\ \A y \in Services \ {s} : order'[y] = order[y]
  BY <1>1, <1>2, <1>5 DEF OrderTypes
<1>7. /\ after' \in [Services -> SUBSET Services] /\ before' \in [Services -> SUBSET Services]
      /\ \A y \in Services : after'[y] \subseteq after[y]
  BY <1>1, <1>3 DEF OrderTypes, chains
<1>8. OrderTypes' BY <1>1, <1>2, <1>4, <1>6, <1>7 DEF OrderTypes, modstate
<1>9. Onward BY <1>2 DEF Onward, Settled
<1>10. Loosely' BY <1>7, <1>9, LooselyRests DEF OrderInv
<1>11. OneWay' BY <1>2, <1>3, <1>9, OneWayRests DEF OrderInv, OneWay, InBatch
<1>12. ASSUME NEW y \in Services \ {s}
       PROVE  Still(y) /\ (InBatch' => InBatch \/ work'[y] = "none")
  <2>1. Still(y) BY <1>1, <1>2, <1>4, <1>6 DEF Still, OrderTypes, modstate
  <2>2. InBatch' => InBatch \/ work'[y] = "none"
    BY <1>3, <1>4 DEF InBatch, Working
  <2> QED BY <2>1, <2>2
<1>13. Thread(s)'
  BY <1>2, <1>4, <1>6 DEF OrderInv, Thread, At, New, Walking, Ordered, NoOrder, modstate
<1>14. Order(s)' BY <1>6, OrderEmpty
<1> QED BY <1>8, <1>9, <1>10, <1>11, <1>12, <1>13, <1>14, OneStep

-----------------------------------------------------------------------------
LEMMA ToilKeeps ==
  ASSUME Undemanding, OrderInv, NEW s \in Services, Toil(s)
  PROVE  OrderInv'
<1>1. UNCHANGED <<left, order>> BY DEF Toil, loosevars
<1>2. ~DeferAfterRequirements(s) BY DEF DeferAfterRequirements, At, OrderInv, Thread
<1> QED
  BY <1>1, <1>2, ExamineKeeps, GiveUpKeeps, DecideKeeps, PreExamineKeeps, CallKeeps, RunKeeps,
     UpdateKeeps, NextCandidateKeeps, MarkBrokenKeeps, FinishKeeps
  DEF Toil

LEMMA StutterKeeps ==
  ASSUME OrderInv, UNCHANGED vars
  PROVE  OrderInv'
<1>1. Onward
  BY DEF vars, workervars, queue, marks, Onward, Settled
<1>2. /\ UNCHANGED <<modstate, target, chains, walk, work, tbmutex, left, order>>
      /\ UNCHANGED <<enable, disable>>
  BY DEF vars, workervars, loosevars, threads, queue
<1>3. OrderTypes' BY <1>2 DEF OrderInv, OrderTypes, modstate, chains, walk
<1>4. OneWay' /\ Loosely'
  BY <1>1, <1>2, OneWayRests, LooselyRests DEF OrderInv, OneWay, chains, InBatch
<1>5. \A y \in Services : Still(y) /\ (InBatch' => InBatch)
  BY <1>2 DEF Still, modstate, walk, InBatch
<1> QED BY <1>1, <1>3, <1>4, <1>5, OneStep

LEMMA OrderStep ==
  ASSUME Undemanding, OrderInv, [Next]_vars
  PROVE  OrderInv'
<1>1. CASE UNCHANGED vars BY <1>1, StutterKeeps
<1>2. CASE Spawned BY <1>2, SpawnedKeeps
<1>3. ASSUME NEW s \in Services, Step(s) PROVE OrderInv'
  <2>1. CASE ThreadStep(s)
    BY <2>1, EndKeeps, ReorderKeeps, ReorderedKeeps, ApplyKeeps, ToilKeeps DEF ThreadStep
  <2> QED BY <1>3, <2>1, LookKeeps, LookedKeeps, CheckKeeps, EnterKeeps DEF Step
<1> QED BY <1>1, <1>2, <1>3 DEF Next

\* Where no module requires another, no module is enabled or disabled while one that its own
\* goes after is still queued, unless the two are in a circle: mod_reorder defers a service
\* after all of them before its module is called, and a thread that has deferred its service
\* does not go on.
THEOREM LooseOrderKept == Undemanding => (Spec => []AfterKept)
<1> SUFFICES ASSUME Undemanding PROVE Spec => []AfterKept
  OBVIOUS
<1>1. Init => OrderInv BY InitOrder
<1>2. OrderInv /\ [Next]_vars => OrderInv' BY OrderStep
<1>3. OrderInv => AfterKept
  <2> SUFFICES ASSUME OrderInv, NEW s \in Services, At(s, "run"),
                      NEW d \in Pending(s, Behind(s, goal[s]))
               PROVE  FALSE
    BY DEF AfterKept
  <2>1. goal[s] = Way /\ order[s].at = "done" /\ ~order[s].late /\ ~Busy(s)
    BY DEF OrderInv, Thread, At, Walking, Ordered, Busy
  <2>2. /\ d \in Behind(s, Way) /\ d \in enable \cup disable /\ d \in Services
        /\ d \notin Settled /\ ~Circle(s, d, Way)
    BY <2>1 DEF Pending, OrderInv, OneWay
  <2>3. Seen(s, d) /\ Open(s) = {} BY <2>1, <2>2 DEF OrderInv, Order
  <2> QED BY <2>2, <2>3 DEF Seen
<1> QED BY <1>1, <1>2, <1>3, PTL DEF Spec
=============================================================================
