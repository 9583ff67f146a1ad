---------------------------- MODULE PollerProofs ----------------------------
(***************************************************************************)
(* Proofs about Poller, for any items, repositories, labels, page sizes    *)
(* and budgets, and any number of changes.                                 *)
(***************************************************************************)
EXTENDS Poller, FiniteSetTheorems, TLAPS

-----------------------------------------------------------------------------
(***************************************************************************)
(* Type correctness, and with it that no tick exceeds its budget: a page   *)
(* holds no more items than were asked for, because the items of a listing *)
(* have different ranks.                                                   *)
(***************************************************************************)

\* No two items changed at the same time.
Distinct == \A i, j \in Items : updated[i] = updated[j] /\ updated[i] # 0 => i = j

TypeInv == PollerTypeOK /\ Distinct

\* Items are listed in the order of numbers ...
LEMMA OrderType ==
  ASSUME PollerTypeOK, NEW i \in Items
  PROVE  Order(i) \in Int
<1>1. updated[i] \in Nat
  BY DEF PollerTypeOK
<1> QED
  BY <1>1 DEF Order

\* ... that differ.
LEMMA OrderDistinct ==
  ASSUME TypeInv, NEW i \in Items, NEW j \in Items, i # j, updated[i] # 0, updated[j] # 0
  PROVE  Order(i) < Order(j) \/ Order(j) < Order(i)
<1>1. updated[i] \in Nat /\ updated[j] \in Nat /\ updated[i] # updated[j]
  BY DEF TypeInv, PollerTypeOK, Distinct
<1> QED
  BY <1>1 DEF Order

\* An item that comes earlier has fewer ones before it.
LEMMA RankOrder ==
  ASSUME PollerTypeOK, NEW listing \in SUBSET Items, NEW i \in listing, NEW j \in listing,
         Order(i) < Order(j)
  PROVE  Cardinality(Before(listing, j)) # Cardinality(Before(listing, i))
<1>1. \A k \in Items : Order(k) \in Int
  BY OrderType
<1>2. /\ Before(listing, j) \in SUBSET Before(listing, i)
      /\ j \in Before(listing, i) /\ j \notin Before(listing, j)
  <2> HIDE DEF Order
  <2> QED
    BY <1>1 DEF Before
<1>3. IsFiniteSet(Before(listing, i))
  BY ItemsAssumption, FS_Subset DEF Before
<1> QED
  BY <1>2, <1>3, FS_Subset

\* A page has a size.
LEMMA Slots ==
  ASSUME NEW p \in Nat \ {0}, NEW s \in Nat
  PROVE  /\ IsFiniteSet((p - 1) * s .. p * s - 1)
         /\ Cardinality((p - 1) * s .. p * s - 1) = s
<1> DEFINE a == (p - 1) * s
<1>1. a \in Int /\ p * s = a + s
  OBVIOUS
<1> HIDE DEF a
<1>2. IsFiniteSet(a .. a + s - 1) /\ Cardinality(a .. a + s - 1) = s
  BY <1>1, FS_Interval
<1> QED
  BY <1>1, <1>2 DEF a

\* A page of a listing is finite and has no more entries than it may have.
LEMMA PageSize ==
  ASSUME TypeInv, NEW listing \in SUBSET Items, \A i \in listing : updated[i] # 0,
         NEW p \in Nat \ {0}, NEW s \in Nat
  PROVE  /\ IsFiniteSet(Page(listing, p, s))
         /\ Cardinality(Page(listing, p, s)) \in Nat
         /\ Cardinality(Page(listing, p, s)) <= s
<1> DEFINE page == Page(listing, p, s)
           slots == (p - 1) * s .. p * s - 1
           rank == [i \in page |-> Cardinality(Before(listing, i))]
<1>1. page \in SUBSET listing /\ IsFiniteSet(page) /\ Cardinality(page) \in Nat
  BY ItemsAssumption, FS_Subset, FS_CardinalityType DEF Page
<1>2. rank \in [page -> slots]
  BY DEF Page
<1>3. ASSUME NEW x \in page, NEW y \in page, x # y PROVE rank[x] # rank[y]
  <2>1. x \in listing /\ y \in listing
    BY <1>1
  <2>2. Order(x) < Order(y) \/ Order(y) < Order(x)
    BY <1>3, <2>1, OrderDistinct
  <2> QED
    BY <2>1, <2>2, RankOrder DEF TypeInv
<1>4. IsFiniteSet(slots) /\ Cardinality(slots) = s
  BY Slots
<1> HIDE DEF page, slots, rank
<1>5. ~(Cardinality(slots) < Cardinality(page))
  BY <1>1, <1>2, <1>3, <1>4, FS_PigeonHole
<1> QED
  BY <1>1, <1>4, <1>5 DEF page

\* What is asked for fits into the budget.
LEMMA PerPageFits ==
  ASSUME PollerTypeOK, Polling
  PROVE  PerPage \in Nat \ {0} /\ PerPage <= budget
BY BoundsAssumption, ConfigsAssumption DEF PollerTypeOK, Polling, PerPage

\* Every request is for one page of one listing of the cursor's repository.
LEMMA FetchIsPage ==
  ASSUME Fetch
  PROVE  /\ Polling
         /\ \E listing \in SUBSET Here : \E keep, end : FetchPage(listing, keep, end)
         /\ seen' \in {seen, seen \cup (emitted' \ emitted)}
<1>1. \A listing \in SUBSET Here : \A keep, end :
        FetchPage(listing, keep, end) =>
          \E l \in SUBSET Here : \E k, e : FetchPage(l, k, e)
  OBVIOUS
<1>2. \A S : OfKind(S) \subseteq Here
  BY DEF OfKind
<1>3. CASE FetchIssues
  BY <1>1, <1>2, <1>3 DEF FetchIssues
<1>4. CASE FetchPRs
  BY <1>1, <1>2, <1>4 DEF FetchPRs
<1>5. CASE FetchComments
  BY <1>1, <1>2, <1>5 DEF FetchComments
<1>6. CASE FetchIssuesByLabel
  BY <1>1, <1>2, <1>6 DEF FetchIssuesByLabel
<1>7. CASE FetchPRsByState
  BY <1>1, <1>2, <1>7 DEF FetchPRsByState
<1> QED
  BY <1>3, <1>4, <1>5, <1>6, <1>7 DEF Fetch

\* The cursor goes on to a position of its type.
LEMMA AdvancedType ==
  ASSUME PollerTypeOK, NEW next \in Nat
  PROVE  Advanced(next) \in [repo : Nat, label : Nat, phase : 0..2, page : Nat \ {0}]
<1> DEFINE Cursors == [repo : Nat, label : Nat, phase : 0..2, page : Nat \ {0}]
<1>1. cursor \in Cursors
  BY DEF PollerTypeOK
<1>2. [FirstCursor EXCEPT !.repo = cursor.repo + 1] \in Cursors
  BY <1>1 DEF FirstCursor
<1>3. next > 0 => [cursor EXCEPT !.page = next] \in Cursors
  BY <1>1
<1>4. [cursor EXCEPT !.label = @ + 1, !.page = 1] \in Cursors
  <2>1. [cursor EXCEPT !.label = @ + 1] \in Cursors
    BY <1>1
  <2>2. \A c \in Cursors : [c EXCEPT !.page = 1] \in Cursors
    OBVIOUS
  <2>3. [cursor EXCEPT !.label = @ + 1, !.page = 1]
          = [[cursor EXCEPT !.label = @ + 1] EXCEPT !.page = 1]
    BY <1>1
  <2> HIDE DEF Cursors
  <2> QED
    BY <2>1, <2>2, <2>3
<1>5. cursor.phase < 2 => [cursor EXCEPT !.phase = @ + 1, !.page = 1] \in Cursors
  <2>1. cursor.phase < 2 => [cursor EXCEPT !.phase = @ + 1] \in Cursors
    BY <1>1
  <2>2. \A c \in Cursors : [c EXCEPT !.page = 1] \in Cursors
    OBVIOUS
  <2>3. [cursor EXCEPT !.phase = @ + 1, !.page = 1]
          = [[cursor EXCEPT !.phase = @ + 1] EXCEPT !.page = 1]
    BY <1>1
  <2> HIDE DEF Cursors
  <2> QED
    BY <2>1, <2>2, <2>3
<1> HIDE DEF Cursors
<1>6. Advanced(next) \in Cursors
  BY <1>1, <1>2, <1>3, <1>4, <1>5 DEF Advanced
<1> QED
  BY <1>6 DEF Cursors

\* The answer to a request keeps the types.
LEMMA FetchType ==
  ASSUME TypeInv, Fetch
  PROVE  TypeInv'
<1>1. Polling /\ seen' \in {seen, seen \cup (emitted' \ emitted)}
  BY FetchIsPage
<1>2. PICK listing \in SUBSET Here : \E keep, end : FetchPage(listing, keep, end)
  BY FetchIsPage
<1>3. PICK keep, end : FetchPage(listing, keep, end)
  BY <1>2
<1> DEFINE page == Page(listing, cursor.page, PerPage)
           out == page \cap keep
<1>4. PerPage \in Nat \ {0} /\ PerPage <= budget /\ cursor.page \in Nat \ {0}
  BY <1>1, PerPageFits DEF TypeInv, PollerTypeOK
<1>5. listing \in SUBSET Items /\ \A i \in listing : updated[i] # 0
  BY DEF Here
<1>6. IsFiniteSet(page) /\ Cardinality(page) \in Nat /\ Cardinality(page) <= PerPage
  BY <1>4, <1>5, PageSize
<1>7. Cardinality(out) \in Nat /\ Cardinality(out) <= PerPage
  <2> HIDE DEF page
  <2>1. IsFiniteSet(out) /\ Cardinality(out) <= Cardinality(page)
    BY <1>6, FS_Subset
  <2>2. Cardinality(out) \in Nat
    BY <2>1, FS_CardinalityType
  <2> QED
    BY <1>4, <1>6, <2>1, <2>2
<1>8. page \subseteq Items
  BY <1>5 DEF Page
<1>9. NextPage(listing, cursor.page, PerPage) \in Nat
  BY <1>4 DEF NextPage
<1>10. /\ told' = [i \in Items |-> IF i \in out THEN updated[i] ELSE told[i]]
       /\ emitted' = emitted \cup out
       /\ again' = again \cup (emitted \cap out)
       /\ budget' = budget - Cardinality(out)
       /\ cursor' = Advanced(IF page \cap end # {} THEN 0
                             ELSE NextPage(listing, cursor.page, PerPage))
       /\ UNCHANGED <<github, config, cycle, ticking, due, begun, still>>
  BY <1>3 DEF FetchPage
<1> HIDE DEF page
<1>11. cursor' \in [repo : Nat, label : Nat, phase : 0..2, page : Nat \ {0}]
  BY <1>9, <1>10, AdvancedType DEF TypeInv
<1>12. budget' \in 0..config.perTick
  BY <1>4, <1>7, <1>10, ConfigsAssumption DEF TypeInv, PollerTypeOK
<1>13. told' \in [Items -> 0..clock] /\ emitted' \subseteq Items /\ again' \subseteq Items
  BY <1>8, <1>10 DEF TypeInv, PollerTypeOK
<1> QED
  BY <1>1, <1>10, <1>11, <1>12, <1>13 DEF TypeInv, PollerTypeOK, Distinct, github, cycle

\* A change on GitHub gets a time of its own.
LEMMA ChangeType ==
  ASSUME TypeInv, NEW i \in Items, NEW time \in {0, clock + 1}, Change(i, time)
  PROVE  TypeInv'
<1>1. clock' = clock + 1 /\ clock \in Nat /\ updated' = [updated EXCEPT ![i] = time]
  BY DEF Change, TypeInv, PollerTypeOK
<1>2. Distinct'
  BY <1>1 DEF TypeInv, PollerTypeOK, Distinct
<1>3. updated' \in [Items -> 0..clock'] /\ told' \in [Items -> 0..clock']
  BY <1>1 DEF Change, TypeInv, PollerTypeOK
<1>4. UNCHANGED <<config, cycle, cursor, seen, ticking, budget, emitted, again, begun>>
      /\ due' = due \ {i} /\ still' = FALSE
  BY DEF Change
<1>5. lastSync' \in 0..clock' /\ cycleSince' \in 0..clock' /\ inCycle' \in BOOLEAN
  BY <1>1, <1>4 DEF cycle, TypeInv, PollerTypeOK
<1>6. config' \in Configs /\ budget' \in 0..config'.perTick
  BY <1>4 DEF TypeInv, PollerTypeOK
<1>7. /\ cursor' \in [repo : Nat, label : Nat, phase : 0..2, page : Nat \ {0}]
      /\ seen' \subseteq Items /\ ticking' \in BOOLEAN /\ still' \in BOOLEAN
      /\ due' \subseteq Items /\ emitted' \subseteq Items /\ again' \subseteq Items
  BY <1>4 DEF TypeInv, PollerTypeOK
<1>8. clock' \in Nat
  BY <1>1
<1>9. begun' \subseteq 0..clock'
  <2>1. begun' = begun /\ begun \subseteq 0..clock
    BY <1>4 DEF TypeInv, PollerTypeOK
  <2>2. \A n \in 0..clock : n \in 0..clock'
    BY <1>1
  <2> QED
    BY <2>1, <2>2
<1> QED
  BY <1>2, <1>3, <1>5, <1>6, <1>7, <1>8, <1>9 DEF TypeInv, PollerTypeOK

\* Nor does the passing of time change a type.
LEMMA WaitType ==
  ASSUME TypeInv, Wait
  PROVE  TypeInv'
<1>1. /\ clock \in Nat /\ clock' = clock + 1 /\ clock' \in Nat
      /\ \A n \in 0..clock : n \in 0..clock'
  BY DEF Wait, TypeInv, PollerTypeOK
<1>2. UNCHANGED <<updated, config, cycle, cursor, seen, ticking, budget, history>>
  BY DEF Wait
<1>3. updated' \in [Items -> 0..clock'] /\ told' \in [Items -> 0..clock']
  BY <1>1, <1>2 DEF history, TypeInv, PollerTypeOK
<1>4. lastSync' \in 0..clock' /\ cycleSince' \in 0..clock' /\ begun' \subseteq 0..clock'
  BY <1>1, <1>2 DEF history, cycle, TypeInv, PollerTypeOK
<1> QED
  BY <1>1, <1>2, <1>3, <1>4 DEF history, cycle, TypeInv, PollerTypeOK, Distinct

\* The inductive form of type correctness.
THEOREM TypeCorrect == PollerSpec => []TypeInv
<1>1. PollerInit => TypeInv
  <2> SUFFICES ASSUME PollerInit PROVE TypeInv
    OBVIOUS
  <2>1. updated \in [Items -> 0..clock] /\ clock \in Nat /\ Distinct
    BY HistoriesAssumption DEF PollerInit, Distinct
  <2>2. told \in [Items -> 0..clock]
    BY <2>1 DEF PollerInit
  <2>3. config \in Configs /\ budget \in 0..config.perTick
    BY ConfigsAssumption DEF PollerInit
  <2>4. FirstCursor \in [repo : Nat, label : Nat, phase : 0..2, page : Nat \ {0}]
    BY DEF FirstCursor
  <2>5. lastSync \in 0..clock /\ cycleSince \in 0..clock /\ begun \subseteq 0..clock
    BY <2>1 DEF PollerInit
  <2> QED
    BY <2>1, <2>2, <2>3, <2>4, <2>5 DEF PollerInit, TypeInv, PollerTypeOK
<1>2. TypeInv /\ [PollerNext]_pollerVars => TypeInv'
  <2> SUFFICES ASSUME TypeInv, [PollerNext]_pollerVars PROVE TypeInv'
    OBVIOUS
  <2>1. ASSUME NEW i \in Items, Touch(i) \/ Vanish(i) PROVE TypeInv'
    BY <2>1, ChangeType DEF Touch, Vanish
  <2>7. CASE Wait
    BY <2>7, WaitType
  <2>2. CASE BeginTick
    <3>1. config.perTick \in Nat
      BY ConfigsAssumption DEF TypeInv, PollerTypeOK
    <3>2. Due \subseteq Items
      BY DEF Due
    <3>3. FirstCursor \in [repo : Nat, label : Nat, phase : 0..2, page : Nat \ {0}]
      BY DEF FirstCursor
    <3>6. clock' = clock /\ clock \in 0..clock
      BY <2>2 DEF BeginTick, TypeInv, PollerTypeOK, github
    <3>7. begun' \subseteq 0..clock'
      <4>1. begun' \subseteq begun \cup {clock}
        BY <2>2 DEF BeginTick
      <4> QED
        BY <3>6, <4>1 DEF TypeInv, PollerTypeOK
    <3>4. CASE inCycle
      BY <2>2, <3>1, <3>4, <3>7 DEF BeginTick, TypeInv, PollerTypeOK, Distinct, github
    <3>5. CASE ~inCycle
      BY <2>2, <3>1, <3>2, <3>3, <3>5, <3>6, <3>7 DEF BeginTick, TypeInv, PollerTypeOK, Distinct, github
    <3> QED
      BY <3>4, <3>5
  <2>3. CASE Fetch
    BY <2>3, FetchType
  <2>4. CASE Fail
    BY <2>4 DEF Fail, TypeInv, PollerTypeOK, Distinct, github, cycle, history
  <2>5. CASE EndTick
    BY <2>5 DEF EndTick, TypeInv, PollerTypeOK, Distinct, github, history
  <2>6. CASE UNCHANGED pollerVars
    BY <2>6 DEF pollerVars, TypeInv, PollerTypeOK, Distinct
  <2> QED
    BY <2>1, <2>2, <2>3, <2>4, <2>5, <2>6, <2>7 DEF PollerNext
<1> QED
  BY <1>1, <1>2, PTL DEF PollerSpec

\* The variables keep their types: in particular the budget of a tick never
\* becomes negative, so a tick emits at most perTick items.
THEOREM PollerTypeOKHolds == PollerSpec => []PollerTypeOK
<1>1. TypeInv => PollerTypeOK
  BY DEF TypeInv
<1> QED
  BY <1>1, TypeCorrect, PTL

-----------------------------------------------------------------------------
(***************************************************************************)
(* Polling with room for everything: each listing is one page, so the      *)
(* cursor only has to be compared with the place of an item.               *)
(***************************************************************************)

\* The phase in which time-based polling lists an item.
Phase(i) == IF Kind[i] = "issue" THEN 0 ELSE IF Kind[i] = "pr" THEN 1 ELSE 2

\* The next request asks for the listing of item i ...
At(i) ==
  /\ cursor.repo = RepoOf[i]
  /\ Mode = "time" => cursor.phase = Phase(i)
  /\ Mode = "label" => cursor.label \in LabelsOf[i]

\* ... or it, or a later one of the cycle, does.
Ahead(i) ==
  \/ cursor.repo < RepoOf[i]
  \/ /\ cursor.repo = RepoOf[i]
     /\ Mode = "time" => cursor.phase <= Phase(i)
     /\ Mode = "label" => \E l \in LabelsOf[i] \cap 1..config.labels : cursor.label <= l

\* The cycle wants item i: its listings show it, and keep it.
Sought(i) ==
  /\ updated[i] # 0 /\ RepoOf[i] \in 1..config.repos
  /\ Mode = "time" => Cut(updated[i]) >= IF Kind[i] = "pr" THEN lastSync ELSE Cut(lastSync)
  /\ Mode = "label" => Kind[i] = "issue" /\ LabelsOf[i] \cap 1..config.labels # {}
  /\ Mode = "pr" => Kind[i] = "pr" /\ 1..config.labels \subseteq LabelsOf[i]

\* Nothing is emitted before its place, nor wanted after it.
PlaceInv ==
  /\ cursor.page = 1
  /\ again = {}
  /\ Mode = "label" => seen = emitted
  /\ Mode # "label" => \A i \in emitted : ~Ahead(i)
  /\ inCycle => \A i \in due \ emitted : Late(i) \/ (Sought(i) /\ Ahead(i))
  /\ ~inCycle => \A i \in due \ emitted : Late(i)

\* What a tick emitted is missing from its budget, and belongs to this cycle.
BudgetInv ==
  /\ ticking => inCycle
  /\ ticking => budget >= config.perTick - Cardinality(emitted)

\* Time-based polling: what changed before the time the listings start at was
\* told, or is late; so will be, at the end of this cycle, what changed before it
\* began.
TimeInv ==
  /\ lastSync \in begun
  /\ inCycle => cycleSince \in begun
  /\ Mode = "time" => \A i \in Items :
       /\ RepoOf[i] \in 1..config.repos /\ updated[i] # 0 =>
            /\ updated[i] < lastSync => told[i] = updated[i] \/ Late(i)
            /\ inCycle /\ updated[i] <= cycleSince => i \in due \/ told[i] = updated[i]
       /\ inCycle /\ i \in due /\ i \in emitted => told[i] = updated[i]

RoomyInv == Roomy => PlaceInv /\ BudgetInv /\ TimeInv

\* With room for everything a listing is one page.
LEMMA OnePage ==
  ASSUME TypeInv, Roomy, PlaceInv, BudgetInv, Polling, NEW listing \in SUBSET Here
  PROVE  /\ Page(listing, cursor.page, PerPage) = listing
         /\ NextPage(listing, cursor.page, PerPage) = 0
<1> DEFINE N == Cardinality(Items)
<1>1. N \in Nat /\ IsFiniteSet(Items)
  BY ItemsAssumption, FS_CardinalityType
<1>2. Cardinality(emitted) \in Nat /\ Cardinality(emitted) <= N
  BY <1>1, FS_Subset, FS_CardinalityType DEF TypeInv, PollerTypeOK
<1>3. budget \in Nat /\ budget >= N
  <2>1. budget \in 0..config.perTick /\ config.perTick \in Nat
    BY ConfigsAssumption DEF TypeInv, PollerTypeOK
  <2>2. budget >= config.perTick - Cardinality(emitted) /\ config.perTick >= 2 * N
    BY DEF BudgetInv, Polling, Roomy
  <2> QED
    BY <1>1, <1>2, <2>1, <2>2
<1>4. PerPage \in Nat /\ PerPage >= N
  BY <1>1, <1>3, BoundsAssumption DEF PerPage, Roomy
<1>5. listing \in SUBSET Items /\ IsFiniteSet(listing)
  BY <1>1, FS_Subset DEF Here
<1>6. Cardinality(listing) \in Nat /\ Cardinality(listing) <= N
  BY <1>1, <1>5, FS_Subset, FS_CardinalityType
<1>7. ASSUME NEW i \in listing
      PROVE  Cardinality(Before(listing, i)) \in 0 .. PerPage - 1
  <2> DEFINE newer == Before(listing, i)
  <2>1. newer \in SUBSET listing /\ i \notin newer
    BY <1>5, OrderType DEF TypeInv, Before
  <2> HIDE DEF newer
  <2>2. /\ IsFiniteSet(newer) /\ Cardinality(newer) <= Cardinality(listing)
        /\ Cardinality(newer) # Cardinality(listing)
    BY <1>5, <2>1, FS_Subset
  <2>3. Cardinality(newer) \in Nat
    BY <2>2, FS_CardinalityType
  <2>4. Cardinality(newer) \in 0 .. PerPage - 1
    BY <1>1, <1>4, <1>6, <2>2, <2>3
  <2> QED
    BY <2>4 DEF newer
<1>8. (cursor.page - 1) * PerPage = 0 /\ cursor.page * PerPage = PerPage
  BY <1>4 DEF PlaceInv
<1> HIDE DEF N
<1> QED
  BY <1>1, <1>4, <1>6, <1>7, <1>8 DEF Page, NextPage

\* What a request does to the cycle: all that is wanted here and was not yet
\* emitted is emitted now, and nothing else.
FetchEffect(out) ==
  /\ out \subseteq {i \in Items \ emitted : At(i)}
  /\ \A i \in Items \ emitted : Sought(i) /\ At(i) => i \in out
  /\ emitted' = emitted \cup out
  /\ again' = {}
  /\ told' = [i \in Items |-> IF i \in out THEN updated[i] ELSE told[i]]
  /\ budget' = budget - Cardinality(out)
  /\ cursor' = Advanced(0)
  /\ Mode = "label" => seen' = seen \cup out
  /\ UNCHANGED <<github, config, cycle, ticking, due, begun, still>>

\* What the only page of a listing does to what was told, and how often.
LEMMA PageEffect ==
  ASSUME TypeInv, Roomy, PlaceInv, BudgetInv, Polling,
         NEW listing \in SUBSET Here, NEW keep, NEW end, FetchPage(listing, keep, end),
         \A i \in listing \cap keep : i \notin emitted /\ At(i),
         \A i \in Items \ emitted : Sought(i) /\ At(i) => i \in listing \cap keep,
         Mode = "label" => seen' = seen \cup (emitted' \ emitted)
  PROVE  FetchEffect(listing \cap keep)
<1>1. Page(listing, cursor.page, PerPage) = listing /\ NextPage(listing, cursor.page, PerPage) = 0
  BY OnePage
<1>2. /\ told' = [i \in Items |-> IF i \in listing \cap keep THEN updated[i] ELSE told[i]]
      /\ emitted' = emitted \cup (listing \cap keep)
      /\ again' = again \cup (emitted \cap (listing \cap keep))
      /\ budget' = budget - Cardinality(listing \cap keep)
      /\ cursor' = Advanced(0)
      /\ UNCHANGED <<github, config, cycle, ticking, due, begun, still>>
  BY <1>1 DEF FetchPage
<1>3. again' = {}
  BY <1>2 DEF PlaceInv
<1>4. listing \cap keep \subseteq {i \in Items \ emitted : At(i)}
  BY DEF Here
<1>5. Mode = "label" => seen' = seen \cup (listing \cap keep)
  BY <1>2, <1>4
<1> QED
  BY <1>2, <1>3, <1>4, <1>5 DEF FetchEffect

\* A request that has room for everything tells all that the query asks for.
LEMMA FetchRoomy ==
  ASSUME TypeInv, Roomy, PlaceInv, BudgetInv, Fetch
  PROVE  \E out : FetchEffect(out)
<1>1. Polling
  BY FetchIsPage
<1>2. \A i \in emitted : Mode # "label" => ~Ahead(i)
  BY DEF PlaceInv
<1>3. \A i \in Items : RepoOf[i] \in Nat /\ Kind[i] \in {"issue", "pr", "comment"}
  BY ItemsAssumption, ReposAssumption
<1>4. \A i \in Here : i \in Items /\ updated[i] # 0 /\ cursor.repo = RepoOf[i]
  BY DEF Here
<1>5. \A i \in Items : Sought(i) /\ At(i) => i \in Here
  BY DEF Sought, At, Here
<1>6. CASE FetchIssues
  <2> DEFINE listing == Since \cap OfKind({"issue", "pr"})
             keep == OfKind({"issue"})
  <2>1. Mode = "time" /\ cursor.phase = 0 /\ FetchPage(listing, keep, {})
    BY <1>6 DEF FetchIssues
  <2>2. \A i \in listing \cap keep : i \notin emitted /\ At(i)
    BY <1>2, <1>3, <1>4, <2>1 DEF OfKind, At, Ahead, Phase
  <2>3. \A i \in Items : Sought(i) /\ At(i) => i \in listing \cap keep
    BY <1>3, <1>5, <2>1 DEF OfKind, Since, NotBefore, Sought, At, Phase
  <2> QED
    BY <1>1, <2>1, <2>2, <2>3, PageEffect DEF OfKind
<1>7. CASE FetchPRs
  <2> DEFINE listing == OfKind({"pr"})
  <2>1. Mode = "time" /\ cursor.phase = 1 /\ FetchPage(listing, NotBefore, Here \ NotBefore)
    BY <1>7 DEF FetchPRs
  <2>2. \A i \in listing \cap NotBefore : i \notin emitted /\ At(i)
    BY <1>2, <1>3, <1>4, <2>1 DEF OfKind, At, Ahead, Phase
  <2>3. \A i \in Items : Sought(i) /\ At(i) => i \in listing \cap NotBefore
    BY <1>3, <1>5, <2>1 DEF OfKind, Since, NotBefore, Sought, At, Phase
  <2> QED
    BY <1>1, <2>1, <2>2, <2>3, PageEffect DEF OfKind
<1>8. CASE FetchComments
  <2> DEFINE listing == Since \cap OfKind({"comment"})
  <2>1. Mode = "time" /\ cursor.phase = 2 /\ FetchPage(listing, Here, {})
    BY <1>8 DEF FetchComments
  <2>2. \A i \in listing \cap Here : i \notin emitted /\ At(i)
    BY <1>2, <1>3, <1>4, <2>1 DEF OfKind, At, Ahead, Phase
  <2>3. \A i \in Items : Sought(i) /\ At(i) => i \in listing \cap Here
    BY <1>3, <1>5, <2>1 DEF OfKind, Since, NotBefore, Sought, At, Phase
  <2> QED
    BY <1>1, <2>1, <2>2, <2>3, PageEffect DEF OfKind
<1>9. CASE FetchIssuesByLabel
  <2> DEFINE listing == {i \in OfKind({"issue", "pr"}) : cursor.label \in LabelsOf[i]}
             keep == OfKind({"issue"}) \ seen
  <2>1. /\ Mode = "label" /\ FetchPage(listing, keep, {})
        /\ seen' = seen \cup (emitted' \ emitted)
    BY <1>9 DEF FetchIssuesByLabel
  <2>2. seen = emitted
    BY <2>1 DEF PlaceInv
  <2>3. \A i \in listing \cap keep : i \notin emitted /\ At(i)
    BY <1>3, <1>4, <2>1, <2>2 DEF OfKind, At
  <2>4. \A i \in Items \ emitted : Sought(i) /\ At(i) => i \in listing \cap keep
    BY <1>3, <1>5, <2>1, <2>2 DEF OfKind, Sought, At
  <2> QED
    BY <1>1, <2>1, <2>3, <2>4, PageEffect DEF OfKind
<1>10. CASE FetchPRsByState
  <2> DEFINE listing == IF config.labels = 0 THEN OfKind({"pr"})
                        ELSE {i \in OfKind({"issue", "pr"}) : 1..config.labels \subseteq LabelsOf[i]}
             keep == OfKind({"pr"})
  <2>1. Mode = "pr" /\ FetchPage(listing, keep, {})
    BY <1>10 DEF FetchPRsByState
  <2>2. \A i \in listing \cap keep : i \notin emitted /\ At(i)
    BY <1>2, <1>3, <1>4, <2>1 DEF OfKind, At, Ahead
  <2>3. \A i \in Items : Sought(i) /\ At(i) => i \in listing \cap keep
    BY <1>3, <1>5, <2>1 DEF OfKind, Sought, At
  <2>4. listing \in SUBSET Here
    BY DEF OfKind
  <2> HIDE DEF listing
  <2> QED
    BY <1>1, <2>1, <2>2, <2>3, <2>4, PageEffect
<1> QED
  BY <1>6, <1>7, <1>8, <1>9, <1>10 DEF Fetch

\* Where the cursor goes when a listing has no next page.
LEMMA NextListing ==
  ASSUME PollerTypeOK
  PROVE  /\ Advanced(0).page = 1
         /\ \/ /\ Mode = "label" /\ cursor.label < config.labels
               /\ Advanced(0).repo = cursor.repo /\ Advanced(0).label = cursor.label + 1
            \/ /\ Mode = "time" /\ cursor.phase < 2
               /\ Advanced(0).repo = cursor.repo /\ Advanced(0).phase = cursor.phase + 1
            \/ /\ Advanced(0).repo = cursor.repo + 1
               /\ Advanced(0).label = 1 /\ Advanced(0).phase = 0
               /\ Mode = "label" => ~(cursor.label < config.labels)
               /\ Mode = "time" => cursor.phase = 2
<1> DEFINE c == cursor
<1>1. c \in [repo : Nat, label : Nat, phase : 0..2, page : Nat \ {0}]
  BY DEF PollerTypeOK
<1>2. CASE Mode = "label" /\ cursor.label < config.labels
  <2>1. Advanced(0) = [cursor EXCEPT !.label = @ + 1, !.page = 1]
    BY <1>2 DEF Advanced
  <2> QED
    BY <1>1, <1>2, <2>1
<1>3. CASE Mode = "time" /\ cursor.phase < 2
  <2>1. Advanced(0) = [cursor EXCEPT !.phase = @ + 1, !.page = 1]
    BY <1>3 DEF Advanced
  <2> QED
    BY <1>1, <1>3, <2>1
<1>4. CASE ~(Mode = "label" /\ cursor.label < config.labels) /\ ~(Mode = "time" /\ cursor.phase < 2)
  <2>1. Advanced(0) = [FirstCursor EXCEPT !.repo = cursor.repo + 1]
    BY <1>4 DEF Advanced
  <2> QED
    BY <1>1, <1>4, <2>1 DEF FirstCursor
<1> QED
  BY <1>2, <1>3, <1>4

\* The cursor passes the listing it was at, and no other one.
LEMMA CursorPasses ==
  ASSUME PollerTypeOK, cursor' = Advanced(0), config' = config, NEW i \in Items
  PROVE  /\ Sought(i) /\ Ahead(i) /\ ~At(i) => Ahead(i)'
         /\ Mode # "label" /\ (~Ahead(i) \/ At(i)) => ~Ahead(i)'
<1>1. RepoOf[i] \in Nat /\ Phase(i) \in 0..2 /\ Mode \in {"time", "label", "pr"}
  BY ItemsAssumption, ReposAssumption DEF Phase, Mode
<1>2. cursor.repo \in Nat /\ cursor.label \in Nat /\ cursor.phase \in 0..2 /\ config.labels \in Nat
  BY ConfigsAssumption DEF PollerTypeOK
<1>3. Mode' = Mode
  BY DEF Mode
<1>4. ASSUME Sought(i), Ahead(i), ~At(i) PROVE Ahead(i)'
  <2>1. CASE cursor.repo < RepoOf[i]
    <3>1. CASE cursor'.repo < RepoOf[i]
      BY <3>1 DEF Ahead
    <3>2. CASE cursor'.repo = RepoOf[i]
      <4>1. cursor'.label = 1 /\ cursor'.phase = 0
        BY <1>1, <1>2, <2>1, <3>2, NextListing
      <4>2. Mode = "label" => \E l \in LabelsOf[i] \cap 1..config.labels : 1 <= l
        BY <1>2, <1>4 DEF Sought
      <4> QED
        BY <1>1, <1>3, <3>2, <4>1, <4>2 DEF Ahead
    <3> QED
      BY <1>1, <1>2, <2>1, <3>1, <3>2, NextListing
  <2> QED
    BY <1>1, <1>2, <1>3, <1>4, <2>1, NextListing DEF Ahead, At
<1>5. ASSUME Mode # "label", ~Ahead(i) \/ At(i) PROVE ~Ahead(i)'
  BY <1>1, <1>2, <1>3, <1>5, NextListing DEF Ahead, At
<1> QED
  BY <1>4, <1>5

\* What is late stays so while nothing happens to it.
LEMMA LateStays ==
  ASSUME NEW i \in Items, updated' = updated, config' = config, begun \subseteq begun'
  PROVE  Late(i) => Late(i)'
BY DEF Late, Mode

\* The times cut to seconds keep their order.
LEMMA CutOrder ==
  ASSUME NEW t \in Nat, NEW u \in Nat, t <= u
  PROVE  Cut(t) <= Cut(u)
<1> DEFINE S == Second
           m == t \div S
           n == u \div S
<1>1. S \in Nat /\ S > 0
  BY GitHubAssumption
<1>2. m \in Nat /\ n \in Nat /\ t = S * m + (t % S) /\ u = S * n + (u % S)
  BY <1>1
<1>3. 0 <= t % S /\ t % S \in Nat /\ u % S \in Nat /\ u % S < S
  BY <1>1
<1> HIDE DEF m, n, S
<1>4. CASE m <= n
  <2>1. PICK d \in Nat : n = m + d
    <3>1. n - m \in Nat /\ n = m + (n - m)
      BY <1>2, <1>4
    <3> QED
      BY <3>1
  <2>2. n * S = m * S + d * S /\ m * S \in Nat /\ d * S \in Nat
    BY <1>1, <1>2, <2>1
  <2>3. m * S <= n * S
    BY <2>2
  <2> QED
    BY <2>3 DEF Cut, m, n, S
<1>5. CASE m > n
  <2>1. PICK d \in Nat : m = n + 1 + d
    <3>1. m - (n + 1) \in Nat /\ m = n + 1 + (m - (n + 1))
      BY <1>2, <1>5
    <3> QED
      BY <3>1
  <2>2. S * m = S * n + S + S * d /\ S * d \in Nat /\ S * n \in Nat
    BY <1>1, <1>2, <2>1
  <2>3. u < t
    BY <1>1, <1>2, <1>3, <2>2
  <2> QED
    BY <2>3
<1> QED
  BY <1>2, <1>4, <1>5

\* A change on GitHub takes its item out of what is due, and it is newer than
\* all the times the poller knows.
LEMMA ChangeRoomy ==
  ASSUME TypeInv, PlaceInv, BudgetInv, TimeInv,
         NEW i \in Items, NEW time \in {0, clock + 1}, Change(i, time)
  PROVE  PlaceInv' /\ BudgetInv' /\ TimeInv'
<1>1. /\ clock' = clock + 1 /\ updated' = [updated EXCEPT ![i] = time] /\ due' = due \ {i}
      /\ UNCHANGED <<config, cycle, cursor, seen, ticking, budget, told, emitted, again, begun>>
  BY DEF Change
<1>2. /\ clock \in Nat /\ lastSync \in 0..clock /\ cycleSince \in 0..clock
      /\ updated \in [Items -> Nat]
  BY DEF TypeInv, PollerTypeOK
<1>3. \A j \in Items : Ahead(j)' = Ahead(j)
  BY <1>1 DEF Ahead, Mode
<1>4. \A j \in Items \ {i} : Sought(j)' = Sought(j) /\ Late(j)' = Late(j)
  BY <1>1 DEF Sought, Late, Mode, cycle
<1>5. PlaceInv'
  <2>1. emitted \subseteq Items /\ due \subseteq Items
    BY DEF TypeInv, PollerTypeOK
  <2> QED
    BY <1>1, <1>3, <1>4, <2>1 DEF PlaceInv, Mode, cycle
<1>6. BudgetInv'
  BY <1>1 DEF BudgetInv, cycle
<1>7. TimeInv'
  <2> SUFFICES ASSUME Mode = "time", NEW j \in Items
               PROVE  /\ RepoOf[j] \in 1..config.repos /\ updated'[j] # 0 =>
                           /\ updated'[j] < lastSync => told[j] = updated'[j] \/ Late(j)'
                           /\ inCycle /\ updated'[j] <= cycleSince => j \in due' \/ told[j] = updated'[j]
                      /\ inCycle /\ j \in due' /\ j \in emitted => told[j] = updated'[j]
    BY <1>1 DEF TimeInv, Mode, cycle
  <2>1. CASE j = i
    BY <1>1, <1>2, <2>1
  <2>2. CASE j # i
    BY <1>1, <1>4, <2>2 DEF TimeInv
  <2> QED
    BY <2>1, <2>2
<1> QED
  BY <1>5, <1>6, <1>7

\* A new cycle wants what is due, and has all of it before it.
LEMMA BeginRoomy ==
  ASSUME TypeInv, PlaceInv, BudgetInv, TimeInv, BeginTick
  PROVE  PlaceInv' /\ BudgetInv' /\ TimeInv'
<1>1. config.perTick \in Nat /\ Cardinality(emitted) \in Nat /\ Cardinality({}) = 0
  BY ItemsAssumption, ConfigsAssumption, FS_Subset, FS_CardinalityType, FS_EmptySet
  DEF TypeInv, PollerTypeOK
<1>2. /\ inCycle' = TRUE /\ ticking' = TRUE /\ budget' = config.perTick
      /\ UNCHANGED <<updated, config, lastSync, told>>
  BY DEF BeginTick, github
<1>3. CASE inCycle
  <2>1. UNCHANGED <<cycleSince, cursor, seen, due, emitted, again, begun>>
    BY <1>3 DEF BeginTick
  <2>2. PlaceInv'
    BY <1>2, <1>3, <2>1 DEF PlaceInv, Ahead, Sought, Late, Mode
  <2>3. BudgetInv'
    BY <1>1, <1>2, <1>3, <2>1 DEF BudgetInv
  <2>4. TimeInv'
    BY <1>2, <1>3, <2>1 DEF TimeInv, Late, Mode
  <2> QED
    BY <2>2, <2>3, <2>4
<1>4. CASE ~inCycle
  <2>1. /\ cursor' = FirstCursor /\ seen' = {} /\ due' = Due /\ emitted' = {} /\ again' = {}
        /\ cycleSince' = clock /\ begun' = begun \cup {clock}
    BY <1>4 DEF BeginTick
  <2>2. Mode' = Mode /\ Mode \in {"time", "label", "pr"}
    BY <1>2 DEF Mode
  <2>9. \A i \in Items : Late(i) => Late(i)'
    BY <1>2, <2>1, LateStays
  <2>3. ASSUME NEW i \in Due, ~Late(i) PROVE Sought(i)
    <3>1. i \in Items /\ updated[i] # 0 /\ RepoOf[i] \in 1..config.repos
      BY <2>3 DEF Due
    <3>2. ASSUME Mode = "time"
          PROVE  Cut(updated[i]) >= IF Kind[i] = "pr" THEN lastSync ELSE Cut(lastSync)
      <4>1. updated[i] # told[i]
        BY <2>3, <3>2 DEF Due
      <4>2. updated[i] \in Nat /\ lastSync \in Nat /\ lastSync \in begun
        BY <3>1 DEF TypeInv, PollerTypeOK, TimeInv
      <4>3. Cut(updated[i]) \in Int /\ Cut(lastSync) \in Int
        BY <4>2, GitHubAssumption DEF Cut
      <4>4. lastSync <= updated[i]
        BY <2>3, <3>1, <3>2, <4>1, <4>2 DEF TimeInv
      <4>5. Cut(lastSync) <= Cut(updated[i])
        BY <4>2, <4>4, CutOrder
      <4>6. Kind[i] = "pr" => ~(Cut(updated[i]) < lastSync)
        BY <2>3, <3>2, <4>2, <4>4 DEF Late
      <4> QED
        BY <4>2, <4>3, <4>5, <4>6
    <3>3. Mode = "label" => Kind[i] = "issue" /\ LabelsOf[i] \cap 1..config.labels # {}
      BY <2>3 DEF Due
    <3>4. Mode = "pr" => Kind[i] = "pr" /\ 1..config.labels \subseteq LabelsOf[i]
      BY <2>3 DEF Due
    <3> QED
      BY <3>1, <3>2, <3>3, <3>4 DEF Sought
  <2>4. ASSUME NEW i \in Due, ~Late(i) PROVE Ahead(i)'
    <3>1. RepoOf[i] \in 1..config.repos /\ config.repos \in Nat /\ config.labels \in Nat
      BY <2>3, <2>4, ConfigsAssumption DEF Sought, TypeInv, PollerTypeOK
    <3>2. cursor'.repo = 1 /\ cursor'.label = 1 /\ cursor'.phase = 0
      BY <2>1 DEF FirstCursor
    <3>3. Phase(i) \in 0..2
      BY DEF Phase
    <3>4. Mode = "label" => \E l \in LabelsOf[i] \cap 1..config.labels : 1 <= l
      BY <2>3, <2>4, <3>1 DEF Sought
    <3> QED
      BY <1>2, <2>2, <3>1, <3>2, <3>3, <3>4 DEF Ahead
  <2>5. \A i \in Items : Sought(i)' = Sought(i)
    BY <1>2 DEF Sought, Mode
  <2>6. PlaceInv'
    <3>1. cursor'.page = 1
      BY <2>1 DEF FirstCursor
    <3>2. Due \subseteq Items
      BY DEF Due
    <3> QED
      BY <1>2, <2>1, <2>3, <2>4, <2>5, <2>9, <3>1, <3>2 DEF PlaceInv
  <2>7. BudgetInv'
    BY <1>1, <1>2, <2>1 DEF BudgetInv
  <2>8. TimeInv'
    <3>1. Mode = "time" => \A i \in Items :
            RepoOf[i] \in 1..config.repos /\ updated[i] # 0 => i \in Due \/ told[i] = updated[i]
      BY DEF Due
    <3> QED
      BY <1>2, <2>1, <2>2, <2>9, <3>1 DEF TimeInv
  <2> QED
    BY <2>6, <2>7, <2>8
<1> QED
  BY <1>3, <1>4

\* A request emits what was wanted at its place, and the cursor passes it.
LEMMA RequestRoomy ==
  ASSUME TypeInv, Roomy, PlaceInv, BudgetInv, TimeInv, Fetch
  PROVE  PlaceInv' /\ BudgetInv' /\ TimeInv'
<1>1. PICK out : FetchEffect(out)
  BY FetchRoomy
<1>2. /\ out \subseteq Items \ emitted /\ \A i \in out : At(i)
      /\ emitted' = emitted \cup out /\ again' = {} /\ cursor' = Advanced(0)
      /\ budget' = budget - Cardinality(out)
      /\ told' = [i \in Items |-> IF i \in out THEN updated[i] ELSE told[i]]
      /\ UNCHANGED <<updated, config, lastSync, cycleSince, inCycle, ticking, due, begun>>
  BY <1>1 DEF FetchEffect, github, cycle
<1>3. ticking /\ inCycle
  BY FetchIsPage DEF Polling, BudgetInv
<1>4. \A i \in Items : Sought(i)' = Sought(i) /\ Late(i)' = Late(i)
  BY <1>2 DEF Sought, Late, Mode
<1>5. due \subseteq Items /\ emitted \subseteq Items
  BY DEF TypeInv, PollerTypeOK
<1>6. PlaceInv'
  <2>1. cursor'.page = 1
    BY <1>2, NextListing DEF TypeInv
  <2>2. Mode = "label" => seen' = emitted'
    BY <1>1, <1>2 DEF FetchEffect, PlaceInv
  <2>3. ASSUME Mode # "label", NEW i \in emitted' PROVE ~Ahead(i)'
    <3>1. i \in Items /\ (~Ahead(i) \/ At(i))
      BY <1>2, <1>5, <2>3 DEF PlaceInv
    <3> QED
      BY <1>2, <2>3, <3>1, CursorPasses DEF TypeInv
  <2>4. ASSUME NEW i \in due \ emitted', ~Late(i) PROVE Sought(i) /\ Ahead(i)'
    <3>1. i \in Items \ emitted /\ Sought(i) /\ Ahead(i) /\ i \notin out
      BY <1>2, <1>3, <1>5, <2>4 DEF PlaceInv
    <3>2. ~At(i)
      BY <1>1, <3>1 DEF FetchEffect
    <3> QED
      BY <1>2, <3>1, <3>2, CursorPasses DEF TypeInv
  <2>5. Mode' = Mode
    BY <1>2 DEF Mode
  <2> QED
    BY <1>2, <1>3, <1>4, <1>5, <2>1, <2>2, <2>3, <2>4, <2>5 DEF PlaceInv
<1>7. BudgetInv'
  <2>1. /\ IsFiniteSet(emitted) /\ IsFiniteSet(out)
        /\ Cardinality(emitted) \in Nat /\ Cardinality(out) \in Nat
    BY <1>2, <1>5, ItemsAssumption, FS_Subset, FS_CardinalityType
  <2>2. Cardinality(emitted \cup out) = Cardinality(emitted) + Cardinality(out)
    <3>1. emitted \cap out = {}
      BY <1>2
    <3> QED
      BY <2>1, <3>1, FS_Union, FS_EmptySet
  <2>3. budget \in Nat /\ config.perTick \in Nat
    BY ConfigsAssumption DEF TypeInv, PollerTypeOK
  <2>4. budget >= config.perTick - Cardinality(emitted)
    BY <1>3 DEF BudgetInv
  <2>5. budget' >= config.perTick - Cardinality(emitted')
    BY <1>2, <2>1, <2>2, <2>3, <2>4
  <2> QED
    BY <1>2, <1>3, <2>5 DEF BudgetInv
<1>8. TimeInv'
  <2>1. \A i \in out : told'[i] = updated[i]
    BY <1>2
  <2>2. \A i \in Items \ out : told'[i] = told[i]
    BY <1>2
  <2> QED
    BY <1>2, <1>4, <2>1, <2>2 DEF TimeInv, Mode
<1> QED
  BY <1>6, <1>7, <1>8

\* At the end of a complete cycle nothing that was due is still before the cursor.
LEMMA EndRoomy ==
  ASSUME TypeInv, PlaceInv, BudgetInv, TimeInv, EndTick
  PROVE  PlaceInv' /\ BudgetInv' /\ TimeInv'
<1>1. /\ ticking /\ inCycle /\ ticking' = FALSE /\ inCycle' = ~Exhausted
      /\ lastSync' = IF Exhausted /\ Mode = "time" THEN cycleSince ELSE lastSync
      /\ UNCHANGED <<updated, config, cycleSince, cursor, seen, told, due, emitted, again, begun>>
  BY DEF EndTick, BudgetInv, github, history
<1>2. Exhausted => \A i \in due \ emitted : Late(i)
  <2> SUFFICES ASSUME Exhausted, NEW i \in due \ emitted, ~Late(i) PROVE FALSE
    OBVIOUS
  <2>1. RepoOf[i] \in 1..config.repos /\ cursor.repo <= RepoOf[i]
    BY <1>1 DEF PlaceInv, Sought, Ahead, TypeInv, PollerTypeOK
  <2> QED
    BY <2>1, ConfigsAssumption DEF Exhausted, TypeInv, PollerTypeOK
<1>3. \A i \in Items : Ahead(i)' = Ahead(i) /\ Late(i)' = Late(i)
  BY <1>1 DEF Ahead, Late, Mode
<1>4. ~Exhausted => \A i \in Items : Sought(i)' = Sought(i)
  BY <1>1 DEF Sought, Mode
<1>5. PlaceInv'
  <2>1. due \subseteq Items /\ emitted \subseteq Items
    BY DEF TypeInv, PollerTypeOK
  <2>2. Mode' = Mode
    BY <1>1 DEF Mode
  <2> QED
    BY <1>1, <1>2, <1>3, <1>4, <2>1, <2>2 DEF PlaceInv
<1>6. BudgetInv'
  BY <1>1 DEF BudgetInv
<1>7. TimeInv'
  <2>1. CASE ~Exhausted
    BY <1>1, <1>3, <2>1 DEF TimeInv, Mode
  <2>2. CASE Exhausted
    <3>1. ASSUME Mode = "time", NEW i \in Items, RepoOf[i] \in 1..config.repos,
                 updated[i] # 0, updated[i] < cycleSince
          PROVE  told[i] = updated[i] \/ Late(i)
      <4>1. updated[i] <= cycleSince
        BY <3>1 DEF TypeInv, PollerTypeOK
      <4> QED
        BY <1>1, <1>2, <2>2, <3>1, <4>1 DEF TimeInv
    <3> QED
      BY <1>1, <1>3, <2>2, <3>1 DEF TimeInv, Mode
  <2> QED
    BY <2>1, <2>2
<1> QED
  BY <1>5, <1>6, <1>7

\* Every step keeps the invariant while pages have room.
LEMMA RoomyStep == TypeInv /\ RoomyInv /\ [PollerNext]_pollerVars => RoomyInv'
<1> SUFFICES ASSUME TypeInv, RoomyInv, [PollerNext]_pollerVars, Roomy' PROVE (PlaceInv /\ BudgetInv /\ TimeInv)'
  BY DEF RoomyInv
<1>1. config' = config
  BY FetchIsPage DEF PollerNext, pollerVars, Touch, Vanish, Change, Wait, BeginTick,
    FetchPage, Fail, EndTick
<1>2. Roomy /\ PlaceInv /\ BudgetInv /\ TimeInv
  BY <1>1 DEF Roomy, RoomyInv
<1>3. ASSUME NEW i \in Items, Touch(i) \/ Vanish(i) PROVE (PlaceInv /\ BudgetInv /\ TimeInv)'
  BY <1>2, <1>3, ChangeRoomy DEF Touch, Vanish
<1>4. CASE BeginTick
  BY <1>2, <1>4, BeginRoomy
<1>5. CASE Fetch
  BY <1>2, <1>5, RequestRoomy
<1>6. CASE Fail
  BY <1>2, <1>6
  DEF Fail, PlaceInv, BudgetInv, TimeInv, Ahead, Sought, Late, Mode, github, cycle, history
<1>9. CASE Wait
  BY <1>2, <1>9
  DEF Wait, PlaceInv, BudgetInv, TimeInv, Ahead, Sought, Late, Mode, cycle, history
<1>7. CASE EndTick
  BY <1>2, <1>7, EndRoomy
<1>8. CASE UNCHANGED pollerVars
  BY <1>2, <1>8 DEF pollerVars, PlaceInv, BudgetInv, TimeInv, Ahead, Sought, Late, Mode
<1> QED
  BY <1>3, <1>4, <1>5, <1>6, <1>7, <1>8, <1>9 DEF PollerNext

\* The invariant of a poller whose pages have room for everything.
LEMMA RoomyInvariant == PollerSpec => []RoomyInv
<1>1. PollerInit => RoomyInv
  <2> SUFFICES ASSUME PollerInit PROVE PlaceInv /\ BudgetInv /\ TimeInv
    BY DEF RoomyInv
  <2>1. cursor.page = 1 /\ emitted = {} /\ seen = {} /\ again = {} /\ due = {} /\ ~inCycle
        /\ ~ticking /\ lastSync \in begun
    BY DEF PollerInit, FirstCursor
  <2>2. \A i \in Items : updated[i] < lastSync => told[i] = updated[i]
    BY DEF PollerInit
  <2> QED
    BY <2>1, <2>2 DEF PlaceInv, BudgetInv, TimeInv
<1> QED
  BY <1>1, RoomyStep, TypeCorrect, PTL DEF PollerSpec

-----------------------------------------------------------------------------
(***************************************************************************)
(* Polling one listing, a page per tick: after the requests for the first  *)
(* pages the items of the first ranks are emitted.                         *)
(***************************************************************************)

\* The listing, if nothing changes, and the rank of an item in it.
Listing == {i \in Items : updated[i] # 0 /\ RepoOf[i] = 1 /\ Kind[i] = "pr"}
Rank(i) == Cardinality(Before(Listing, i))

ListInv ==
  /\ ticking => inCycle
  /\ OneListing =>
       /\ again = {}
       /\ ~inCycle => due \subseteq emitted
       /\ inCycle =>
            /\ due = Listing /\ cursor.repo >= 1
            /\ cursor.repo = 1 =>
                 /\ emitted = {i \in Listing : Rank(i) < (cursor.page - 1) * config.perTick}
                 /\ ticking => budget \in {0, config.perTick}
            /\ cursor.repo > 1 => emitted = Listing

\* The ranks of the items of a listing are the numbers below its length.
LEMMA Ranks ==
  ASSUME TypeInv
  PROVE  /\ IsFiniteSet(Listing) /\ Cardinality(Listing) \in Nat
         /\ \A i \in Listing : Rank(i) \in 0 .. Cardinality(Listing) - 1
         /\ \A i, j \in Listing : Rank(i) = Rank(j) => i = j
         /\ \A k \in 0 .. Cardinality(Listing) - 1 : \E i \in Listing : Rank(i) = k
<1> DEFINE n == Cardinality(Listing)
           rank == [i \in Listing |-> Rank(i)]
<1>1. Listing \in SUBSET Items /\ IsFiniteSet(Listing) /\ n \in Nat
  BY ItemsAssumption, FS_Subset, FS_CardinalityType DEF Listing
<1>2. ASSUME NEW i \in Listing PROVE Rank(i) \in 0 .. n - 1
  <2> DEFINE newer == Before(Listing, i)
  <2>1. newer \in SUBSET Listing /\ i \notin newer
    BY <1>1, OrderType DEF TypeInv, Before
  <2> HIDE DEF newer
  <2>2. IsFiniteSet(newer) /\ Cardinality(newer) <= n /\ Cardinality(newer) # n
    BY <1>1, <2>1, FS_Subset
  <2>3. Cardinality(newer) \in 0 .. n - 1
    BY <1>1, <2>2, FS_CardinalityType
  <2> QED
    BY <2>3 DEF newer, Rank
<1>3. ASSUME NEW i \in Listing, NEW j \in Listing, i # j PROVE Rank(i) # Rank(j)
  <2>1. updated[i] # 0 /\ updated[j] # 0
    BY DEF Listing
  <2>2. Order(i) < Order(j) \/ Order(j) < Order(i)
    BY <1>1, <1>3, <2>1, OrderDistinct
  <2> QED
    BY <1>1, <2>2, RankOrder DEF TypeInv, Rank
<1>4. IsFiniteSet(0 .. n - 1) /\ Cardinality(0 .. n - 1) = n
  BY <1>1, FS_Interval
<1>5. rank \in Injection(Listing, 0 .. n - 1)
  BY <1>2, <1>3 DEF Injection, IsInjective
<1> HIDE DEF n
<1>6. rank \in Surjection(Listing, 0 .. n - 1)
  <2> HIDE DEF rank
  <2> QED
    BY <1>1, <1>4, <1>5, FS_Injection DEF n
<1>7. \A k \in 0 .. n - 1 : \E i \in Listing : Rank(i) = k
  BY <1>6 DEF Surjection
<1> QED
  BY <1>1, <1>2, <1>3, <1>7 DEF n

\* A page that is not the last one is full.
LEMMA FullPage ==
  ASSUME TypeInv, NEW p \in Nat \ {0}, NEW s \in Nat, Cardinality(Listing) > p * s
  PROVE  Cardinality(Page(Listing, p, s)) = s
<1> DEFINE page == Page(Listing, p, s)
           slots == (p - 1) * s .. p * s - 1
           rank == [i \in page |-> Rank(i)]
<1>1. page = {i \in Listing : Rank(i) \in slots}
  BY DEF Page, Rank
<1>2. IsFiniteSet(page) /\ Cardinality(page) \in Nat /\ Cardinality(page) <= s
  BY PageSize DEF Listing
<1>3. IsFiniteSet(slots) /\ Cardinality(slots) = s
  BY Slots
<1>4. slots \subseteq 0 .. Cardinality(Listing) - 1
  <2>1. (p - 1) * s \in Nat /\ p * s \in Nat /\ Cardinality(Listing) \in Nat
    BY Ranks
  <2> QED
    BY <2>1
<1>5. rank \in Surjection(page, slots)
  <2>1. \A k \in slots : \E i \in page : Rank(i) = k
    BY <1>1, <1>4, Ranks
  <2>2. rank \in [page -> slots]
    BY <1>1
  <2> HIDE DEF page, slots
  <2> QED
    BY <2>1, <2>2 DEF Surjection
<1> HIDE DEF page, slots, rank
<1>6. Cardinality(slots) <= Cardinality(page)
  BY <1>2, <1>5, FS_Surjection
<1> QED
  BY <1>2, <1>3, <1>6 DEF page

\* The items of a page come right after those of the pages before it.
LEMMA NextRanks ==
  ASSUME TypeInv, NEW p \in Nat \ {0}, NEW s \in Nat
  PROVE  /\ {i \in Listing : Rank(i) < (p - 1) * s} \cup Page(Listing, p, s)
              = {i \in Listing : Rank(i) < p * s}
         /\ {i \in Listing : Rank(i) < (p - 1) * s} \cap Page(Listing, p, s) = {}
<1> DEFINE a == (p - 1) * s
<1>1. a \in Nat /\ p * s = a + s
  OBVIOUS
<1>2. \A i \in Listing : Rank(i) \in Nat
  BY Ranks
<1>3. Page(Listing, p, s) = {i \in Listing : Rank(i) \in a .. p * s - 1}
  BY DEF Page, Rank
<1> HIDE DEF a
<1>4. /\ {i \in Listing : Rank(i) < a} \cup {i \in Listing : Rank(i) \in a .. a + s - 1}
           = {i \in Listing : Rank(i) < a + s}
      /\ {i \in Listing : Rank(i) < a} \cap {i \in Listing : Rank(i) \in a .. a + s - 1} = {}
  BY <1>1, <1>2
<1> QED
  BY <1>1, <1>3, <1>4 DEF a

\* A request for a page of the listing emits the items of the next ranks; if it is
\* not the last page, it takes the whole budget.
LEMMA FetchOne ==
  ASSUME TypeInv, ListInv, OneListing, Fetch
  PROVE  /\ inCycle /\ cursor.repo = 1
         /\ UNCHANGED <<updated, config, inCycle, ticking, due, still>>
         /\ again' = {}
         /\ emitted' = {i \in Listing : Rank(i) < cursor.page * config.perTick}
         /\ \/ /\ cursor' = [cursor EXCEPT !.page = cursor.page + 1]
               /\ budget' = 0
            \/ /\ cursor'.repo = 2
               /\ emitted' = Listing
<1> DEFINE p == cursor.page
           s == config.perTick
           page == Page(Listing, p, s)
<1>1. p \in Nat \ {0} /\ s \in Nat \ {0} /\ config.repos = 1 /\ Mode = "pr" /\ config.labels = 0
  BY ConfigsAssumption DEF TypeInv, PollerTypeOK, OneListing
<1>2. ticking /\ budget > 0 /\ ~Exhausted /\ FetchPRsByState
  BY <1>1 DEF Fetch, FetchIssues, FetchPRs, FetchComments, FetchIssuesByLabel, FetchPRsByState,
    Polling
<1>3. inCycle /\ cursor.repo = 1
  <2>1. inCycle
    BY <1>2 DEF ListInv
  <2>2. cursor.repo >= 1 /\ cursor.repo \in Nat /\ ~(cursor.repo > 1)
    BY <1>1, <1>2, <2>1 DEF ListInv, Exhausted, TypeInv, PollerTypeOK
  <2> QED
    BY <2>1, <2>2
<1>4. budget = s /\ again = {} /\ emitted = {i \in Listing : Rank(i) < (p - 1) * s}
  BY <1>2, <1>3 DEF ListInv
<1>5. PerPage = s
  <2>1. s <= PageCap
    BY DEF OneListing
  <2> QED
    BY <1>1, <1>4, <2>1, BoundsAssumption DEF PerPage
<1>6. OfKind({"pr"}) = Listing
  BY <1>3 DEF OfKind, Here, Listing
<1>7. FetchPage(Listing, Listing, {})
  BY <1>1, <1>2, <1>6 DEF FetchPRsByState
<1>8. page \subseteq Listing
  BY DEF Page
<1>9. /\ emitted' = emitted \cup page /\ again' = again \cup (emitted \cap page)
      /\ budget' = budget - Cardinality(page)
      /\ cursor' = Advanced(NextPage(Listing, p, s))
      /\ UNCHANGED <<updated, config, inCycle, ticking, due, still>>
  BY <1>5, <1>7, <1>8 DEF FetchPage, github, cycle
<1> HIDE DEF p, s, page
<1>10. /\ emitted' = {i \in Listing : Rank(i) < p * s}
       /\ again' = {}
  BY <1>1, <1>4, <1>9, NextRanks DEF page
<1>11. CASE Cardinality(Listing) > p * s
  <2>1. NextPage(Listing, p, s) = p + 1
    BY <1>11 DEF NextPage
  <2>2. cursor' = [cursor EXCEPT !.page = p + 1]
    BY <1>1, <1>9, <2>1 DEF Advanced
  <2>3. Cardinality(page) = s
    BY <1>1, <1>11, FullPage DEF page
  <2>4. budget' = 0
    BY <1>1, <1>4, <1>9, <2>3
  <2> QED
    BY <1>3, <1>9, <1>10, <2>2, <2>4 DEF p, s
<1>12. CASE ~(Cardinality(Listing) > p * s)
  <2>1. NextPage(Listing, p, s) = 0
    BY <1>12 DEF NextPage
  <2>2. cursor'.repo = 2
    BY <1>1, <1>3, <1>9, <2>1, NextListing DEF TypeInv
  <2>3. \A i \in Listing : Rank(i) < p * s
    <3>1. Cardinality(Listing) \in Nat /\ p * s \in Nat
      BY <1>1, Ranks
    <3>2. \A i \in Listing : Rank(i) \in 0 .. Cardinality(Listing) - 1
      BY Ranks
    <3> QED
      BY <1>12, <3>1, <3>2
  <2>4. emitted' = Listing
    BY <1>10, <2>3
  <2> QED
    BY <1>3, <1>9, <1>10, <2>2, <2>4 DEF p, s
<1> QED
  BY <1>11, <1>12

\* A cycle that begins wants the listing, and the cursor is before all of it.
LEMMA BeginOne ==
  ASSUME TypeInv, ListInv, BeginTick, OneListing', ~inCycle
  PROVE  /\ due' = Listing /\ emitted' = {} /\ again' = {}
         /\ cursor'.repo = 1 /\ cursor'.page = 1
         /\ \A i \in Listing : ~(Rank(i) < 0)
<1>1. Mode = "pr" /\ config.repos = 1 /\ config.labels = 0
  BY DEF BeginTick, OneListing, Mode
<1>2. due' = Due /\ emitted' = {} /\ again' = {} /\ cursor' = FirstCursor
  BY DEF BeginTick
<1>3. Due = Listing
  <2>1. \A i \in Items : RepoOf[i] \in 1..1 <=> RepoOf[i] = 1
    BY ReposAssumption
  <2>2. 1..0 = {}
    OBVIOUS
  <2>3. \A i \in Items : 1..0 \subseteq LabelsOf[i]
    BY <2>2
  <2> QED
    BY <1>1, <2>1, <2>3 DEF Due, Listing
<1>4. \A i \in Listing : ~(Rank(i) < 0)
  <2>1. \A i \in Listing : Rank(i) \in Nat
    BY Ranks
  <2> QED
    BY <2>1
<1> QED
  BY <1>2, <1>3, <1>4 DEF FirstCursor

\* Every step keeps the pages of such a listing one behind the other.
LEMMA ListStep == TypeInv /\ ListInv /\ [PollerNext]_pollerVars => ListInv'
<1> SUFFICES ASSUME TypeInv, ListInv, [PollerNext]_pollerVars PROVE ListInv'
  OBVIOUS
<1>1. ASSUME updated' = updated
      PROVE  Listing' = Listing /\ \A i \in Listing : Rank(i)' = Rank(i)
  BY <1>1 DEF Listing, Rank, Before, Order
<1>2. ASSUME config' = config, still' = still PROVE OneListing' <=> OneListing
  BY <1>2 DEF OneListing, Mode
<1>3. ASSUME NEW i \in Items, Touch(i) \/ Vanish(i) PROVE ListInv'
  BY <1>3 DEF Touch, Vanish, Change, cycle, ListInv, OneListing
<1>4. CASE BeginTick
  <2>1. /\ inCycle' = TRUE /\ ticking' = TRUE /\ budget' = config.perTick
        /\ UNCHANGED <<updated, config>>
    BY <1>4 DEF BeginTick, github
  <2> SUFFICES ASSUME OneListing'
               PROVE  /\ again' = {} /\ due' = Listing /\ cursor'.repo >= 1
                      /\ cursor'.repo = 1 =>
                           emitted' = {i \in Listing : Rank(i) < (cursor'.page - 1) * config.perTick}
                      /\ cursor'.repo > 1 => emitted' = Listing
    BY <1>1, <2>1 DEF ListInv
  <2>2. CASE inCycle
    <3>1. UNCHANGED <<cursor, due, emitted, again, still>>
      BY <1>4, <2>2 DEF BeginTick
    <3> QED
      BY <1>2, <2>1, <2>2, <3>1 DEF ListInv
  <2>3. CASE ~inCycle
    <3>1. (1 - 1) * config.perTick = 0
      BY <2>1, ConfigsAssumption DEF TypeInv, PollerTypeOK
    <3> QED
      BY <1>4, <2>3, <3>1, BeginOne
  <2> QED
    BY <2>2, <2>3
<1>5. CASE Fetch
  <2>1. UNCHANGED <<updated, config, inCycle, ticking, due, still>>
    BY <1>5, FetchIsPage DEF FetchPage, github, cycle
  <2>2. ticking' => inCycle'
    BY <2>1 DEF ListInv
  <2>3. ASSUME OneListing
        PROVE  /\ inCycle' /\ again' = {} /\ due' = Listing /\ cursor'.repo >= 1
               /\ cursor'.repo = 1 =>
                    /\ emitted' = {i \in Listing : Rank(i) < (cursor'.page - 1) * config.perTick}
                    /\ budget' = 0
               /\ cursor'.repo > 1 => emitted' = Listing
    <3>1. /\ inCycle /\ cursor.repo = 1 /\ again' = {}
          /\ emitted' = {i \in Listing : Rank(i) < cursor.page * config.perTick}
          /\ \/ /\ cursor' = [cursor EXCEPT !.page = cursor.page + 1]
                /\ budget' = 0
             \/ /\ cursor'.repo = 2
                /\ emitted' = Listing
      BY <1>5, <2>3, FetchOne
    <3>2. due = Listing
      BY <2>3, <3>1 DEF ListInv
    <3>3. CASE cursor' = [cursor EXCEPT !.page = cursor.page + 1] /\ budget' = 0
      <4>1. cursor'.repo = 1 /\ cursor'.page = cursor.page + 1 /\ cursor.page \in Nat
        BY <3>1, <3>3 DEF TypeInv, PollerTypeOK
      <4>2. cursor'.page - 1 = cursor.page
        BY <4>1
      <4> QED
        BY <2>1, <3>1, <3>2, <3>3, <4>1, <4>2
    <3>4. CASE cursor'.repo = 2 /\ emitted' = Listing
      BY <2>1, <3>1, <3>2, <3>4
    <3> QED
      BY <3>1, <3>3, <3>4
  <2> QED
    BY <1>1, <1>2, <2>1, <2>2, <2>3 DEF ListInv
<1>6. CASE Fail
  <2>1. ticking' = FALSE
        /\ UNCHANGED <<updated, config, inCycle, cursor, budget, due, emitted, again, still>>
    BY <1>6 DEF Fail, github, cycle, history
  <2> QED
    BY <1>1, <1>2, <2>1 DEF ListInv
<1>7. CASE EndTick
  <2>1. /\ ticking /\ ticking' = FALSE /\ inCycle' = ~Exhausted
        /\ UNCHANGED <<updated, config, cursor, budget, due, emitted, again, still>>
    BY <1>7 DEF EndTick, github, history
  <2>2. inCycle
    BY <2>1 DEF ListInv
  <2>3. OneListing /\ Exhausted => cursor.repo > 1
    BY DEF OneListing, Exhausted
  <2> QED
    BY <1>1, <1>2, <2>1, <2>2, <2>3 DEF ListInv
<1>8. CASE UNCHANGED pollerVars
  BY <1>1, <1>2, <1>8 DEF pollerVars, ListInv
<1>9. CASE Wait
  <2>1. UNCHANGED <<updated, config, inCycle, cursor, ticking, budget, due, emitted, again, still>>
    BY <1>9 DEF Wait, cycle, history
  <2> QED
    BY <1>1, <1>2, <2>1 DEF ListInv
<1> QED
  BY <1>3, <1>4, <1>5, <1>6, <1>7, <1>8, <1>9 DEF PollerNext

\* A listing of pull requests that does not change is gone through page by page.
LEMMA ListInvariant == PollerSpec => []ListInv
<1>1. PollerInit => ListInv
  BY DEF PollerInit, ListInv
<1> QED
  BY <1>1, ListStep, TypeCorrect, PTL DEF PollerSpec

-----------------------------------------------------------------------------
(***************************************************************************)
(* The promises of a cycle.                                                *)
(***************************************************************************)

\* A complete cycle of Poller.tick emitted all that was due and left alone, if
\* every listing fits on a page or there is one listing read in equal pages, but
\* for pull requests that changed in the second in which a cycle began.
THEOREM CompleteHolds == PollerSpec => []Complete
<1>1. TypeInv /\ RoomyInv /\ ListInv => Complete
  <2> SUFFICES ASSUME TypeInv, RoomyInv, ListInv, ~inCycle, Roomy \/ OneListing
               PROVE  \A i \in due \ emitted : Late(i)
    BY DEF Complete
  <2>1. CASE Roomy
    BY <2>1 DEF RoomyInv, PlaceInv
  <2>2. CASE OneListing
    BY <2>2 DEF ListInv
  <2> QED
    BY <2>1, <2>2
<1> QED
  BY <1>1, TypeCorrect, RoomyInvariant, ListInvariant, PTL

\* And no cycle emitted any of it twice, through listings, ticks and repetitions.
THEOREM AtMostOnceHolds == PollerSpec => []AtMostOnce
<1>1. TypeInv /\ RoomyInv /\ ListInv => AtMostOnce
  BY DEF AtMostOnce, RoomyInv, PlaceInv, ListInv
<1> QED
  BY <1>1, TypeCorrect, RoomyInvariant, ListInvariant, PTL
=============================================================================
