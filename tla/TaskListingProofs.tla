------------------------- MODULE TaskListingProofs -------------------------
(***************************************************************************)
(* TaskListing for any number of tasks, writers, documents and page sizes. *)
(*                                                                         *)
(* First what a page is: the greatest entries of a finite set, in an order *)
(* that is total.  Then what holds between the pages of a session: all     *)
(* that was listed is at the cursor or above it, and all that was not and  *)
(* nobody has touched is below.  At the end what follows when the clock is *)
(* set back, and that all tasks listed are the caller's own.               *)
(***************************************************************************)
EXTENDS TaskListing, FiniteSetTheorems, WellFoundedInduction, TLAPS

Above(e, S) == {g \in S : Below(e, g)}
Beneath(e, S) == {g \in S : Below(g, e)}

-----------------------------------------------------------------------------
(* Pages. *)

(* (updated_at, task_id) is a strict total order. *)
LEMMA BelowIsTotal ==
    /\ \A e \in Entry : ~Below(e, e)
    /\ \A e, f, g \in Entry : Below(e, f) /\ Below(f, g) => Below(e, g)
    /\ \A e, f \in Entry : e = f \/ Below(e, f) \/ Below(f, e)
<1>1. \A e \in Entry : e.task \in Int /\ e.stamp \in Int
  <2> SUFFICES ASSUME NEW e \in Entry PROVE e.task \in Int /\ e.stamp \in Int
      OBVIOUS
  <2>1. e.task \in Tasks /\ e.stamp \in 0..MaxClock
      BY DEF Entry
  <2>2. Tasks \subseteq Int
      BY ListingAssumption
  <2>3. e.task \in Int
      BY <2>1, <2>2
  <2>4. e.stamp \in Int
      BY <2>1
  <2> QED
      BY <2>3, <2>4
<1>2. \A e, f \in Entry : e.task = f.task /\ e.stamp = f.stamp => e = f
    BY DEF Entry
<1> QED
    BY <1>1, <1>2 DEF Below

(* A set of natural numbers has a least member. *)
LEMMA LeastNumber ==
    ASSUME NEW S, S \subseteq Nat, S # {}
    PROVE  \E n \in S : \A m \in S : n <= m
<1>1. PICK n \in S : \A m \in S : ~(<<m, n>> \in OpToRel(<, Nat))
    BY NatLessThanWellFounded, WFMin
<1>2. \A m \in S : n <= m
  <2> SUFFICES ASSUME NEW m \in S, m < n PROVE FALSE
      OBVIOUS
  <2> QED
      BY <1>1 DEF OpToRel
<1> QED
    BY <1>2

LEMMA Counts ==
    ASSUME NEW S, S \subseteq Entry, IsFiniteSet(S), NEW e \in Entry
    PROVE  /\ IsFiniteSet(Above(e, S)) /\ Cardinality(Above(e, S)) \in Nat
           /\ IsFiniteSet(Beneath(e, S)) /\ Cardinality(Beneath(e, S)) \in Nat
<1>1. Above(e, S) \subseteq S /\ Beneath(e, S) \subseteq S
    BY DEF Above, Beneath
<1> QED
    BY <1>1, FS_Subset, FS_CardinalityType

(* The higher an entry, the fewer are above it and the more beneath it. *)
LEMMA CountsFollowOrder ==
    ASSUME NEW S, S \subseteq Entry, IsFiniteSet(S), NEW e \in S, NEW f \in S, Below(e, f)
    PROVE  /\ Cardinality(Above(f, S)) < Cardinality(Above(e, S))
           /\ Cardinality(Beneath(e, S)) < Cardinality(Beneath(f, S))
<1>1. Above(f, S) \subseteq Above(e, S) /\ f \in Above(e, S) /\ f \notin Above(f, S)
    BY BelowIsTotal DEF Above
<1>2. Beneath(e, S) \subseteq Beneath(f, S) /\ e \in Beneath(f, S) /\ e \notin Beneath(e, S)
    BY BelowIsTotal DEF Beneath
<1>3. Cardinality(Above(f, S)) <= Cardinality(Above(e, S))
      /\ Cardinality(Above(f, S)) # Cardinality(Above(e, S))
    BY <1>1, Counts, FS_Subset
<1>4. Cardinality(Beneath(e, S)) <= Cardinality(Beneath(f, S))
      /\ Cardinality(Beneath(e, S)) # Cardinality(Beneath(f, S))
    BY <1>2, Counts, FS_Subset
<1> QED
    BY <1>3, <1>4, Counts

(* A finite set has a highest and a lowest entry. *)
LEMMA Extremes ==
    ASSUME NEW S, S \subseteq Entry, IsFiniteSet(S), S # {}
    PROVE  /\ \E e \in S : \A g \in S : g = e \/ Below(g, e)
           /\ \E e \in S : \A g \in S : g = e \/ Below(e, g)
<1>1. \E e \in S : \A g \in S : g = e \/ Below(g, e)
  <2> DEFINE N == {Cardinality(Above(e, S)) : e \in S}
  <2>1. N \subseteq Nat /\ N # {}
      BY Counts
  <2>2. PICK n \in N : \A m \in N : n <= m
    <3> HIDE DEF N
    <3> QED
        BY <2>1, LeastNumber
  <2>3. PICK e \in S : \A g \in S : Cardinality(Above(e, S)) <= Cardinality(Above(g, S))
      BY <2>2
  <2>4. \A g \in S : ~Below(e, g)
    <3> SUFFICES ASSUME NEW g \in S, Below(e, g) PROVE FALSE
        OBVIOUS
    <3> QED
        BY <2>3, CountsFollowOrder, Counts
  <2> QED
      BY <2>4, BelowIsTotal
<1>2. \E e \in S : \A g \in S : g = e \/ Below(e, g)
  <2> DEFINE N == {Cardinality(Beneath(e, S)) : e \in S}
  <2>1. N \subseteq Nat /\ N # {}
      BY Counts
  <2>2. PICK n \in N : \A m \in N : n <= m
    <3> HIDE DEF N
    <3> QED
        BY <2>1, LeastNumber
  <2>3. PICK e \in S : \A g \in S : Cardinality(Beneath(e, S)) <= Cardinality(Beneath(g, S))
      BY <2>2
  <2>4. \A g \in S : ~Below(g, e)
    <3> SUFFICES ASSUME NEW g \in S, Below(g, e) PROVE FALSE
        OBVIOUS
    <3> QED
        BY <2>3, CountsFollowOrder, Counts
  <2> QED
      BY <2>4, BelowIsTotal
<1> QED
    BY <1>1, <1>2

LEMMA LowestIsLowest ==
    ASSUME NEW S, S \subseteq Entry, IsFiniteSet(S), S # {}
    PROVE  Lowest(S) \in S /\ \A g \in S : g = Lowest(S) \/ Below(Lowest(S), g)
    BY Extremes DEF Lowest

(* What ORDER BY ... LIMIT n returns: no more than n, all if there are     *)
(* less than n, and nothing that is left out is above anything returned.   *)
LEMMA FirstOfFacts ==
    ASSUME NEW S, S \subseteq Entry, IsFiniteSet(S), NEW n \in Nat
    PROVE  /\ FirstOf(S, n) \subseteq S /\ IsFiniteSet(FirstOf(S, n))
           /\ Cardinality(FirstOf(S, n)) \in Nat
           /\ Cardinality(FirstOf(S, n)) <= n
           /\ Cardinality(FirstOf(S, n)) < n => FirstOf(S, n) = S
           /\ \A e \in S \ FirstOf(S, n), f \in FirstOf(S, n) : Below(e, f)
<1> DEFINE F == FirstOf(S, n)
<1>1. F = {e \in S : Cardinality(Above(e, S)) < n}
    BY DEF FirstOf, Above
<1>2. F \subseteq S /\ IsFiniteSet(F) /\ Cardinality(F) \in Nat
    BY <1>1, FS_Subset, FS_CardinalityType
<1>3. \A e \in S \ F, f \in F : Below(e, f)
  <2> SUFFICES ASSUME NEW e \in S \ F, NEW f \in F, ~Below(e, f) PROVE FALSE
      OBVIOUS
  <2>1. Below(f, e)
      BY <1>2, BelowIsTotal
  <2>2. Cardinality(Above(e, S)) < Cardinality(Above(f, S))
      BY <1>2, <2>1, CountsFollowOrder
  <2> QED
      BY <1>1, <2>2, Counts
<1>4. Cardinality(F) <= n
  <2>1. CASE F = {}
      BY <2>1, FS_EmptySet
  <2>2. CASE F # {}
    <3>1. PICK e \in F : \A g \in F : g = e \/ Below(e, g)
        BY <1>2, <2>2, Extremes
    <3>2. F \ {e} \subseteq Above(e, S)
        BY <1>2, <3>1 DEF Above
    <3>3. Cardinality(F \ {e}) <= Cardinality(Above(e, S))
        BY <1>2, <3>2, Counts, FS_Subset
    <3>4. Cardinality(F \ {e}) = Cardinality(F) - 1
        BY <1>2, FS_RemoveElement
    <3>5. Cardinality(Above(e, S)) < n /\ Cardinality(Above(e, S)) \in Nat
        BY <1>1, Counts
    <3> QED
        BY <1>2, <3>3, <3>4, <3>5
  <2> QED
      BY <2>1, <2>2
<1>5. Cardinality(F) < n => F = S
  <2> SUFFICES ASSUME Cardinality(F) < n, S \ F # {} PROVE FALSE
      BY <1>2
  <2>1. S \ F \subseteq Entry /\ IsFiniteSet(S \ F)
      BY FS_Subset
  <2>2. PICK e \in S \ F : \A g \in S \ F : g = e \/ Below(g, e)
      BY <2>1, Extremes
  <2>3. Above(e, S) \subseteq F
      BY <2>2, BelowIsTotal DEF Above
  <2>4. Cardinality(Above(e, S)) <= Cardinality(F)
      BY <1>2, <2>3, FS_Subset
  <2> QED
      BY <1>1, <1>2, <2>4, Counts
<1> QED
    BY <1>1, <1>2, <1>3, <1>4, <1>5

(* The page that ReadPage makes of one row more than it holds. *)
LEMMA PageFacts ==
    ASSUME NEW rest, rest \subseteq Entry, IsFiniteSet(rest), NEW n \in Nat \ {0}
    PROVE  LET fetched == FirstOf(rest, n + 1)
               listed == FirstOf(fetched, n)
           IN  /\ listed \subseteq rest /\ IsFiniteSet(listed)
               /\ Cardinality(fetched) > n =>
                     /\ Cardinality(listed) = n /\ n < Cardinality(rest)
                     /\ Lowest(listed) \in listed
                     /\ \A e \in listed : e = Lowest(listed) \/ Below(Lowest(listed), e)
                     /\ \A e \in rest \ listed : Below(e, Lowest(listed))
               /\ ~(Cardinality(fetched) > n) => listed = rest /\ Cardinality(rest) <= n
<1> DEFINE fetched == FirstOf(rest, n + 1)
           listed == FirstOf(fetched, n)
<1>1. /\ fetched \subseteq rest /\ IsFiniteSet(fetched) /\ Cardinality(fetched) \in Nat
      /\ Cardinality(fetched) <= n + 1
      /\ Cardinality(fetched) < n + 1 => fetched = rest
      /\ \A e \in rest \ fetched, f \in fetched : Below(e, f)
    BY FirstOfFacts
<1>2. /\ listed \subseteq fetched /\ IsFiniteSet(listed) /\ Cardinality(listed) \in Nat
      /\ Cardinality(listed) <= n
      /\ Cardinality(listed) < n => listed = fetched
      /\ \A e \in fetched \ listed, f \in listed : Below(e, f)
    BY <1>1, FirstOfFacts
<1>3. ASSUME Cardinality(fetched) > n
      PROVE  /\ Cardinality(listed) = n /\ n < Cardinality(rest)
             /\ Lowest(listed) \in listed
             /\ \A e \in listed : e = Lowest(listed) \/ Below(Lowest(listed), e)
             /\ \A e \in rest \ listed : Below(e, Lowest(listed))
  <2>1. Cardinality(listed) = n
      BY <1>1, <1>2, <1>3
  <2>2. Cardinality(rest) \in Nat /\ Cardinality(fetched) <= Cardinality(rest)
      BY <1>1, FS_Subset, FS_CardinalityType
  <2>3. listed # {} /\ listed \subseteq Entry
      BY <1>1, <1>2, <2>1, FS_EmptySet
  <2>4. Lowest(listed) \in listed
        /\ \A e \in listed : e = Lowest(listed) \/ Below(Lowest(listed), e)
      BY <1>2, <2>3, LowestIsLowest
  <2>5. \A e \in rest \ listed : Below(e, Lowest(listed))
      BY <1>1, <1>2, <2>4
  <2> QED
      BY <1>1, <1>3, <2>1, <2>2, <2>4, <2>5
<1>4. ASSUME ~(Cardinality(fetched) > n)
      PROVE  listed = rest /\ Cardinality(rest) <= n
  <2>1. fetched = rest /\ Cardinality(rest) <= n
      BY <1>1, <1>4
  <2>2. Cardinality(listed) = n => listed = fetched
      BY <1>1, <1>2, <1>4, FS_Subset
  <2> QED
      BY <1>1, <1>2, <2>1, <2>2
<1> QED
    BY <1>1, <1>2, <1>3, <1>4

(* What a filter lets through, seen in a table. *)
LEMMA MatchingFacts ==
    ASSUME NEW t \in Table, NEW f
    PROVE  /\ \A e : e \in Matching(t, f) <=>
                 /\ e \in Entry /\ t[e.task] # NoRow
                 /\ Matches(t[e.task].doc, f) /\ e.stamp = t[e.task].stamp
           /\ Matching(t, f) \subseteq Entry /\ IsFiniteSet(Matching(t, f))
           /\ Cardinality(Matching(t, f)) \in Nat
<1> DEFINE M == Matching(t, f)
<1>1. \A k \in Tasks : t[k] # NoRow => t[k].stamp \in 0..MaxClock
    BY DEF Table, Row
<1>2. \A e : e \in M <=> /\ e \in Entry /\ t[e.task] # NoRow
                         /\ Matches(t[e.task].doc, f) /\ e.stamp = t[e.task].stamp
    BY <1>1 DEF Matching, Entry
<1>3. M \subseteq Entry
    BY <1>2
<1>4. IsFiniteSet(M)
  <2> DEFINE g == [e \in M |-> e.task]
  <2>1. g \in [M -> Tasks]
      BY <1>3 DEF Entry
  <2>2. \A e, h \in M : g[e] = g[h] => e = h
      BY <1>2 DEF Entry
  <2>3. g \in Injection(M, Tasks)
      BY <2>1, <2>2 DEF Injection, IsInjective
  <2> QED
      BY <2>3, FS_Injection, ListingAssumption
<1> QED
    BY <1>2, <1>3, <1>4, FS_CardinalityType

-----------------------------------------------------------------------------
(* The inductive invariant. *)

(* All entries the session has been given. *)
Told == UNION {pages[i].tasks : i \in 1..Len(pages)}

Paging == phase \in {"ready", "counted"}

CountFollows == phase = "counted" => total = Cardinality(Matching(snapshot, filter))

CursorFollows ==
    /\ Paging => (cursor = NoCursor <=> pages = <<>>)
    /\ Paging => \A e \in Told : e = cursor \/ Below(cursor, e)

InOrder ==
    \A i, j \in 1..Len(pages) : i < j =>
       \A e \in pages[i].tasks, g \in pages[j].tasks : Below(g, e)

(* While nobody sets the clock back, the timestamps of a row only grow. *)
ClockGoesForward == -1 \notin ClockMoves

StampsGrow ==
    \A t \in Tasks :
       /\ rows[t] # NoRow => rows[t].stamp <= clock
       /\ writing[t] # NoRow => writing[t].stamp <= clock
       /\ rows[t] # NoRow /\ writing[t] # NoRow => rows[t].stamp <= writing[t].stamp
       /\ snapshot[t] # NoRow => rows[t] # NoRow /\ snapshot[t].stamp <= rows[t].stamp

ToldAreOld ==
    \A e \in Told :
       /\ rows[e.task] # NoRow /\ e.stamp <= rows[e.task].stamp
       /\ phase = "counted" => snapshot[e.task] # NoRow /\ e.stamp <= snapshot[e.task].stamp

ToldOnce ==
    \A i, j \in 1..Len(pages) : i < j =>
       \A e \in pages[i].tasks, g \in pages[j].tasks : g.task # e.task

TimeFollows == ClockGoesForward => StampsGrow /\ ToldAreOld /\ ToldOnce

(* What the session knows of a task is true until somebody touches it. *)
SnapshotHolds == phase = "counted" => \A t \in Tasks \ touched : snapshot[t] = rows[t]

NoneIsMissed ==
    \A e \in Matching(rows, filter) : e.task \notin touched =>
       /\ Paging /\ pages # <<>> => e \in Told \/ Below(e, cursor)
       /\ phase = "done" => e \in Told

ToldAreTrue ==
    /\ \A e \in Told : e.task \notin touched => e \in Matching(rows, filter)
    /\ \A i \in 1..Len(pages) : \A x \in pages[i].shown : x.task \notin touched =>
          rows[x.task] # NoRow /\ x = Shaped(x.task, rows[x.task].doc, filter)

ListingInvariant ==
    /\ TypeOK
    /\ CountFollows /\ PageMatchesCount
    /\ CursorFollows /\ InOrder
    /\ TimeFollows
    /\ SnapshotHolds /\ NoneIsMissed /\ ToldAreTrue

LEMMA ToldAreEntries ==
    ASSUME TypeOK
    PROVE  /\ Told \subseteq Entry
           /\ \A i \in 1..Len(pages) : pages[i] \in Response /\ pages[i].tasks \subseteq Entry
<1>1. \A i \in 1..Len(pages) : pages[i] \in Response
    BY DEF TypeOK
<1>2. \A p \in Response : p.tasks \subseteq Entry
    BY DEF Response
<1> QED
    BY <1>1, <1>2 DEF Told

(* Before the first page there is nothing to be wrong about. *)
LEMMA NothingTold ==
    ASSUME pages = <<>>
    PROVE  /\ Told = {} /\ PageMatchesCount /\ InOrder /\ ToldAreOld /\ ToldOnce /\ ToldAreTrue
           /\ Paging /\ cursor = NoCursor => CursorFollows
           /\ phase # "done" => NoneIsMissed
<1>1. Told = {}
    BY DEF Told
<1> QED
    BY <1>1 DEF PageMatchesCount, InOrder, ToldAreOld, ToldOnce, ToldAreTrue, CursorFollows,
                NoneIsMissed, Paging

LEMMA InvariantAtStart == Init => ListingInvariant
<1> SUFFICES ASSUME Init PROVE ListingInvariant
    OBVIOUS
<1>1. NoRows \in Table
    BY DEF NoRows, Table
<1>2. TypeOK
    BY <1>1, ListingAssumption DEF Init, TypeOK, Phase
<1>3. TimeFollows
    BY NothingTold DEF Init, TimeFollows, StampsGrow, NoRows
<1>4. CursorFollows
    BY NothingTold DEF Init, CursorFollows, Paging
<1> QED
    BY <1>2, <1>3, <1>4, NothingTold
    DEF Init, ListingInvariant, CountFollows, SnapshotHolds

-----------------------------------------------------------------------------
(* The writers. *)

(* A writer's step leaves the session alone; what the session holds true   *)
(* may change for a task that is touched.                                  *)
LEMMA SessionUnmoved ==
    ASSUME ListingInvariant, TypeOK',
           UNCHANGED <<phase, filter, cursor, reading, pages>>,
           touched \subseteq touched', \A t \in Tasks \ touched' : rows'[t] = rows[t]
    PROVE  /\ CountFollows' /\ PageMatchesCount' /\ CursorFollows' /\ InOrder'
           /\ SnapshotHolds' /\ NoneIsMissed' /\ ToldAreTrue'
<1> USE DEF ListingInvariant, reading
<1>1. Told' = Told /\ Paging' = Paging
    BY DEF Told, Paging
<1>2. CountFollows' /\ PageMatchesCount' /\ CursorFollows' /\ InOrder'
    BY <1>1 DEF CountFollows, PageMatchesCount, CursorFollows, InOrder
<1>3. SnapshotHolds'
    BY DEF SnapshotHolds
<1>4. \A e : e.task \notin touched' => (e \in Matching(rows', filter) <=> e \in Matching(rows, filter))
  <2> SUFFICES ASSUME NEW e, e.task \notin touched'
               PROVE  e \in Matching(rows', filter) <=> e \in Matching(rows, filter)
      OBVIOUS
  <2>1. e \in Entry => rows'[e.task] = rows[e.task]
      BY DEF Entry
  <2>2. rows \in Table /\ rows' \in Table
      BY DEF TypeOK
  <2> QED
      BY <2>1, <2>2, MatchingFacts
<1>5. NoneIsMissed'
    BY <1>1, <1>4 DEF NoneIsMissed
<1>6. ToldAreTrue'
  <2>1. \A i \in 1..Len(pages) : \A x \in pages[i].shown : x.task \in Tasks
    <3>1. \A p \in Response : \A x \in p.shown : x.task \in Tasks
        BY DEF Response, Listed
    <3> QED
        BY <3>1, ToldAreEntries
  <2> QED
      BY <1>1, <1>4, <2>1 DEF ToldAreTrue
<1> QED
    BY <1>2, <1>3, <1>5, <1>6

LEMMA Writing ==
    ASSUME ListingInvariant, NEW t \in Tasks, Write(t) \/ RollBack(t)
    PROVE  ListingInvariant'
<1> USE DEF ListingInvariant
<1>1. writing' \in Table
  <2>1. CASE Write(t)
    <3>1. PICK d \in Document : writing' = [writing EXCEPT ![t] = [doc |-> d, stamp |-> clock]]
        BY <2>1 DEF Write, Stamp
    <3>2. [doc |-> d, stamp |-> clock] \in Row
        BY DEF TypeOK, Row
    <3> QED
        BY <3>1, <3>2 DEF TypeOK, Table
  <2>2. CASE RollBack(t)
      BY <2>2 DEF RollBack, TypeOK, Table
  <2> QED
      BY <2>1, <2>2
<1>2. UNCHANGED <<rows, clock, phase, filter, cursor, reading, pages, touched>>
    BY DEF Write, RollBack
<1>3. TypeOK'
    BY <1>1, <1>2 DEF TypeOK, reading
<1>4. TimeFollows'
  <2> SUFFICES ASSUME ClockGoesForward PROVE StampsGrow' /\ ToldAreOld' /\ ToldOnce'
      BY DEF TimeFollows
  <2>1. ToldAreOld' /\ ToldOnce'
      BY <1>2 DEF TimeFollows, ToldAreOld, ToldOnce, Told, reading
  <2>2. \A k \in Tasks : writing'[k] # NoRow =>
           writing'[k] = writing[k] \/ writing'[k].stamp = clock
      BY <1>2 DEF Write, Stamp, RollBack, TypeOK, Table
  <2>3. clock \in Int
      BY DEF TypeOK
  <2>4. StampsGrow'
      BY <1>2, <2>2, <2>3 DEF TimeFollows, StampsGrow, reading
  <2> QED
      BY <2>1, <2>4
<1> QED
    BY <1>2, <1>3, <1>4, SessionUnmoved

LEMMA Landing ==
    ASSUME ListingInvariant, NEW t \in Tasks, Land(t)
    PROVE  ListingInvariant'
<1> USE DEF ListingInvariant, Land
<1>1. TypeOK'
    BY DEF TypeOK, Table, reading
<1>2. \A k \in Tasks \ touched' : rows'[k] = rows[k]
    BY DEF TypeOK, Table
<1>3. TimeFollows'
  <2> SUFFICES ASSUME ClockGoesForward PROVE StampsGrow' /\ ToldAreOld' /\ ToldOnce'
      BY DEF TimeFollows
  <2>1. \A k \in Tasks : /\ rows'[k] = IF k = t THEN writing[t] ELSE rows[k]
                         /\ writing'[k] = IF k = t THEN NoRow ELSE writing[k]
      BY DEF TypeOK, Table
  <2>2. \A k \in Tasks : rows[k] # NoRow => rows[k].stamp \in Int
      BY DEF TypeOK, Table, Row
  <2>3. \A k \in Tasks : writing[k] # NoRow => writing[k].stamp \in Int
      BY DEF TypeOK, Table, Row
  <2>4. \A k \in Tasks : snapshot[k] # NoRow => snapshot[k].stamp \in Int
      BY DEF TypeOK, Table, Row
  <2>5. \A e \in Told : e.task \in Tasks /\ e.stamp \in Int
      BY ToldAreEntries DEF Entry
  <2>6. StampsGrow'
      BY <2>1, <2>2, <2>3, <2>4 DEF TimeFollows, StampsGrow, reading
  <2>7. ToldAreOld'
      BY <2>1, <2>2, <2>3, <2>5 DEF TimeFollows, StampsGrow, ToldAreOld, Told, reading
  <2>8. ToldOnce'
      BY DEF TimeFollows, ToldOnce
  <2> QED
      BY <2>6, <2>7, <2>8
<1> QED
    BY <1>1, <1>2, <1>3, SessionUnmoved

LEMMA Ticking ==
    ASSUME ListingInvariant, Tick
    PROVE  ListingInvariant'
<1> USE DEF ListingInvariant, Tick
<1>1. TypeOK'
    BY DEF TypeOK, reading
<1>2. TimeFollows'
  <2> SUFFICES ASSUME ClockGoesForward PROVE StampsGrow' /\ ToldAreOld' /\ ToldOnce'
      BY DEF TimeFollows
  <2>1. clock' = clock + 1 /\ clock \in Int
    <3>1. ClockMoves \subseteq {1}
        BY ListingAssumption DEF ClockGoesForward
    <3> QED
        BY <3>1 DEF TypeOK
  <2>2. \A k \in Tasks : rows[k] # NoRow => rows[k].stamp \in Int
      BY DEF TypeOK, Table, Row
  <2>3. \A k \in Tasks : writing[k] # NoRow => writing[k].stamp \in Int
      BY DEF TypeOK, Table, Row
  <2>4. StampsGrow'
      BY <2>1, <2>2, <2>3 DEF TimeFollows, StampsGrow, reading
  <2>5. ToldAreOld' /\ ToldOnce'
      BY DEF TimeFollows, ToldAreOld, ToldOnce, Told, reading
  <2> QED
      BY <2>4, <2>5
<1> QED
    BY <1>1, <1>2, SessionUnmoved

-----------------------------------------------------------------------------
(* The session. *)

LEMMA Opening ==
    ASSUME ListingInvariant, Open
    PROVE  ListingInvariant'
<1> USE DEF ListingInvariant, Open, table, reading
<1>1. TypeOK'
    BY DEF TypeOK, Phase
<1>2. pages' = <<>> /\ Told' = {}
    BY DEF Told
<1>3. PageMatchesCount' /\ InOrder' /\ CursorFollows' /\ NoneIsMissed' /\ ToldAreTrue'
    BY <1>2 DEF PageMatchesCount, InOrder, CursorFollows, NoneIsMissed, ToldAreTrue, Paging
<1>4. TimeFollows'
    BY <1>2 DEF TimeFollows, StampsGrow, ToldAreOld, ToldOnce
<1> QED
    BY <1>1, <1>3, <1>4 DEF CountFollows, SnapshotHolds

LEMMA Counting ==
    ASSUME ListingInvariant, Count
    PROVE  ListingInvariant'
<1> USE DEF ListingInvariant, Count, table
<1>1. TypeOK'
  <2>1. size' \in 1..MaximumPageSize
    <3>1. PICK n \in RequestedSizes : size' = PageSize(n)
        OBVIOUS
    <3>2. n \in 0..MaximumPageSize /\ DefaultPageSize \in 1..MaximumPageSize
        BY ListingAssumption
    <3>3. MaximumPageSize \in Nat
        BY ListingAssumption
    <3> QED
        BY <3>1, <3>2, <3>3 DEF PageSize
  <2>2. total' \in Nat
      BY MatchingFacts DEF TypeOK
  <2> QED
      BY <2>1, <2>2 DEF TypeOK, Phase
<1>2. Told' = Told
    BY DEF Told
<1>3. CountFollows' /\ PageMatchesCount' /\ InOrder' /\ CursorFollows'
    BY <1>2 DEF CountFollows, PageMatchesCount, InOrder, CursorFollows, Paging
<1>4. TimeFollows'
  <2>1. \A k \in Tasks : rows[k] # NoRow => rows[k].stamp \in Int
      BY DEF TypeOK, Table, Row
  <2> QED
      BY <1>2, <2>1 DEF TimeFollows, StampsGrow, ToldAreOld, ToldOnce
<1>5. SnapshotHolds'
    BY DEF SnapshotHolds
<1>6. NoneIsMissed' /\ ToldAreTrue'
  <2>1. CASE pages = <<>>
      BY <1>2, <2>1, NothingTold DEF NoneIsMissed, ToldAreTrue, Paging
  <2>2. CASE pages # <<>>
      BY <1>2, <2>2 DEF NoneIsMissed, ToldAreTrue, Paging
  <2> QED
      BY <2>1, <2>2
<1> QED
    BY <1>1, <1>3, <1>4, <1>5, <1>6

LEMMA NoRowsFacts == NoRows \in Table /\ \A t \in Tasks : NoRows[t] = NoRow
    BY DEF NoRows, Table

LEMMA Failing ==
    ASSUME ListingInvariant, ListFails
    PROVE  ListingInvariant'
<1> USE DEF ListingInvariant, ListFails, EndRead, table
<1>1. TypeOK'
    BY NoRowsFacts DEF TypeOK, Phase
<1>2. Told' = Told
    BY DEF Told
<1>3. CountFollows' /\ PageMatchesCount' /\ InOrder' /\ CursorFollows' /\ SnapshotHolds'
    BY <1>2 DEF CountFollows, PageMatchesCount, InOrder, CursorFollows, Paging, SnapshotHolds
<1>4. TimeFollows'
    BY <1>2, NoRowsFacts DEF TimeFollows, StampsGrow, ToldAreOld, ToldOnce
<1>5. NoneIsMissed' /\ ToldAreTrue'
    BY <1>2 DEF NoneIsMissed, ToldAreTrue, Paging
<1> QED
    BY <1>1, <1>3, <1>4, <1>5

(* A page, and what it adds to what was told. *)
LEMMA Reading ==
    ASSUME ListingInvariant, ReadPage
    PROVE  ListingInvariant'
<1> DEFINE found == Matching(snapshot, filter)
           rest == {e \in found : AfterCursor(e, cursor)}
           fetched == FirstOf(rest, size + 1)
           more == Cardinality(fetched) > size
           listed == FirstOf(fetched, size)
           page == [tasks |-> listed,
                    shown |-> {Shaped(e.task, snapshot[e.task].doc, filter) : e \in listed},
                    total |-> total, size |-> size, more |-> more]
<1> USE DEF ListingInvariant
<1>1. /\ phase = "counted"
      /\ pages' = Append(pages, page)
      /\ cursor' = IF more THEN Lowest(listed) ELSE NoCursor
      /\ phase' = IF more THEN "ready" ELSE "done"
      /\ snapshot' = NoRows /\ total' = 0
      /\ UNCHANGED <<size, rows, writing, clock, filter, touched>>
    BY DEF ReadPage, Respond, EndRead, Seen, Token, table
<1>2. found \subseteq Entry /\ IsFiniteSet(found) /\ Cardinality(found) \in Nat
      /\ rest \subseteq found /\ IsFiniteSet(rest) /\ rest \subseteq Entry
      /\ Cardinality(rest) \in Nat /\ Cardinality(rest) <= Cardinality(found)
    BY MatchingFacts, FS_Subset, FS_CardinalityType DEF TypeOK
<1>3. size \in Nat \ {0}
    BY ListingAssumption DEF TypeOK
<1>4. /\ listed \subseteq rest /\ IsFiniteSet(listed)
      /\ more => /\ Cardinality(listed) = size /\ size < Cardinality(rest)
                 /\ Lowest(listed) \in listed
                 /\ \A e \in listed : e = Lowest(listed) \/ Below(Lowest(listed), e)
                 /\ \A e \in rest \ listed : Below(e, Lowest(listed))
      /\ ~more => listed = rest /\ Cardinality(rest) <= size
    BY <1>2, <1>3, PageFacts
<1> HIDE DEF found, rest, fetched, more, listed
<1>5. more \in BOOLEAN
    BY DEF more
<1>6. page \in Response
  <2>1. \A e \in listed : Shaped(e.task, snapshot[e.task].doc, filter) \in Listed
    <3> SUFFICES ASSUME NEW e \in listed
                 PROVE  Shaped(e.task, snapshot[e.task].doc, filter) \in Listed
        OBVIOUS
    <3>1. e.task \in Tasks /\ snapshot[e.task].doc \in Document
        BY <1>2, <1>4, MatchingFacts DEF found, TypeOK, Table, Row, Entry
    <3> DEFINE d == snapshot[e.task].doc
    <3>2. d.history \in Seq(Nat) /\ d.artifacts \in BOOLEAN /\ filter.artifacts \in BOOLEAN
        BY <3>1, ListingAssumption DEF TypeOK
    <3>3. filter.length # NoLength => filter.length \in Int
        BY ListingAssumption DEF TypeOK
    <3>4. DefaultHistory \in Int
        BY ListingAssumption
    <3> DEFINE n == IF filter.length = NoLength THEN DefaultHistory ELSE filter.length
               cut == IF n >= 0 /\ Len(d.history) > n THEN Len(d.history) - n ELSE 0
    <3>5. n \in Int
        BY <3>3, <3>4
    <3> HIDE DEF d
    <3>6. Len(d.history) \in Nat
        BY <3>2
    <3>7. cut \in Nat /\ cut <= Len(d.history)
        BY <3>5, <3>6
    <3>8. SubSeq(d.history, cut + 1, Len(d.history)) \in Seq(Nat)
        BY <3>2, <3>7
    <3>9. Shaped(e.task, d, filter) =
             [task |-> e.task, history |-> SubSeq(d.history, cut + 1, Len(d.history)),
              artifacts |-> filter.artifacts /\ d.artifacts]
        BY DEF Shaped
    <3>10. (filter.artifacts /\ d.artifacts) \in BOOLEAN
        BY <3>2
    <3> QED
        BY <3>1, <3>8, <3>9, <3>10 DEF Listed, d
  <2>2. listed \in SUBSET Entry
      BY <1>2, <1>4
  <2> QED
      BY <1>5, <2>1, <2>2 DEF Response, TypeOK
<1>7. /\ Len(pages') = Len(pages) + 1 /\ Len(pages) \in Nat
      /\ pages'[Len(pages) + 1] = page
      /\ \A i \in 1..Len(pages) : pages'[i] = pages[i]
      /\ pages' \in Seq(Response)
    BY <1>1, <1>6 DEF TypeOK
<1>8. Told' = Told \cup listed
    BY <1>7 DEF Told
<1>9. TypeOK'
    BY <1>1, <1>2, <1>4, <1>5, <1>7, NoRowsFacts DEF TypeOK, Phase
<1>10. CountFollows' /\ SnapshotHolds'
    BY <1>1 DEF CountFollows, SnapshotHolds
<1>11. \A g \in listed : \A e \in Told : Below(g, e)
  <2> SUFFICES ASSUME NEW g \in listed, NEW e \in Told PROVE Below(g, e)
      OBVIOUS
  <2>1. pages # <<>>
      BY DEF Told
  <2>2. cursor \in Entry /\ (e = cursor \/ Below(cursor, e))
      BY <1>1, <2>1 DEF CursorFollows, Paging, TypeOK
  <2>3. Below(g, cursor)
      BY <1>1, <1>4, <2>1 DEF rest, AfterCursor, CursorFollows, Paging
  <2>4. e \in Entry /\ g \in Entry
      BY <1>2, <1>4, ToldAreEntries
  <2> QED
      BY <2>2, <2>3, <2>4, BelowIsTotal
<1>12. InOrder'
    BY <1>7, <1>11 DEF InOrder, Told
<1>13. CursorFollows'
  <2> SUFFICES ASSUME more PROVE CursorFollows'
      BY <1>1 DEF CursorFollows, Paging
  <2>1. cursor' = Lowest(listed) /\ cursor' \in listed /\ cursor' \in Entry
      BY <1>1, <1>2, <1>4
  <2>2. pages' # <<>> /\ cursor' # NoCursor
      BY <1>7, <2>1, AbsenceAssumption
  <2>3. \A e \in Told' : e = cursor' \/ Below(cursor', e)
      BY <1>4, <1>8, <1>11, <2>1
  <2> QED
      BY <2>2, <2>3 DEF CursorFollows
<1>14. PageMatchesCount'
  <2>1. total = Cardinality(found)
      BY <1>1 DEF CountFollows, found
  <2>2. pages = <<>> => rest = found
      BY <1>1 DEF rest, AfterCursor, CursorFollows, Paging
  <2>3. Cardinality(listed) \in Nat /\ Cardinality(listed) <= Cardinality(rest)
      BY <1>2, <1>4, FS_Subset, FS_CardinalityType
  <2>4. Cardinality(listed) <= size /\ Cardinality(listed) <= total
      BY <1>2, <1>3, <1>4, <2>1, <2>3
  <2>5. more => Cardinality(listed) = size /\ size < total
      BY <1>2, <1>3, <1>4, <2>1
  <2>6. Len(pages) = 0 => /\ more <=> size < total
                          /\ ~more => Cardinality(listed) = total
    <3> SUFFICES ASSUME Len(pages) = 0
                 PROVE  (more <=> size < total) /\ (~more => Cardinality(listed) = total)
        OBVIOUS
    <3>1. rest = found
        BY <2>2 DEF TypeOK
    <3>2. ~more => Cardinality(listed) = total /\ total <= size
        BY <1>4, <2>1, <3>1
    <3> QED
        BY <1>2, <1>3, <2>1, <2>5, <3>2
  <2>7. page.tasks = listed /\ page.size = size /\ page.total = total /\ page.more = more
      OBVIOUS
  <2> HIDE DEF page
  <2> SUFFICES ASSUME NEW i \in 1..Len(pages')
               PROVE  LET p == pages'[i]
                          shown == Cardinality(p.tasks)
                      IN  /\ shown <= p.size /\ shown <= p.total
                          /\ p.more => shown = p.size /\ p.size < p.total
                          /\ i = 1 => (p.more <=> p.size < p.total)
                          /\ i = 1 /\ ~p.more => shown = p.total
      BY DEF PageMatchesCount
  <2>8. CASE i \in 1..Len(pages)
      BY <1>7, <2>8 DEF PageMatchesCount
  <2>9. CASE i = Len(pages) + 1
      BY <1>7, <2>4, <2>5, <2>6, <2>7, <2>9
  <2> QED
      BY <1>7, <2>8, <2>9
<1>15. TimeFollows'
  <2> SUFFICES ASSUME ClockGoesForward PROVE StampsGrow' /\ ToldAreOld' /\ ToldOnce'
      BY DEF TimeFollows, ClockGoesForward
  <2>1. StampsGrow /\ ToldAreOld /\ ToldOnce
      BY DEF TimeFollows
  <2>2. StampsGrow'
      BY <1>1, <2>1, NoRowsFacts DEF StampsGrow
  <2>3. \A g \in listed : /\ g \in Entry /\ g.task \in Tasks /\ g.stamp \in Int
                          /\ snapshot[g.task] # NoRow /\ g.stamp = snapshot[g.task].stamp
      BY <1>2, <1>4, MatchingFacts DEF found, Entry, TypeOK
  <2>4. ToldAreOld'
    <3>1. \A g \in listed : rows[g.task] # NoRow /\ g.stamp <= rows[g.task].stamp
        BY <2>1, <2>3 DEF StampsGrow
    <3> QED
        BY <1>1, <1>8, <2>1, <3>1 DEF ToldAreOld
  <2>5. \A g \in listed : \A e \in Told : g.task # e.task
    <3> SUFFICES ASSUME NEW g \in listed, NEW e \in Told, g.task = e.task PROVE FALSE
        OBVIOUS
    <3>1. e.stamp <= g.stamp
        BY <1>1, <2>1, <2>3 DEF ToldAreOld
    <3>2. e \in Entry /\ e.stamp \in Int /\ e.task \in Tasks
        BY ToldAreEntries DEF Entry
    <3>3. Below(g, e) /\ e.task \in Int
        BY <1>11, <3>2, ListingAssumption
    <3> QED
        BY <2>3, <3>1, <3>2, <3>3 DEF Below
  <2>6. ToldOnce'
      BY <1>7, <2>1, <2>5 DEF ToldOnce, Told
  <2> QED
      BY <2>2, <2>4, <2>6
<1>16. \A e : e.task \notin touched => (e \in found <=> e \in Matching(rows, filter))
  <2> SUFFICES ASSUME NEW e, e.task \notin touched
               PROVE  e \in found <=> e \in Matching(rows, filter)
      OBVIOUS
  <2>1. e \in Entry => snapshot[e.task] = rows[e.task]
      BY <1>1 DEF SnapshotHolds, Entry
  <2>2. rows \in Table /\ snapshot \in Table
      BY DEF TypeOK
  <2> QED
      BY <2>1, <2>2, MatchingFacts DEF found
<1>17. NoneIsMissed'
  <2> SUFFICES ASSUME NEW e \in Matching(rows, filter), e.task \notin touched
               PROVE  /\ more => e \in Told' \/ Below(e, cursor')
                      /\ ~more => e \in Told'
      BY <1>1 DEF NoneIsMissed, Paging
  <2>1. e \in found
      BY <1>16
  <2>2. e \in Told \/ e \in rest
    <3>1. CASE pages = <<>>
        BY <1>1, <2>1, <3>1 DEF rest, AfterCursor, CursorFollows, Paging
    <3>2. CASE pages # <<>>
        BY <1>1, <2>1, <3>2 DEF rest, AfterCursor, NoneIsMissed, Paging
    <3> QED
        BY <3>1, <3>2
  <2> QED
      BY <1>1, <1>4, <1>8, <2>2
<1>18. ToldAreTrue'
  <2>1. \A e \in Told' : e.task \notin touched' => e \in Matching(rows', filter')
      BY <1>1, <1>2, <1>4, <1>8, <1>16 DEF ToldAreTrue
  <2>2. \A x \in page.shown : x.task \notin touched =>
           rows[x.task] # NoRow /\ x = Shaped(x.task, rows[x.task].doc, filter)
    <3>1. \A e \in listed : e.task \notin touched =>
             rows[e.task] # NoRow /\ snapshot[e.task] = rows[e.task]
      <4> SUFFICES ASSUME NEW e \in listed, e.task \notin touched
                   PROVE  rows[e.task] # NoRow /\ snapshot[e.task] = rows[e.task]
          OBVIOUS
      <4>1. e \in found /\ e.task \in Tasks
          BY <1>2, <1>4 DEF Entry
      <4>2. snapshot[e.task] = rows[e.task]
          BY <1>1, <4>1 DEF SnapshotHolds
      <4> QED
          BY <4>1, <4>2, MatchingFacts DEF found, TypeOK
    <3>2. \A x \in page.shown : \E e \in listed :
             x.task = e.task /\ x = Shaped(e.task, snapshot[e.task].doc, filter)
        BY DEF Shaped
    <3> QED
        BY <3>1, <3>2
  <2> HIDE DEF page
  <2>3. \A i \in 1..Len(pages') : \A x \in pages'[i].shown : x.task \notin touched =>
           rows[x.task] # NoRow /\ x = Shaped(x.task, rows[x.task].doc, filter)
      BY <1>7, <2>2 DEF ToldAreTrue
  <2> QED
      BY <1>1, <2>1, <2>3 DEF ToldAreTrue
<1> QED
    BY <1>9, <1>10, <1>12, <1>13, <1>14, <1>15, <1>17, <1>18

LEMMA InvariantIsKept == ListingInvariant /\ [Next]_vars => ListingInvariant'
<1>1. ASSUME ListingInvariant, UNCHANGED vars PROVE ListingInvariant'
  <2> USE <1>1 DEF ListingInvariant, vars
  <2>1. TypeOK' /\ Told' = Told /\ Paging' = Paging
      BY DEF TypeOK, Told, Paging
  <2>2. CountFollows' /\ PageMatchesCount' /\ CursorFollows' /\ InOrder' /\ SnapshotHolds'
      BY <2>1 DEF CountFollows, PageMatchesCount, CursorFollows, InOrder, SnapshotHolds
  <2>3. TimeFollows'
      BY <2>1 DEF TimeFollows, StampsGrow, ToldAreOld, ToldOnce
  <2>4. NoneIsMissed' /\ ToldAreTrue'
      BY <2>1 DEF NoneIsMissed, ToldAreTrue
  <2> QED
      BY <2>1, <2>2, <2>3, <2>4
<1> QED
    BY <1>1, Writing, Landing, Ticking, Opening, Counting, Failing, Reading DEF Next

THEOREM ListingInvariantHolds == Spec => []ListingInvariant
    BY InvariantAtStart, InvariantIsKept, PTL DEF Spec

-----------------------------------------------------------------------------
(* Types. *)
THEOREM ListingTypes == Spec => []TypeOK
    BY ListingInvariantHolds, PTL DEF ListingInvariant

(* The count and the page of a response agree (store.go 198-210, 243-257). *)
THEOREM ListingCountsItsPages == Spec => []PageMatchesCount
    BY ListingInvariantHolds, PTL DEF ListingInvariant

(* Across the pages of a session the tasks come in the order of their last *)
(* update, and none comes twice while nobody sets the clock back (store.go *)
(* 115, 213-222, cursor.go).                                               *)
THEOREM ListingDescends == ClockGoesForward => (Spec => []PagesDescend)
<1> SUFFICES ASSUME ClockGoesForward PROVE Spec => []PagesDescend
    OBVIOUS
<1>1. ListingInvariant => PagesDescend
    BY DEF ListingInvariant, TimeFollows, ToldOnce, InOrder, PagesDescend
<1> QED
    BY <1>1, ListingInvariantHolds, PTL

(* What shapeListedTask keeps of a task is what was asked for (store.go    *)
(* 296-328).                                                               *)
LEMMA ShapedAsAsked ==
    ASSUME NEW t \in Tasks, NEW d \in Document, TypeOK
    PROVE  ShownAsAsked(Shaped(t, d, filter), d)
<1> DEFINE n == IF filter.length = NoLength THEN DefaultHistory ELSE filter.length
           all == Len(d.history)
           cut == IF n >= 0 /\ all > n THEN all - n ELSE 0
           shown == Shaped(t, d, filter)
<1>1. d.history \in Seq(Nat) /\ all \in Nat
    BY ListingAssumption
<1>2. n \in Int
    BY ListingAssumption DEF TypeOK
<1>3. shown.history = SubSeq(d.history, cut + 1, all) /\ (shown.artifacts <=> (filter.artifacts /\ d.artifacts))
    BY DEF Shaped
<1> HIDE DEF n
<1>4. cut \in 0..all
    BY <1>1, <1>2
<1>5. n \in 0..(all - 1) => all - cut = n
    BY <1>1, <1>2
<1>6. ~(0 <= n /\ n <= all - 1) => cut = 0
    BY <1>1, <1>2
<1>7. n \notin 0..(all - 1) => all - cut = all
  <2>1. n \notin 0..(all - 1) => ~(0 <= n /\ n <= all - 1)
      BY <1>1, <1>2
  <2> QED
      BY <1>1, <1>6, <2>1
<1> HIDE DEF cut
<1>8. /\ Len(SubSeq(d.history, cut + 1, all)) = all - cut
      /\ \A i \in 1..(all - cut) : SubSeq(d.history, cut + 1, all)[i] = d.history[cut + i]
    BY <1>1, <1>4
<1> HIDE DEF shown, all
<1>9. /\ Len(shown.history) = all - cut
      /\ \A i \in 1..(all - cut) : shown.history[i] = d.history[all - (all - cut) + i]
    BY <1>1, <1>3, <1>4, <1>8
<1> QED
    BY <1>3, <1>5, <1>7, <1>9 DEF ShownAsAsked, n, all, shown

(* A finished session has listed every task that matches and that nobody   *)
(* touched, as it was asked for, whatever the clock did (store.go 205-257, *)
(* 296-328).                                                               *)
THEOREM ListingMissesNone == Spec => []UntouchedAreListed
<1>1. ASSUME ListingInvariant PROVE UntouchedAreListed
  <2> USE <1>1 DEF ListingInvariant
  <2>1. Told = UNION {pages[i].tasks : i \in 1..Len(pages)}
      BY DEF Told
  <2>2. ASSUME phase = "done"
        PROVE  {e \in Told : e.task \notin touched}
                  = {e \in Matching(rows, filter) : e.task \notin touched}
      BY <2>2 DEF NoneIsMissed, ToldAreTrue
  <2>3. \A i \in 1..Len(pages) : \A x \in pages[i].shown :
           x.task \notin touched => ShownAsAsked(x, rows[x.task].doc)
    <3> SUFFICES ASSUME NEW i \in 1..Len(pages), NEW x \in pages[i].shown, x.task \notin touched
                 PROVE  ShownAsAsked(x, rows[x.task].doc)
        OBVIOUS
    <3>1. rows[x.task] # NoRow /\ x = Shaped(x.task, rows[x.task].doc, filter)
        BY DEF ToldAreTrue
    <3>2. x.task \in Tasks
        BY ToldAreEntries DEF Response, Listed
    <3>3. rows[x.task].doc \in Document
        BY <3>1, <3>2 DEF TypeOK, Table, Row
    <3> DEFINE d == rows[x.task].doc
               t == x.task
    <3> HIDE DEF d, t
    <3>4. ShownAsAsked(Shaped(t, d, filter), d)
        BY <3>2, <3>3, ShapedAsAsked DEF d, t
    <3> QED
        BY <3>1, <3>4 DEF d, t
  <2> QED
      BY <2>1, <2>2, <2>3 DEF UntouchedAreListed
<1> QED
    BY <1>1, ListingInvariantHolds, PTL

-----------------------------------------------------------------------------
(* What the clock can do to a session. *)

(* If the clock is set back, a task may come twice: but only one that was  *)
(* committed to meanwhile, with an older timestamp than it was listed with *)
(* before; and the order across the pages holds all the same (store.go     *)
(* 115, 213-222, cursor.go).                                               *)
RepeatsAreTouched ==
    \A i, j \in 1..Len(pages) : i < j =>
       \A e \in pages[i].tasks, g \in pages[j].tasks :
          /\ Below(g, e)
          /\ g.task = e.task => g.task \in touched /\ g.stamp < e.stamp

(* Whatever the clock does, the pages descend, and a task nobody touched   *)
(* is listed once (store.go 115, 213-222, cursor.go).                      *)
THEOREM ListingRepeatsOnlyTouched == Spec => []RepeatsAreTouched
<1>1. ASSUME ListingInvariant PROVE RepeatsAreTouched
  <2> USE <1>1 DEF ListingInvariant
  <2> SUFFICES ASSUME NEW i \in 1..Len(pages), NEW j \in 1..Len(pages), i < j,
                      NEW e \in pages[i].tasks, NEW g \in pages[j].tasks
               PROVE  /\ Below(g, e)
                      /\ g.task = e.task => g.task \in touched /\ g.stamp < e.stamp
      BY DEF RepeatsAreTouched
  <2>1. Below(g, e)
      BY DEF InOrder
  <2>2. e \in Told /\ g \in Told /\ e \in Entry /\ g \in Entry
      BY ToldAreEntries DEF Told
  <2>3. e.task \in Int /\ e.stamp \in Int /\ g.stamp \in Int
    <3>1. \A f \in Entry : f.task \in Tasks /\ f.stamp \in 0..MaxClock
        BY DEF Entry
    <3>2. Tasks \subseteq Int
        BY ListingAssumption
    <3>3. \A f \in Entry : f.task \in Int /\ f.stamp \in Int
      <4> SUFFICES ASSUME NEW f \in Entry PROVE f.task \in Int /\ f.stamp \in Int
          OBVIOUS
      <4>1. f.task \in Int
          BY <3>1, <3>2
      <4>2. f.stamp \in Int
          BY <3>1
      <4> QED
          BY <4>1, <4>2
    <3> QED
        BY <2>2, <3>3
  <2>4. ASSUME g.task = e.task PROVE g.stamp < e.stamp
      BY <2>1, <2>3, <2>4 DEF Below
  <2>5. ASSUME g.task = e.task, g.task \notin touched PROVE g.stamp = e.stamp
    <3>1. e \in Matching(rows, filter) /\ g \in Matching(rows, filter)
        BY <2>2, <2>5 DEF ToldAreTrue
    <3>2. e.stamp = rows[e.task].stamp /\ g.stamp = rows[g.task].stamp
        BY <3>1, MatchingFacts DEF TypeOK
    <3> QED
        BY <2>5, <3>2
  <2> QED
      BY <2>1, <2>3, <2>4, <2>5
<1> QED
    BY <1>1, ListingInvariantHolds, PTL

-----------------------------------------------------------------------------
(* Owners. *)

(* A row keeps its owner: the writer of a row has that of the row, and     *)
(* what a transaction sees of a row has it too.                            *)
RowsKeepOwners ==
    /\ \A t \in Tasks : rows[t] # NoRow /\ writing[t] # NoRow =>
          writing[t].doc.owner = rows[t].doc.owner
    /\ \A t \in Tasks : snapshot[t] # NoRow =>
          rows[t] # NoRow /\ snapshot[t].doc.owner = rows[t].doc.owner

(* Every task on a page belongs to the owner who asked, not only when the  *)
(* page was read but whatever was committed since (store.go 107-117,       *)
(* 195-222, 296-299).                                                      *)
ListsOwnTasks ==
    \A i \in 1..Len(pages) : \A e \in pages[i].tasks :
       rows[e.task] # NoRow /\ rows[e.task].doc.owner = filter.owner

LEMMA OwnersAreKept ==
    ASSUME TypeOK, [Next]_vars, RowsKeepOwners, ListsOwnTasks
    PROVE  RowsKeepOwners' /\ ListsOwnTasks'
<1>1. CASE \E t \in Tasks : Write(t)
  <2>1. PICK t \in Tasks, d \in Document :
           /\ rows[t] # NoRow => rows[t].doc.owner = d.owner
           /\ writing' = [writing EXCEPT ![t] = [doc |-> d, stamp |-> clock]]
      BY <1>1 DEF Write, Stamp
  <2>2. \A k \in Tasks : writing'[k] = IF k = t THEN [doc |-> d, stamp |-> clock] ELSE writing[k]
      BY <2>1 DEF TypeOK, Table
  <2>3. UNCHANGED <<rows, filter, snapshot, pages>>
      BY <1>1 DEF Write, reading
  <2> QED
      BY <2>1, <2>2, <2>3 DEF RowsKeepOwners, ListsOwnTasks
<1>2. CASE \E t \in Tasks : Land(t)
  <2>1. PICK t \in Tasks : Land(t)
      BY <1>2
  <2>2. \A k \in Tasks : /\ rows'[k] = IF k = t THEN writing[t] ELSE rows[k]
                         /\ writing'[k] = IF k = t THEN NoRow ELSE writing[k]
      BY <2>1 DEF Land, TypeOK, Table
  <2>3. writing[t] # NoRow /\ UNCHANGED <<filter, snapshot, pages>>
      BY <2>1 DEF Land, reading
  <2>4. \A k \in Tasks : rows[k] # NoRow =>
           rows'[k] # NoRow /\ rows'[k].doc.owner = rows[k].doc.owner
      BY <2>2, <2>3 DEF RowsKeepOwners
  <2>5. RowsKeepOwners'
      BY <2>2, <2>3, <2>4 DEF RowsKeepOwners
  <2>6. \A i \in 1..Len(pages) : \A e \in pages[i].tasks : e.task \in Tasks
      BY ToldAreEntries DEF Entry
  <2>7. ListsOwnTasks'
      BY <2>3, <2>4, <2>6 DEF ListsOwnTasks
  <2> QED
      BY <2>5, <2>7
<1>3. CASE \E t \in Tasks : RollBack(t)
  <2>1. UNCHANGED <<rows, filter, snapshot, pages>>
      BY <1>3 DEF RollBack, reading
  <2>2. \A k \in Tasks : writing'[k] # NoRow => writing'[k] = writing[k]
      BY <1>3 DEF RollBack, TypeOK, Table
  <2> QED
      BY <2>1, <2>2 DEF RowsKeepOwners, ListsOwnTasks
<1>4. CASE Open
    BY <1>4 DEF Open, table, reading, RowsKeepOwners, ListsOwnTasks
<1>5. CASE Count
    BY <1>5 DEF Count, table, RowsKeepOwners, ListsOwnTasks
<1>6. CASE ListFails
    BY <1>6, NoRowsFacts DEF ListFails, EndRead, table, RowsKeepOwners, ListsOwnTasks
<1>7. CASE ReadPage
  <2> DEFINE rest == {e \in Matching(snapshot, filter) : AfterCursor(e, cursor)}
             fetched == FirstOf(rest, size + 1)
             listed == FirstOf(fetched, size)
             page == [tasks |-> listed,
                      shown |-> {Shaped(e.task, snapshot[e.task].doc, filter) : e \in listed},
                      total |-> total, size |-> size, more |-> Cardinality(fetched) > size]
  <2>1. snapshot' = NoRows /\ UNCHANGED <<rows, writing, filter>>
      BY <1>7 DEF ReadPage, EndRead, table
  <2>2. listed \subseteq Matching(snapshot, filter)
      BY DEF FirstOf
  <2>3. pages' = Append(pages, page) /\ page.tasks = listed
      BY <1>7 DEF ReadPage, Respond, Seen
  <2> HIDE DEF listed, page
  <2>4. \A e \in listed : e.task \in Tasks /\ snapshot[e.task] # NoRow
                          /\ snapshot[e.task].doc.owner = filter.owner
      BY <2>2, MatchingFacts DEF TypeOK, Matches, Entry
  <2>5. \A e \in listed : rows[e.task] # NoRow /\ rows[e.task].doc.owner = filter.owner
      BY <2>4 DEF RowsKeepOwners
  <2>6. /\ Len(pages') = Len(pages) + 1 /\ Len(pages) \in Nat
        /\ pages'[Len(pages) + 1].tasks = listed
        /\ \A i \in 1..Len(pages) : pages'[i] = pages[i]
      BY <2>3 DEF TypeOK
  <2>7. ListsOwnTasks'
      BY <2>1, <2>5, <2>6 DEF ListsOwnTasks
  <2> QED
      BY <2>1, <2>7, NoRowsFacts DEF RowsKeepOwners
<1>8. CASE UNCHANGED <<rows, writing, filter, snapshot, pages>>
    BY <1>8 DEF RowsKeepOwners, ListsOwnTasks
<1> QED
    BY <1>1, <1>2, <1>3, <1>4, <1>5, <1>6, <1>7, <1>8 DEF Next, vars, Tick, reading

(* A listing shows nobody else's tasks (store.go 107-117, 195-222,         *)
(* 296-299).                                                               *)
THEOREM ListingShowsOwnTasks == Spec => []ListsOwnTasks
<1>1. Init => RowsKeepOwners /\ ListsOwnTasks
    BY NoRowsFacts DEF Init, RowsKeepOwners, ListsOwnTasks
<1> QED
    BY <1>1, OwnersAreKept, ListingTypes, PTL DEF Spec

=============================================================================
