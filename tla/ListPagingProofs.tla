-------------------------- MODULE ListPagingProofs --------------------------
(***************************************************************************)
(* Proofs about ListPaging, for any tasks, dates, queries and edits: what  *)
(* a keyset walk returns while rows come, go and move under it.            *)
(*                                                                         *)
(* The library's induction over finite sets is stated for any operator,    *)
(* which the provers cannot instantiate.  What is needed of it, that a     *)
(* finite set of rows has a first and a last one, follows from the strict  *)
(* subsets of a finite set being well founded (Least).                     *)
(***************************************************************************)
EXTENDS ListPaging, FiniteSetTheorems, TLAPS

Int2 == [key : Int, id : Int]

\* The rows and the list they are asked for.
Typed ==
  /\ DOMAIN rows \subseteq Task /\ IsFiniteSet(DOMAIN rows)
  /\ \A t \in DOMAIN rows : rows[t] \in Row
  /\ query \in Query

\* t comes before u in the list.
Precedes(t, u) == Comes(query.dir, Place(query, t), Place(query, u))

-----------------------------------------------------------------------------
(* The order of a list.                                                    *)

\* A finite set has a least element under any strict total order.
LEMMA Least ==
  ASSUME NEW S, IsFiniteSet(S), S # {}, NEW R,
         \A x \in S : <<x, x>> \notin R,
         \A x, y, z \in S : <<x, y>> \in R /\ <<y, z>> \in R => <<x, z>> \in R,
         \A x, y \in S : x # y => <<x, y>> \in R \/ <<y, x>> \in R
  PROVE  \E m \in S : \A x \in S \ {m} : <<m, x>> \in R
<1> DEFINE Below(x) == {y \in S : <<y, x>> \in R}
           Family == {Below(x) : x \in S}
<1>1. IsWellFoundedOn(StrictSubsetOrdering(S), FiniteSubsetsOf(S))
  BY FS_StrictSubsetOrderingWellFounded
<1>2. FiniteSubsetsOf(S) = SUBSET S
  BY FS_FiniteSubsetsOfFinite
<1>3. Family \subseteq SUBSET S /\ Family # {}
  <2>1. PICK x : x \in S
    OBVIOUS
  <2>2. Below(x) \in Family
    BY <2>1
  <2>3. \A y \in S : Below(y) \in SUBSET S
    OBVIOUS
  <2> HIDE DEF Below
  <2> QED
    BY <2>2, <2>3
<1>4. PICK B \in Family : \A C \in Family : ~(<<C, B>> \in StrictSubsetOrdering(S))
  <2>1. IsWellFoundedOn(StrictSubsetOrdering(S), SUBSET S)
    BY <1>1, <1>2
  <2> HIDE DEF Family
  <2> QED
    BY <1>3, <2>1, WFMin
<1>5. PICK m \in S : B = Below(m)
  OBVIOUS
<1>6. ASSUME NEW x \in S, <<x, m>> \in R
      PROVE  FALSE
  <2>1. Below(x) \subseteq Below(m) /\ x \in Below(m) /\ x \notin Below(x)
    BY <1>6
  <2>2. Below(x) \in Family /\ Below(x) \subseteq S /\ Below(m) \subseteq S
    BY <1>6
  <2>3. <<Below(x), Below(m)>> \in StrictSubsetOrdering(S)
    BY <2>1, <2>2 DEF StrictSubsetOrdering
  <2> QED
    BY <1>4, <1>5, <2>2, <2>3
<1> QED
  BY <1>6

\* The order of a query is total: equal keys fall to the ids.
LEMMA ComesOrder ==
  ASSUME NEW dir \in {"asc", "desc"}
  PROVE  /\ \A a \in Int2 : ~Comes(dir, a, a)
         /\ \A a, b, c \in Int2 : Comes(dir, a, b) /\ Comes(dir, b, c) => Comes(dir, a, c)
         /\ \A a, b \in Int2 : a.id # b.id => Comes(dir, a, b) \/ Comes(dir, b, a)
         /\ \A a, b, c \in Int2 : ~Comes(dir, b, a) /\ Comes(dir, b, c) => Comes(dir, a, c)
  BY DEF Comes, Before, Int2

\* Ids are numbers.
LEMMA TasksAreInts == \A t \in Task : t \in Int
<1> SUFFICES ASSUME NEW t \in Task PROVE t \in Int
  OBVIOUS
<1>1. t \in Nat
  BY TasksAreIds
<1> QED
  BY <1>1

\* A row has a place in the list, and the cursor made of it is that place.
LEMMA PlaceIs ==
  ASSUME Typed, NEW t \in DOMAIN rows
  PROVE  /\ Place(query, t) \in Int2 /\ Place(query, t).id = t
         /\ SortValue(query.sort, Item(t)) = Place(query, t).key
         /\ Item(t).id = t /\ Item(t) \in [id : Task, due : Date \cup {Undated}]
<1>1. t \in Task /\ t \in Int /\ rows[t].due \in Date \cup {Undated}
  <2>1. t \in Task /\ rows[t] \in Row
    BY DEF Typed
  <2>2. t \in Int
    BY <2>1, TasksAreInts
  <2> QED
    BY <2>1, <2>2 DEF Row
<1>2. /\ Column(query.sort, t, rows[t]) \in Int
      /\ SortValue(query.sort, Item(t)) = Column(query.sort, t, rows[t])
  BY <1>1, DatesEnd, NowIsADate DEF Column, DueSort, SortValue, Item
<1> QED
  BY <1>1, <1>2 DEF Place, Int2, Item

\* What a query may ask.
LEMMA QueryIs ==
  ASSUME Typed
  PROVE  /\ query.dir \in {"asc", "desc"} /\ query.sort \in {"created", "due"}
         /\ query.limit \in Nat \ {0}
         /\ query.view \in {"all", "overdue"} \cup Status
  BY QueriesSort DEF Typed

\* So the rows are in one order.
LEMMA PrecedesOrder ==
  ASSUME Typed
  PROVE  /\ \A t \in DOMAIN rows : ~Precedes(t, t)
         /\ \A t, u, v \in DOMAIN rows : Precedes(t, u) /\ Precedes(u, v) => Precedes(t, v)
         /\ \A t, u \in DOMAIN rows : t # u => Precedes(t, u) \/ Precedes(u, t)
<1>1. \A t \in DOMAIN rows : Place(query, t) \in Int2 /\ Place(query, t).id = t
  BY PlaceIs
<1> QED
  BY <1>1, QueryIs, ComesOrder DEF Precedes

\* Rows have a first and a last one.
LEMMA Ends ==
  ASSUME Typed, NEW S \in SUBSET DOMAIN rows, S # {}
  PROVE  /\ \E m \in S : \A t \in S \ {m} : Precedes(m, t)
         /\ \E m \in S : \A t \in S \ {m} : Precedes(t, m)
<1>1. IsFiniteSet(S)
  BY FS_Subset DEF Typed
<1>2. PICK D : D = DOMAIN rows
  OBVIOUS
<1> DEFINE Up == {p \in D \X D : Precedes(p[1], p[2])}
           Down == {p \in D \X D : Precedes(p[2], p[1])}
<1>3. \A t, u \in S : /\ <<t, u>> \in Up <=> Precedes(t, u)
                      /\ <<t, u>> \in Down <=> Precedes(u, t)
  BY <1>2
<1> HIDE DEF Up, Down
<1>4. \E m \in S : \A t \in S \ {m} : <<m, t>> \in Up
  <2>1. /\ \A x \in S : <<x, x>> \notin Up
        /\ \A x, y, z \in S : <<x, y>> \in Up /\ <<y, z>> \in Up => <<x, z>> \in Up
        /\ \A x, y \in S : x # y => <<x, y>> \in Up \/ <<y, x>> \in Up
    BY <1>3, PrecedesOrder
  <2> QED
    BY <1>1, <2>1, Least
<1>5. \E m \in S : \A t \in S \ {m} : <<m, t>> \in Down
  <2>1. /\ \A x \in S : <<x, x>> \notin Down
        /\ \A x, y, z \in S : <<x, y>> \in Down /\ <<y, z>> \in Down => <<x, z>> \in Down
        /\ \A x, y \in S : x # y => <<x, y>> \in Down \/ <<y, x>> \in Down
    BY <1>3, PrecedesOrder
  <2> QED
    BY <1>1, <2>1, Least
<1> QED
  BY <1>3, <1>4, <1>5

-----------------------------------------------------------------------------
(* One page.                                                               *)

\* The first n rows of T are at most n, all of T if they are fewer, and
\* whatever comes before one of them is one of them.
LEMMA FirstIs ==
  ASSUME Typed, NEW T \in SUBSET DOMAIN rows, NEW n \in Nat
  PROVE  /\ First(n, query, T) \subseteq T
         /\ IsFiniteSet(First(n, query, T)) /\ Cardinality(First(n, query, T)) <= n
         /\ First(n, query, T) # T => Cardinality(First(n, query, T)) = n
         /\ \A t \in First(n, query, T), u \in T : Precedes(u, t) => u \in First(n, query, T)
<1> DEFINE Under(t) == {u \in T : Precedes(u, t)}
           F == {t \in T : Cardinality(Under(t)) < n}
<1>1. First(n, query, T) = F
  BY DEF First, Precedes
<1>2. IsFiniteSet(T) /\ IsFiniteSet(F)
  BY FS_Subset DEF Typed
<1>3. \A t \in T : IsFiniteSet(Under(t)) /\ Cardinality(Under(t)) \in Nat
  BY <1>2, FS_Subset, FS_CardinalityType
<1>4. Cardinality(F) \in Nat
  BY <1>2, FS_CardinalityType
<1>5. ASSUME NEW t \in F, NEW u \in T, Precedes(u, t)
      PROVE  u \in F
  <2>1. Under(u) \subseteq Under(t)
    BY <1>5, PrecedesOrder
  <2>2. Cardinality(Under(u)) <= Cardinality(Under(t))
    BY <1>3, <2>1, FS_Subset
  <2> QED
    BY <1>3, <2>2
<1>6. Cardinality(F) <= n
  <2>1. CASE F = {}
    <3>1. Cardinality(F) = 0
      BY <2>1, FS_EmptySet
    <3> QED
      BY <3>1
  <2>2. CASE F # {}
    <3>1. PICK l \in F : \A t \in F \ {l} : Precedes(t, l)
      BY <2>2, Ends
    <3>2. F \ {l} \subseteq Under(l)
      BY <3>1
    <3>3. Cardinality(F \ {l}) <= Cardinality(Under(l))
      BY <1>3, <3>2, FS_Subset
    <3>4. Cardinality(F \ {l}) = Cardinality(F) - 1
      BY <1>2, FS_RemoveElement
    <3>5. Cardinality(Under(l)) \in Nat /\ Cardinality(Under(l)) < n
      BY <1>3
    <3> HIDE DEF F, Under
    <3> QED
      BY <1>4, <3>3, <3>4, <3>5
  <2> QED
    BY <2>1, <2>2
<1>7. ASSUME F # T
      PROVE  Cardinality(F) >= n
  <2>1. PICK m \in T \ F : \A t \in (T \ F) \ {m} : Precedes(m, t)
    <3>1. T \ F \in SUBSET DOMAIN rows /\ T \ F # {}
      BY <1>7
    <3> QED
      BY <3>1, Ends
  <2>2. Under(m) \subseteq F
    BY <2>1, PrecedesOrder
  <2>3. Cardinality(Under(m)) <= Cardinality(F)
    BY <1>2, <2>2, FS_Subset
  <2> QED
    BY <1>3, <1>4, <2>1, <2>3
<1> QED
  BY <1>1, <1>2, <1>4, <1>5, <1>6, <1>7

\* The rows a page after c holds, and where it ends.
IsPage(page, kept, c) ==
  /\ page \in Page /\ page.items = {Item(t) : t \in kept}
  /\ Cardinality(page.items) <= query.limit
  /\ page.next = NoCursor => kept = Beyond(query, c)
  /\ page.next # NoCursor =>
       /\ Cardinality(page.items) = query.limit
       /\ \E l \in kept :
            /\ page.next = CursorAt(query, Item(l))
            /\ \A t \in Beyond(query, c) : t \in kept <=> ~Precedes(l, t)

\* The last row of a page.
LEMMA LastIs ==
  ASSUME Typed, NEW S \in SUBSET DOMAIN rows, S # {}
  PROVE  Last(query, S) \in S /\ \A t \in S \ {Last(query, S)} : Precedes(t, Last(query, S))
<1>1. \E m \in S : \A t \in S \ {m} : Precedes(t, m)
  BY Ends
<1> QED
  BY <1>1 DEF Last, Precedes

\* The items of a page are as many as its rows.
LEMMA ItemsCounted ==
  ASSUME Typed, NEW S \in SUBSET DOMAIN rows
  PROVE  Cardinality({Item(t) : t \in S}) = Cardinality(S)
<1>1. IsFiniteSet(S)
  BY FS_Subset DEF Typed
<1> DEFINE f == [t \in S |-> Item(t)]
           T == {Item(t) : t \in S}
<1>2. \A t \in S : Item(t).id = t
  BY DEF Item
<1>3. f \in Bijection(S, T)
  BY <1>2 DEF Bijection, Injection, IsInjective, Surjection
<1> QED
  BY <1>1, <1>3, FS_Bijection DEF ExistsBijection

\* One row more than fits is read, so a page without a next one is the rest of
\* the list, and any other is full.
LEMMA PageIs ==
  ASSUME Typed, NEW c
  PROVE  \E kept \in SUBSET Beyond(query, c) : IsPage(PageOf(query, c), kept, c)
<1> DEFINE B == Beyond(query, c)
           got == First(query.limit + 1, query, B)
           kept == First(query.limit, query, got)
<1>1. B \in SUBSET DOMAIN rows
  BY DEF Beyond
<1>2. query.limit \in Nat \ {0} /\ query.limit + 1 \in Nat
  BY QueryIs
<1>3. /\ got \subseteq B /\ IsFiniteSet(got)
      /\ got # B => Cardinality(got) = query.limit + 1
      /\ \A t \in got, u \in B : Precedes(u, t) => u \in got
  BY <1>1, <1>2, FirstIs
<1>4. /\ kept \subseteq got /\ IsFiniteSet(kept) /\ Cardinality(kept) <= query.limit
      /\ kept # got => Cardinality(kept) = query.limit
      /\ \A t \in kept, u \in got : Precedes(u, t) => u \in kept
  BY <1>1, <1>2, <1>3, FirstIs
<1>5. Cardinality(kept) \in Nat
  BY <1>4, FS_CardinalityType
<1>6. kept = got => kept = B
  BY <1>2, <1>3, <1>4, <1>5
<1>7. PICK page : page = PageOf(query, c)
  OBVIOUS
<1>8. /\ page.items = {Item(t) : t \in kept}
      /\ page.next = IF got = kept THEN NoCursor ELSE CursorAt(query, Item(Last(query, kept)))
      /\ page = [items |-> page.items, next |-> page.next]
  BY <1>7 DEF PageOf
<1>9. Cardinality(page.items) = Cardinality(kept)
  BY <1>1, <1>3, <1>4, <1>8, ItemsCounted
<1>10. page.items \in SUBSET [id : Task, due : Date \cup {Undated}]
  BY <1>1, <1>3, <1>4, <1>8, PlaceIs
<1>11. ASSUME got # kept
       PROVE  \E l \in kept :
                /\ page.next = CursorAt(query, Item(l))
                /\ \A t \in B : t \in kept <=> ~Precedes(l, t)
  <2>1. kept # {}
    BY <1>2, <1>4, <1>11, FS_EmptySet
  <2>2. kept \in SUBSET DOMAIN rows
    BY <1>1, <1>3, <1>4
  <2>3. PICK l \in kept : l = Last(query, kept) /\ \A t \in kept \ {l} : Precedes(t, l)
    BY <2>1, <2>2, LastIs
  <2>4. ASSUME NEW t \in B
        PROVE  t \in kept <=> ~Precedes(l, t)
    <3>1. t \in kept => ~Precedes(l, t)
      BY <1>1, <2>2, <2>3, PrecedesOrder
    <3>2. ~Precedes(l, t) => t = l \/ Precedes(t, l)
      BY <1>1, <2>2, <2>3, PrecedesOrder
    <3>3. Precedes(t, l) => t \in kept
      BY <1>3, <1>4, <2>3
    <3> QED
      BY <2>3, <3>1, <3>2, <3>3
  <2> QED
    BY <1>8, <1>11, <2>3, <2>4
<1>12. ASSUME NEW l \in kept
       PROVE  CursorAt(query, Item(l)) \in Cursor /\ CursorAt(query, Item(l)) # NoCursor
  <2>1. l \in DOMAIN rows /\ l \in Task /\ l # 0
    BY <1>1, <1>3, <1>4, <1>12, TasksAreIds DEF Typed
  <2>2. SortValue(query.sort, Item(l)) \in Int /\ Item(l).id = l
    BY <2>1, PlaceIs DEF Int2
  <2> QED
    BY <2>1, <2>2, QueryIs DEF CursorAt, Cursor, NoCursor
<1>13. page \in Page
  <2>1. page.next \in Cursor \cup {NoCursor}
    BY <1>8, <1>11, <1>12
  <2> QED
    BY <1>8, <1>10, <2>1 DEF Page
<1>14. IsPage(page, kept, c)
  <2>1. got = kept => page.next = NoCursor
    BY <1>8
  <2>2. got # kept => page.next # NoCursor
    BY <1>11, <1>12
  <2> HIDE DEF got, kept
  <2> QED
    BY <1>4, <1>6, <1>8, <1>9, <1>11, <1>13, <2>1, <2>2 DEF IsPage
<1> QED
  BY <1>3, <1>4, <1>7, <1>14

-----------------------------------------------------------------------------
(* A walk of pages.                                                        *)

\* Where an item was when it was read.
At(a) == [key |-> SortValue(query.sort, a), id |-> a.id]

\* The pages of a walk: full but for the last, of rows there are, each once;
\* each begins past the one before; and the rows that stayed where they were
\* are on the one page that came past them.
Walk(ps, gone) ==
  /\ ps \in Seq(Page)
  /\ \A i \in DOMAIN ps :
       /\ Cardinality(ps[i].items) <= query.limit
       /\ i < Len(ps) \/ ps[i].next # NoCursor => Cardinality(ps[i].items) = query.limit
       /\ \A a \in ps[i].items : a.id \in DOMAIN rows
       /\ \A a, b \in ps[i].items : a.id = b.id => a = b
  /\ InOrder(ps)
  /\ (ps # <<>> /\ LastOf(ps).next # NoCursor) =>
       LET next == LastOf(ps).next
       IN /\ next.sort = query.sort /\ next.dir = query.dir
          /\ \A i \in DOMAIN ps : \A a \in ps[i].items : ~Comes(query.dir, next, At(a))
  /\ \A t \in DOMAIN rows \ gone :
       \/ Reached(ps, t) /\ \E i \in DOMAIN ps : PagesWith(ps, t) = {i}
       \/ ~Reached(ps, t) /\ PagesWith(ps, t) = {}

IInv ==
  /\ Typed
  /\ Walk(pages, moved) /\ Walk(fresh, moving)
  /\ fresh # <<>> => LastOf(fresh).next # NoCursor
  /\ fetching = "more" => pages # <<>> /\ LastOf(pages).next # NoCursor
  /\ fetching \in {"idle", "more", "refetch"} /\ told \in BOOLEAN /\ passed \in BOOLEAN
  /\ moved \subseteq Task /\ moving \subseteq Task /\ edits \in 0..MaxEdits

\* A cursor stands at a place in the list.
LEMMA CursorSpot ==
  ASSUME Typed, NEW c \in Cursor
  PROVE  \E spot \in Int2 : \A x : Comes(query.dir, c, x) <=> Comes(query.dir, spot, x)
<1>1. c.key \in Int /\ c.id \in Task
  BY DEF Cursor
<1>2. c.id \in Int
  BY <1>1, TasksAreInts
<1>3. PICK spot \in Int2 : spot = [key |-> c.key, id |-> c.id]
  BY <1>1, <1>2 DEF Int2
<1>4. spot.key = c.key /\ spot.id = c.id
  BY <1>3
<1> QED
  BY <1>4 DEF Comes, Before

\* An item is read where it is in the list.
LEMMA AtIs ==
  ASSUME Typed
  PROVE  /\ \A t \in DOMAIN rows : At(Item(t)) = Place(query, t)
         /\ \A page \in Page : \A a \in page.items : At(a) \in Int2
<1>1. ASSUME NEW t \in DOMAIN rows
      PROVE  At(Item(t)) = Place(query, t)
  BY PlaceIs DEF At, Place
<1>2. ASSUME NEW page \in Page, NEW a \in page.items
      PROVE  At(a) \in Int2
  <2>1. a.id \in Task /\ a.due \in Date \cup {Undated}
    BY <1>2 DEF Page
  <2>2. a.id \in Int
    BY <2>1, TasksAreInts
  <2>3. SortValue(query.sort, a) \in Int
    BY <2>1, <2>2, DatesEnd, NowIsADate DEF SortValue
  <2> QED
    BY <2>2, <2>3 DEF At, Int2
<1> QED
  BY <1>1, <1>2

\* Before its first page a walk has come past nothing.
LEMMA EmptyWalk ==
  ASSUME Typed, NEW gone
  PROVE  Walk(<<>>, gone)
  BY DEF Walk, InOrder, Reached, PagesWith

\* The cursor the next page of a walk is asked with.
NextOf(ps) == IF ps = <<>> THEN NoCursor ELSE LastOf(ps).next

\* A walk goes on with the page after its last one.
LEMMA PageAdds ==
  ASSUME Typed, NEW ps, NEW gone, Walk(ps, gone), ps # <<>> => NextOf(ps) # NoCursor
  PROVE  Walk(Append(ps, PageOf(query, NextOf(ps))), gone)
<1>1. PICK c, page : c = NextOf(ps) /\ page = PageOf(query, c)
  OBVIOUS
<1>2. PICK kept \in SUBSET Beyond(query, c) : IsPage(page, kept, c)
  BY <1>1, PageIs
<1>3. kept \subseteq DOMAIN rows /\ Beyond(query, c) \subseteq DOMAIN rows
  BY DEF Beyond
<1>4. PICK n \in Nat : n = Len(ps) /\ DOMAIN ps = 1..n /\ ps \in Seq(Page)
  BY DEF Walk
<1>5. PICK got \in Seq(Page) :
        /\ got = Append(ps, page) /\ Len(got) = n + 1 /\ DOMAIN got = 1..(n + 1)
        /\ \A i \in 1..n : got[i] = ps[i]
        /\ got[n + 1] = page
  <2>1. page \in Page
    BY <1>2 DEF IsPage
  <2>2. Append(ps, page) \in Seq(Page) /\ Len(Append(ps, page)) = n + 1
    BY <1>4, <2>1
  <2>3. \A i \in 1..n : Append(ps, page)[i] = ps[i]
    BY <1>4, <2>1
  <2>4. Append(ps, page)[n + 1] = page
    BY <1>4, <2>1
  <2>5. DOMAIN Append(ps, page) = 1..(n + 1)
    BY <2>2
  <2> QED
    BY <2>2, <2>3, <2>4, <2>5
<1>6. LastOf(got) = page /\ got # <<>>
  BY <1>5 DEF LastOf
<1>7. /\ page \in Page /\ page.items = {Item(t) : t \in kept}
      /\ \A t \in kept : Item(t).id = t /\ At(Item(t)) = Place(query, t)
  BY <1>2, <1>3, AtIs DEF IsPage, Item
<1>8. query.dir \in {"asc", "desc"}
  BY QueryIs
<1>9. \A t \in DOMAIN rows : Place(query, t) \in Int2
  BY PlaceIs
<1>10. ps # <<>> => c \in Cursor /\ c # NoCursor /\ c = LastOf(ps).next
  <2>1. ASSUME ps # <<>>
        PROVE  ps[n] \in Page
    BY <1>4, <2>1
  <2> QED
    BY <1>1, <1>4, <2>1 DEF NextOf, LastOf, Page
<1>11. ASSUME NEW i \in DOMAIN ps, NEW a \in ps[i].items, NEW t \in kept
       PROVE  Comes(query.dir, At(a), Place(query, t))
  <2>1. ps # <<>>
    BY <1>11
  <2>2. ~Comes(query.dir, c, At(a))
    BY <1>10, <1>11, <2>1 DEF Walk
  <2>3. Comes(query.dir, c, Place(query, t))
    BY <1>10, <1>11, <2>1 DEF Beyond
  <2>4. At(a) \in Int2
    BY <1>4, <1>11, AtIs
  <2>5. PICK spot \in Int2 : \A x : Comes(query.dir, c, x) <=> Comes(query.dir, spot, x)
    BY <1>10, <2>1, CursorSpot
  <2> QED
    BY <1>3, <1>8, <1>9, <1>11, <2>2, <2>3, <2>4, <2>5, ComesOrder
<1>12. \A i \in DOMAIN got :
         /\ Cardinality(got[i].items) <= query.limit
         /\ i < Len(got) \/ got[i].next # NoCursor => Cardinality(got[i].items) = query.limit
         /\ \A a \in got[i].items : a.id \in DOMAIN rows
         /\ \A a, b \in got[i].items : a.id = b.id => a = b
  <2>1. ASSUME NEW i \in 1..n
        PROVE  /\ Cardinality(ps[i].items) <= query.limit
               /\ Cardinality(ps[i].items) = query.limit
               /\ \A a \in ps[i].items : a.id \in DOMAIN rows
               /\ \A a, b \in ps[i].items : a.id = b.id => a = b
    <3>1. i < n \/ ps[i].next # NoCursor
      BY <1>4, <1>10, <2>1 DEF LastOf
    <3> QED
      BY <1>4, <2>1, <3>1 DEF Walk
  <2>2. /\ Cardinality(page.items) <= query.limit
        /\ page.next # NoCursor => Cardinality(page.items) = query.limit
        /\ \A a \in page.items : a.id \in DOMAIN rows
        /\ \A a, b \in page.items : a.id = b.id => a = b
    BY <1>2, <1>3, <1>7 DEF IsPage
  <2> QED
    BY <1>4, <1>5, <2>1, <2>2
<1>13. InOrder(got)
  <2>1. SUFFICES ASSUME NEW i \in 1..(n + 1), NEW j \in 1..(n + 1), i < j,
                        NEW a \in got[i].items, NEW b \in got[j].items
                 PROVE  Comes(query.dir, At(a), At(b))
    BY <1>5 DEF InOrder, At
  <2>2. CASE j <= n
    <3>1. i \in DOMAIN ps /\ j \in DOMAIN ps /\ got[i] = ps[i] /\ got[j] = ps[j]
      BY <1>4, <1>5, <2>1, <2>2
    <3>2. InOrder(ps)
      BY DEF Walk
    <3> QED
      BY <2>1, <3>1, <3>2 DEF InOrder, At
  <2>3. CASE j = n + 1
    <3>1. i \in DOMAIN ps /\ a \in ps[i].items /\ b \in page.items
      BY <1>4, <1>5, <2>1, <2>3
    <3>2. PICK t \in kept : b = Item(t)
      BY <1>7, <3>1
    <3> QED
      BY <1>7, <1>11, <3>1, <3>2
  <2> QED
    BY <2>2, <2>3
<1>14. ASSUME page.next # NoCursor
       PROVE  \E l \in kept :
                /\ page.next.sort = query.sort /\ page.next.dir = query.dir
                /\ \A x : Comes(query.dir, page.next, x) <=> Comes(query.dir, Place(query, l), x)
                /\ \A t \in Beyond(query, c) : t \in kept <=> ~Precedes(l, t)
  <2>1. PICK l \in kept :
          /\ page.next = CursorAt(query, Item(l))
          /\ \A t \in Beyond(query, c) : t \in kept <=> ~Precedes(l, t)
    BY <1>2, <1>14 DEF IsPage
  <2>2. /\ page.next.sort = query.sort /\ page.next.dir = query.dir
        /\ page.next.key = Place(query, l).key /\ page.next.id = Place(query, l).id
    BY <1>3, <2>1, PlaceIs DEF CursorAt
  <2> QED
    BY <2>1, <2>2 DEF Comes, Before
<1>15. ASSUME page.next # NoCursor
       PROVE  /\ page.next.sort = query.sort /\ page.next.dir = query.dir
              /\ \A i \in DOMAIN got : \A a \in got[i].items :
                   ~Comes(query.dir, page.next, At(a))
  <2>1. PICK l \in kept :
          /\ page.next.sort = query.sort /\ page.next.dir = query.dir
          /\ \A x : Comes(query.dir, page.next, x) <=> Comes(query.dir, Place(query, l), x)
          /\ \A t \in Beyond(query, c) : t \in kept <=> ~Precedes(l, t)
    BY <1>14, <1>15
  <2>2. ASSUME NEW i \in 1..n, NEW a \in ps[i].items
        PROVE  ~Comes(query.dir, Place(query, l), At(a))
    <3>1. Comes(query.dir, At(a), Place(query, l)) /\ At(a) \in Int2
      BY <1>4, <1>11, <2>2, AtIs
    <3> QED
      BY <1>3, <1>8, <1>9, <3>1, ComesOrder
  <2>3. ASSUME NEW a \in page.items
        PROVE  ~Comes(query.dir, Place(query, l), At(a))
    BY <1>7, <2>1, <2>3 DEF Precedes
  <2> QED
    BY <1>5, <2>1, <2>2, <2>3
<1>16. ASSUME NEW t \in DOMAIN rows \ gone
       PROVE  \/ Reached(got, t) /\ \E i \in DOMAIN got : PagesWith(got, t) = {i}
              \/ ~Reached(got, t) /\ PagesWith(got, t) = {}
  <2>1. /\ t \in kept => PagesWith(got, t) = PagesWith(ps, t) \cup {n + 1}
        /\ t \notin kept => PagesWith(got, t) = PagesWith(ps, t)
    <3>1. (\E a \in page.items : a.id = t) <=> t \in kept
      BY <1>7
    <3> QED
      BY <1>4, <1>5, <3>1 DEF PagesWith
  <2>2. \/ Reached(ps, t) /\ \E i \in DOMAIN ps : PagesWith(ps, t) = {i}
        \/ ~Reached(ps, t) /\ PagesWith(ps, t) = {}
    BY <1>16 DEF Walk
  <2>3. CASE t \notin Beyond(query, c)
    <3>1. PagesWith(got, t) = PagesWith(ps, t)
      BY <2>1, <2>3
    <3>2. Selects(query.view, rows[t]) =>
            /\ c # NoCursor /\ ps # <<>> /\ c \in Cursor
            /\ ~Comes(query.dir, c, Place(query, t))
      BY <1>1, <1>10, <1>16, <2>3 DEF Beyond, NextOf
    <3>3. ASSUME Selects(query.view, rows[t]), page.next # NoCursor
          PROVE  ~Comes(query.dir, page.next, Place(query, t))
      <4>1. PICK l \in kept :
              \A x : Comes(query.dir, page.next, x) <=> Comes(query.dir, Place(query, l), x)
        BY <1>14, <3>3
      <4>2. Comes(query.dir, c, Place(query, l))
        BY <3>2, <3>3 DEF Beyond
      <4>3. PICK spot \in Int2 : \A x : Comes(query.dir, c, x) <=> Comes(query.dir, spot, x)
        BY <3>2, <3>3, CursorSpot
      <4> QED
        BY <1>3, <1>8, <1>9, <1>16, <3>2, <3>3, <4>1, <4>2, <4>3, ComesOrder
    <3>4. Reached(got, t) <=> Reached(ps, t)
      BY <1>6, <1>10, <3>2, <3>3 DEF Reached
    <3> QED
      BY <1>4, <1>5, <2>2, <3>1, <3>4
  <2>4. CASE t \in Beyond(query, c)
    <3>1. Selects(query.view, rows[t]) /\ ~Reached(ps, t)
      BY <1>10, <2>4 DEF Beyond, Reached
    <3>2. PagesWith(ps, t) = {}
      BY <2>2, <3>1
    <3>3. Reached(got, t) <=> t \in kept
      <4>1. CASE page.next = NoCursor
        BY <1>2, <1>6, <2>4, <3>1, <4>1 DEF IsPage, Reached
      <4>2. CASE page.next # NoCursor
        BY <1>6, <1>14, <2>4, <3>1, <4>2 DEF Reached, Precedes
      <4> QED
        BY <4>1, <4>2
    <3> QED
      BY <1>4, <1>5, <2>1, <3>2, <3>3
  <2> QED
    BY <2>3, <2>4
<1> QED
  BY <1>1, <1>5, <1>6, <1>12, <1>13, <1>15, <1>16 DEF Walk

\* While the rows stand, a walk stays as it is.
LEMMA SameWalk ==
  ASSUME NEW ps, NEW gone, Walk(ps, gone), UNCHANGED <<rows, query>>
  PROVE  Walk(ps, gone)'
  BY DEF Walk, InOrder, At, Reached, Place, PagesWith

-----------------------------------------------------------------------------
(* The steps.                                                              *)

\* A row is put: it is one that has moved, or one the list sees where it was.
LEMMA PutWalk ==
  ASSUME Typed, NEW t \in Task, NEW row \in Row, NEW gone, NEW gone2, NEW ps, Walk(ps, gone),
         rows' = [u \in DOMAIN rows \cup {t} |-> IF u = t THEN row ELSE rows[u]],
         query' = query,
         gone2 = gone \cup
           (IF Listed(t, row) = (IF t \in DOMAIN rows THEN Listed(t, rows[t]) ELSE {})
            THEN {} ELSE {t})
  PROVE  Walk(ps, gone2)'
<1>1. /\ DOMAIN rows' = DOMAIN rows \cup {t} /\ rows'[t] = row
      /\ \A u \in DOMAIN rows \ {t} : rows'[u] = rows[u]
  OBVIOUS
<1>2. ASSUME NEW u \in DOMAIN rows' \ gone2
      PROVE  \/ Reached(ps, u)' /\ \E i \in DOMAIN ps : PagesWith(ps, u) = {i}
             \/ ~Reached(ps, u)' /\ PagesWith(ps, u) = {}
  <2>1. CASE u \in DOMAIN rows
    <3>1. \/ Reached(ps, u) /\ \E i \in DOMAIN ps : PagesWith(ps, u) = {i}
          \/ ~Reached(ps, u) /\ PagesWith(ps, u) = {}
      BY <1>2, <2>1 DEF Walk
    <3>2. /\ Selects(query.view, rows'[u]) <=> Selects(query.view, rows[u])
          /\ Selects(query.view, rows[u]) =>
               Column(query.sort, u, rows'[u]) = Column(query.sort, u, rows[u])
      <4>1. CASE u # t
        BY <1>1, <2>1, <4>1
      <4>2. CASE u = t
        <5>1. Listed(t, row) = Listed(t, rows[t])
          BY <1>2, <2>1, <4>2
        <5> QED
          BY <1>1, <4>2, <5>1 DEF Listed
      <4> QED
        BY <4>1, <4>2
    <3>3. Reached(ps, u)' <=> Reached(ps, u)
      BY <3>2 DEF Reached, Place
    <3> QED
      BY <3>1, <3>3
  <2>2. CASE u \notin DOMAIN rows
    <3>1. u = t /\ Listed(t, row) = {}
      BY <1>1, <1>2, <2>2
    <3>2. ~Reached(ps, u)'
      BY <1>1, <3>1 DEF Reached, Listed
    <3>3. PagesWith(ps, u) = {}
      BY <2>2 DEF Walk, PagesWith
    <3> QED
      BY <3>2, <3>3
  <2> QED
    BY <2>1, <2>2
<1>3. InOrder(ps)'
  BY DEF Walk, InOrder
<1> QED
  BY <1>1, <1>2, <1>3 DEF Walk, At, PagesWith

\* An edit puts a row, and what is on screen is told of it later.
LEMMA PutKeeps ==
  ASSUME IInv, NEW t \in Task, NEW row \in Row, Put(t, row)
  PROVE  IInv'
<1>1. PICK shift :
        /\ shift = IF Listed(t, row) = (IF t \in DOMAIN rows THEN Listed(t, rows[t]) ELSE {})
                   THEN {} ELSE {t}
        /\ moved' = moved \cup shift /\ moving' = moving \cup shift
  BY DEF Put
<1>2. /\ rows' = [u \in DOMAIN rows \cup {t} |-> IF u = t THEN row ELSE rows[u]]
      /\ UNCHANGED <<query, pages, fresh, fetching, passed>> /\ told' = FALSE
      /\ edits < MaxEdits /\ edits' = edits + 1
  BY DEF Put
<1>3. /\ DOMAIN rows' = DOMAIN rows \cup {t} /\ rows'[t] = row
      /\ \A u \in DOMAIN rows \ {t} : rows'[u] = rows[u]
  BY <1>2
<1>4. Typed'
  <2>1. IsFiniteSet(DOMAIN rows \cup {t})
    BY FS_AddElement DEF IInv, Typed
  <2> QED
    BY <1>2, <1>3, <2>1 DEF IInv, Typed
<1>5. Walk(pages, moved)'
  <2>1. PICK ps, gone, gone2 : ps = pages /\ gone = moved /\ gone2 = moved'
    OBVIOUS
  <2>2. Walk(ps, gone2)'
    BY <1>1, <1>2, <2>1, PutWalk DEF IInv
  <2> QED
    BY <1>2, <2>1, <2>2 DEF Walk
<1>6. Walk(fresh, moving)'
  <2>1. PICK ps, gone, gone2 : ps = fresh /\ gone = moving /\ gone2 = moving'
    OBVIOUS
  <2>2. Walk(ps, gone2)'
    BY <1>1, <1>2, <2>1, PutWalk DEF IInv
  <2> QED
    BY <1>2, <2>1, <2>2 DEF Walk
<1>7. moved' \subseteq Task /\ moving' \subseteq Task /\ edits' \in 0..MaxEdits
  BY <1>1, <1>2, EditsEnd DEF IInv
<1> QED
  BY <1>2, <1>4, <1>5, <1>6, <1>7 DEF IInv, LastOf

\* Every edit puts a row of its kind.
LEMMA EditKeeps ==
  ASSUME IInv, Edit
  PROVE  IInv'
<1>1. ASSUME NEW t \in DOMAIN rows
      PROVE  t \in Task /\ rows[t] \in Row
  BY DEF IInv, Typed
<1>2. ASSUME NEW t \in Task, NEW due \in Date \cup {Undated}, NEW s \in Asked, Create(t, due, s)
      PROVE  IInv'
  <2>1. [due |-> due, status |-> s, deleted |-> FALSE] \in Row
    BY DEF Row
  <2> QED
    BY <1>2, <2>1, PutKeeps DEF Create
<1>3. ASSUME NEW t \in DOMAIN rows, NEW due \in Date \cup {Undated}, NEW s \in Asked,
             Update(t, due, s)
      PROVE  IInv'
  <2>1. [rows[t] EXCEPT !.due = due, !.status = s] \in Row
    BY <1>1 DEF Row
  <2> QED
    BY <1>1, <1>3, <2>1, PutKeeps DEF Update
<1>4. ASSUME NEW t \in DOMAIN rows, Delete(t) \/ Restore(t)
      PROVE  IInv'
  <2>1. /\ [rows[t] EXCEPT !.deleted = TRUE] \in Row
        /\ [rows[t] EXCEPT !.deleted = FALSE] \in Row
    BY <1>1 DEF Row
  <2> QED
    BY <1>1, <1>4, <2>1, PutKeeps DEF Delete, Restore
<1> QED
  BY <1>2, <1>3, <1>4 DEF Edit

\* The rows stand, and the walks are the ones named.
LEMMA Reads ==
  ASSUME IInv, UNCHANGED <<rows, query, edits>>,
         NEW ps, NEW gone, Walk(ps, gone), pages' = ps, moved' = gone,
         NEW fs, NEW going, Walk(fs, going), fresh' = fs, moving' = going,
         gone \subseteq Task, going \subseteq Task,
         fs # <<>> => LastOf(fs).next # NoCursor,
         fetching' \in {"idle", "more", "refetch"}, told' \in BOOLEAN, passed' \in BOOLEAN,
         fetching' = "more" => ps # <<>> /\ LastOf(ps).next # NoCursor
  PROVE  IInv'
<1>1. Walk(ps, gone)' /\ Walk(fs, going)'
  BY SameWalk
<1>2. Walk(pages, moved)' /\ Walk(fresh, moving)'
  BY <1>1 DEF Walk
<1>3. Typed'
  BY DEF IInv, Typed
<1> QED
  BY <1>2, <1>3 DEF IInv, LastOf

\* A refetch starts over.
LEMMA InvalidateKeeps ==
  ASSUME IInv, Invalidate
  PROVE  IInv'
<1>1. Walk(<<>>, {}) /\ Walk(pages, moved)
  BY EmptyWalk DEF IInv
<1> QED
  <2>1. /\ UNCHANGED <<rows, query, edits>> /\ pages' = pages /\ moved' = moved
        /\ fresh' = <<>> /\ moving' = {} /\ fetching' = "refetch"
        /\ told' = TRUE /\ passed' = FALSE /\ moved \subseteq Task
    BY DEF Invalidate, Restart, IInv
  <2>2. PICK ps, gone : ps = pages /\ gone = moved
    OBVIOUS
  <2>3. Walk(ps, gone) /\ gone \subseteq Task /\ pages' = ps /\ moved' = gone
    BY <1>1, <2>1, <2>2
  <2>4. fetching' # "more" /\ fetching' \in {"idle", "more", "refetch"}
        /\ told' \in BOOLEAN /\ passed' \in BOOLEAN
    BY <2>1
  <2> QED
    BY <1>1, <2>1, <2>3, <2>4, Reads

\* A page is fetched again, and the last one replaces what is on screen.
LEMMA RefetchKeeps ==
  ASSUME IInv, Refetch
  PROVE  IInv'
<1>1. PICK page, got : /\ page = PageOf(query, NextFresh) /\ got = Append(fresh, page)
                       /\ IF page.next = NoCursor \/ Len(got) >= Len(pages)
                          THEN /\ pages' = got /\ moved' = moving
                               /\ fetching' = "idle" /\ fresh' = <<>> /\ moving' = {}
                          ELSE fresh' = got /\ UNCHANGED <<pages, moved, fetching, moving>>
  BY DEF Refetch
<1>2. Walk(got, moving)
  <2>1. NextFresh = NextOf(fresh)
    BY DEF NextFresh, NextOf
  <2>2. fresh # <<>> => NextOf(fresh) # NoCursor
    BY DEF IInv, NextOf
  <2> QED
    BY <1>1, <2>1, <2>2, PageAdds DEF IInv
<1>3. LastOf(got) = page
  <2>1. fresh \in Seq(Page) /\ got \in Seq(Page)
    BY <1>2 DEF IInv, Walk
  <2>2. Len(got) = Len(fresh) + 1 /\ got[Len(fresh) + 1] = page
    BY <1>1, <2>1
  <2> QED
    BY <2>2 DEF LastOf
<1>4. Walk(<<>>, {}) /\ Walk(pages, moved)
  BY EmptyWalk DEF IInv
<1>5. UNCHANGED <<rows, query, told, passed, edits>> /\ fetching = "refetch"
  BY DEF Refetch
<1>6. CASE page.next = NoCursor \/ Len(got) >= Len(pages)
  BY <1>1, <1>2, <1>4, <1>5, <1>6, Reads DEF IInv
<1>7. CASE ~(page.next = NoCursor \/ Len(got) >= Len(pages))
  BY <1>1, <1>2, <1>3, <1>4, <1>5, <1>7, Reads DEF IInv
<1> QED
  BY <1>6, <1>7

\* A next page is asked for.
LEMMA MoreKeeps ==
  ASSUME IInv, More
  PROVE  IInv'
<1>1. Walk(<<>>, {}) /\ Walk(pages, moved)
  BY EmptyWalk DEF IInv
<1>2. passed' \in BOOLEAN
  BY DEF More, IInv
<1> QED
  BY <1>1, <1>2, Reads DEF More, IInv

\* A next page is only read under the order its cursor was made for.
LEMMA SameQuery ==
  ASSUME IInv, NEW q \in Query, ReadMore(q), Accepts(q, LastOf(pages).next)
  PROVE  q = query
<1>1. pages # <<>> /\ LastOf(pages).next # NoCursor
  BY DEF ReadMore, IInv
<1>2. q.sort = query.sort /\ q.dir = query.dir /\ q.view = query.view /\ q.limit = query.limit
  BY <1>1 DEF ReadMore, Accepts, IInv, Walk
<1>3. /\ q = [sort |-> q.sort, dir |-> q.dir, view |-> q.view, limit |-> q.limit]
      /\ query = [sort |-> query.sort, dir |-> query.dir,
                  view |-> query.view, limit |-> query.limit]
  BY QueriesSort DEF IInv, Typed
<1> QED
  BY <1>2, <1>3

\* The next page is read.
LEMMA ReadMoreKeeps ==
  ASSUME IInv, NEW q \in Query, ReadMore(q)
  PROVE  IInv'
<1>1. pages # <<>> /\ LastOf(pages).next # NoCursor /\ NextOf(pages) = LastOf(pages).next
  BY DEF ReadMore, IInv, NextOf
<1>2. PICK ps : /\ pages' = ps
                /\ ps = IF Accepts(q, LastOf(pages).next)
                        THEN Append(pages, PageOf(q, LastOf(pages).next)) ELSE pages
  BY DEF ReadMore
<1>3. Walk(ps, moved)
  <2>1. CASE Accepts(q, LastOf(pages).next)
    <3>2. q = query
      BY <2>1, SameQuery
    <3> QED
      BY <1>1, <1>2, <2>1, <3>2, PageAdds DEF IInv
  <2>2. CASE ~Accepts(q, LastOf(pages).next)
    BY <1>2, <2>2 DEF IInv
  <2> QED
    BY <2>1, <2>2
<1>4. Walk(fresh, moving)
  BY DEF IInv
<1> QED
  BY <1>2, <1>3, <1>4, Reads DEF ReadMore, IInv

\* Before the first page.
LEMMA InitInv == Init => IInv
<1> SUFFICES ASSUME Init PROVE IInv
  OBVIOUS
<1>1. PICK t \in Task : rows \in [{u \in Task : u <= t} -> Row]
  BY DEF Init
<1>2. Typed
  <2>1. DOMAIN rows = {u \in Task : u <= t}
    BY <1>1
  <2>2. {u \in Task : u <= t} \in SUBSET Nat
    BY TasksAreIds
  <2>3. t \in Nat
    BY TasksAreIds
  <2>4. IsFiniteSet(DOMAIN rows)
    BY <2>1, <2>2, <2>3, FS_BoundedSetOfNaturals
  <2> QED
    BY <1>1, <2>1, <2>4 DEF Typed, Init
<1>3. Walk(pages, moved) /\ Walk(fresh, moving)
  BY <1>2, EmptyWalk DEF Init
<1>4. edits \in 0..MaxEdits
  BY EditsEnd DEF Init
<1>5. /\ fresh = <<>> /\ fetching = "refetch" /\ told = TRUE /\ passed = FALSE
      /\ moved = {} /\ moving = {}
  BY DEF Init
<1> QED
  BY <1>2, <1>3, <1>4, <1>5 DEF IInv

\* No step breaks the invariant.
LEMMA NextInv ==
  ASSUME IInv, [Next]_vars
  PROVE  IInv'
<1>1. CASE UNCHANGED vars
  BY <1>1, Reads DEF vars, IInv
<1> QED
  BY <1>1, EditKeeps, InvalidateKeeps, RefetchKeeps, MoreKeeps, ReadMoreKeeps DEF Next

\* The invariant holds in every reachable state.
THEOREM Invariant == Spec => []IInv
  BY InitInv, NextInv, PTL DEF Spec

-----------------------------------------------------------------------------
(* What follows.                                                           *)

\* A page never holds more rows than fit, and only the last one fewer.
THEOREM PagesFull == Spec => []TypeOK
<1>1. IInv => TypeOK
  <2> SUFFICES ASSUME IInv PROVE TypeOK
    OBVIOUS
  <2>1. ASSUME NEW ps, NEW gone, Walk(ps, gone)
        PROVE  FullPages(ps)
    BY <2>1 DEF Walk, FullPages
  <2> QED
    BY <2>1 DEF IInv, Typed, TypeOK
<1> QED
  BY <1>1, Invariant, PTL

\* A task that stayed where it was is on exactly one page once the walk has
\* come past it, and on none before (List of list.go).
THEOREM UnmovedOnce == Spec => []UnmovedSeenOnce
<1>1. IInv => UnmovedSeenOnce
  <2>1. ASSUME NEW ps, NEW gone, Walk(ps, gone)
        PROVE  SeenOnce(ps, gone)
    <3>1. /\ Cardinality({}) = 0
          /\ \A i : Cardinality({i}) = 1
      BY FS_EmptySet, FS_Singleton
    <3> QED
      BY <2>1, <3>1 DEF Walk, SeenOnce
  <2> QED
    BY <2>1 DEF IInv, UnmovedSeenOnce
<1> QED
  BY <1>1, Invariant, PTL

\* The rows of a later page come after those of an earlier one, as they were
\* when they were read: a walk never turns back (the cursor of List).
THEOREM NeverTurnsBack == Spec => []PagesInOrder
<1>1. IInv => PagesInOrder
  BY DEF IInv, Walk, PagesInOrder
<1> QED
  BY <1>1, Invariant, PTL

\* What was told of is read from rows that stand as they are.
CurrentInv ==
  /\ told => ReadNow(fresh)
  /\ (told /\ ~passed /\ fetching # "refetch") => ReadNow(pages)

\* A page is read from the rows.
LEMMA SamePage ==
  ASSUME UNCHANGED <<rows, query>>, NEW ps, ReadNow(ps)
  PROVE  ReadNow(ps)'
<1>1. \A q, c : PageOf(q, c)' = PageOf(q, c)
  BY DEF PageOf, First, Last, Beyond, Selects, CursorAt, Item, Place, SortValue, Column
<1> QED
  BY <1>1 DEF ReadNow

\* The next page read goes on with what is read now.
LEMMA ReadOn ==
  ASSUME NEW ps \in Seq(Page), NEW page, NEW got \in Seq(Page), ReadNow(ps),
         page = PageOf(query, NextOf(ps)), got = Append(ps, page)
  PROVE  ReadNow(got)
<1>1. /\ Len(got) = Len(ps) + 1 /\ Len(ps) \in Nat
      /\ got[Len(ps) + 1] = page /\ \A i \in 1..Len(ps) : got[i] = ps[i]
      /\ DOMAIN ps = 1..Len(ps) /\ DOMAIN got = 1..(Len(ps) + 1)
  OBVIOUS
<1>2. ASSUME NEW i \in 1..Len(ps)
      PROVE  got[i] = PageOf(query, IF i = 1 THEN NoCursor ELSE got[i - 1].next)
  <2>1. ps[i] = PageOf(query, IF i = 1 THEN NoCursor ELSE ps[i - 1].next)
    BY <1>1 DEF ReadNow
  <2>2. i # 1 => i - 1 \in 1..Len(ps)
    BY <1>1
  <2> QED
    BY <1>1, <2>1, <2>2
<1>3. NextOf(ps) = IF Len(ps) + 1 = 1 THEN NoCursor ELSE got[Len(ps)].next
  <2>1. ps = <<>> <=> Len(ps) = 0
    OBVIOUS
  <2>2. Len(ps) # 0 => Len(ps) \in 1..Len(ps)
    BY <1>1
  <2> QED
    <3>1. CASE ps = <<>>
      BY <2>1, <3>1 DEF NextOf
    <3>2. CASE ps # <<>>
      <4>1. NextOf(ps) = ps[Len(ps)].next
        BY <3>2 DEF NextOf, LastOf
      <4>2. Len(ps) # 0 /\ got[Len(ps)] = ps[Len(ps)]
        BY <1>1, <2>1, <2>2, <3>2
      <4> QED
        <5>1. Len(ps) + 1 # 1
          <6>1. \A n \in Nat : n # 0 => n + 1 # 1
            OBVIOUS
          <6> QED
            BY <1>1, <4>2, <6>1, Zenon
        <5> QED
          BY <4>1, <4>2, <5>1
    <3> QED
      BY <3>1, <3>2
<1>4. got[Len(ps) + 1] = PageOf(query, IF Len(ps) + 1 = 1 THEN NoCursor ELSE got[(Len(ps) + 1) - 1].next)
  <2>1. (Len(ps) + 1) - 1 = Len(ps)
    BY <1>1
  <2> QED
    BY <1>1, <1>3, <2>1
<1>5. \A i \in 1..(Len(ps) + 1) : i \in 1..Len(ps) \/ i = Len(ps) + 1
  BY <1>1
<1> QED
  BY <1>1, <1>2, <1>4, <1>5 DEF ReadNow

LEMMA NoneRead == ReadNow(<<>>)
  BY DEF ReadNow

LEMMA CurrentKept ==
  ASSUME IInv, IInv', CurrentInv, [Next]_vars
  PROVE  CurrentInv'
<1>1. /\ pages \in Seq(Page) /\ fresh \in Seq(Page)
      /\ pages' \in Seq(Page) /\ fresh' \in Seq(Page)
  BY DEF IInv, Walk, Page, Cursor
<1>2. CASE Edit
  <2>1. told' = FALSE
    BY <1>2 DEF Edit, Create, Update, Delete, Restore, Put
  <2> QED
    BY <2>1 DEF CurrentInv
<1>3. ASSUME UNCHANGED <<rows, query>>, NEW ps, NEW fs, pages' = ps, fresh' = fs,
             told' => ReadNow(fs),
             (told' /\ ~passed' /\ fetching' # "refetch") => ReadNow(ps)
      PROVE  CurrentInv'
  <2>1. told' => ReadNow(fs)'
    BY <1>3, SamePage
  <2>2. (told' /\ ~passed' /\ fetching' # "refetch") => ReadNow(ps)'
    BY <1>3, SamePage
  <2> QED
    BY <1>3, <2>1, <2>2 DEF CurrentInv, ReadNow
<1>4. CASE Invalidate
  BY <1>3, <1>4, NoneRead DEF Invalidate, Restart
<1>5. CASE Refetch
  <2>1. PICK page, got :
          /\ page = PageOf(query, NextFresh) /\ got = Append(fresh, page)
          /\ IF page.next = NoCursor \/ Len(got) >= Len(pages)
             THEN pages' = got /\ fresh' = <<>>
             ELSE fresh' = got /\ UNCHANGED <<pages, fetching>>
    BY <1>5 DEF Refetch
  <2>2. got \in Seq(Page)
    BY <1>1, <2>1
  <2>3. told => ReadNow(got)
    <3>1. NextFresh = NextOf(fresh)
      BY DEF NextFresh, NextOf
    <3> QED
      BY <1>1, <2>1, <2>2, <3>1, ReadOn DEF CurrentInv
  <2>4. UNCHANGED <<rows, query, told, passed>> /\ fetching = "refetch"
    BY <1>5 DEF Refetch
  <2>5. CASE pages' = got /\ fresh' = <<>>
    BY <1>3, <2>3, <2>4, <2>5, NoneRead
  <2>6. CASE fresh' = got /\ UNCHANGED <<pages, fetching>>
    BY <1>3, <2>3, <2>4, <2>6
  <2> QED
    BY <2>1, <2>5, <2>6
<1>6. CASE More
  BY <1>3, <1>6, NoneRead DEF More, CurrentInv
<1>7. ASSUME NEW q \in Query, ReadMore(q)
      PROVE  CurrentInv'
  <2>1. pages # <<>> /\ NextOf(pages) = LastOf(pages).next
    BY <1>7 DEF ReadMore, IInv, NextOf
  <2>2. PICK ps : /\ pages' = ps
                  /\ ps = IF Accepts(q, LastOf(pages).next)
                          THEN Append(pages, PageOf(q, LastOf(pages).next)) ELSE pages
    BY <1>7 DEF ReadMore
  <2>3. UNCHANGED <<rows, query, fresh, told, passed>> /\ fetching = "more"
    BY <1>7 DEF ReadMore
  <2>4. (told /\ ~passed) => ReadNow(ps)
    <3>1. CASE Accepts(q, LastOf(pages).next)
      <4>1. q = query
        BY <1>7, <3>1, SameQuery
      <4> QED
        <5>1. ps = Append(pages, PageOf(query, NextOf(pages))) /\ ps \in Seq(Page)
          BY <1>1, <2>1, <2>2, <3>1, <4>1
        <5>2. (told /\ ~passed) => ReadNow(pages)
          BY <2>3 DEF CurrentInv
        <5> QED
          BY <1>1, <5>1, <5>2, ReadOn
    <3>2. CASE ~Accepts(q, LastOf(pages).next)
      BY <2>2, <2>3, <3>2 DEF CurrentInv
    <3> QED
      BY <3>1, <3>2
  <2> QED
    BY <1>3, <2>2, <2>3, <2>4 DEF CurrentInv
<1>8. CASE UNCHANGED vars
  BY <1>3, <1>8 DEF vars, CurrentInv
<1> QED
  BY <1>2, <1>4, <1>5, <1>6, <1>7, <1>8 DEF Next

\* Once every edit was heard of and nothing is being fetched, the pages on
\* screen are those the list would be read in now, but for a next page asked for
\* in the middle of a refetch (useTodos, useInfiniteScroll).
THEOREM ScreenCatchesUp == Spec => []ScreenIsCurrent
<1>1. Init => CurrentInv
  BY NoneRead DEF Init, CurrentInv
<1>2. IInv /\ IInv' /\ CurrentInv /\ [Next]_vars => CurrentInv'
  BY CurrentKept
<1>3. CurrentInv => ScreenIsCurrent
  BY DEF CurrentInv, ScreenIsCurrent
<1> QED
  BY <1>1, <1>2, <1>3, Invariant, PTL DEF Spec

\* The total beside a view is the length of its list, read to its end with
\* nothing moving: two queries written apart agree (counts.go, list.go).
THEOREM CountsAgree == Spec => []CountMatchesList
<1>1. IInv => CountMatchesList
  <2> SUFFICES ASSUME IInv, pages # <<>>, LastOf(pages).next = NoCursor, moved = {}
               PROVE  Cardinality(UNION {pages[i].items : i \in DOMAIN pages})
                        = CountFor(query.view)
    BY DEF CountMatchesList
  <2> DEFINE U == UNION {pages[i].items : i \in DOMAIN pages}
             S == {t \in DOMAIN rows : Counted(query.view, rows[t])}
             f == [a \in U |-> a.id]
  <2>1. \A t \in DOMAIN rows : Selects(query.view, rows[t]) <=> Counted(query.view, rows[t])
    <3>1. query.view \in {"all", "overdue"} \cup Status
      BY QueryIs DEF IInv
    <3>2. "all" \notin Status /\ "overdue" \notin Status
      BY DEF Status, NotStarted, InProgress, Completed, Archived
    <3> QED
      BY <3>1, <3>2 DEF Selects, Counted
  <2>2. \A t \in DOMAIN rows :
          \/ t \in S /\ \E i \in DOMAIN pages : PagesWith(pages, t) = {i}
          \/ t \notin S /\ PagesWith(pages, t) = {}
    BY <2>1 DEF IInv, Walk, Reached
  <2>3. \A a \in U : \E i \in DOMAIN pages : a \in pages[i].items /\ a.id \in DOMAIN rows
                     /\ i \in PagesWith(pages, a.id)
    BY DEF IInv, Walk, PagesWith
  <2>4. f \in [U -> S]
    BY <2>2, <2>3
  <2>5. ASSUME NEW a \in U, NEW b \in U, a.id = b.id
        PROVE  a = b
    <3>1. PICK i \in DOMAIN pages : a \in pages[i].items /\ i \in PagesWith(pages, a.id)
                                    /\ a.id \in DOMAIN rows
      BY <2>3
    <3>2. PICK j \in DOMAIN pages : b \in pages[j].items /\ j \in PagesWith(pages, a.id)
      BY <2>3, <2>5
    <3>3. i = j
      BY <2>2, <3>1, <3>2
    <3> QED
      BY <2>5, <3>1, <3>2, <3>3 DEF IInv, Walk
  <2>6. \A t \in S : \E a \in U : a.id = t
    BY <2>2 DEF PagesWith
  <2>7. f \in Injection(U, S) /\ f \in Surjection(U, S)
    BY <2>4, <2>5, <2>6 DEF Injection, IsInjective, Surjection
  <2>8. IsFiniteSet(S)
    BY FS_Subset DEF IInv, Typed
  <2>9. Cardinality(U) = Cardinality(S)
    BY <2>7, <2>8, FS_Injection
  <2> QED
    BY <2>9 DEF CountFor
<1> QED
  BY <1>1, Invariant, PTL
=============================================================================
