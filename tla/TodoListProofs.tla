---------------------------- MODULE TodoListProofs -----------------------------
(***************************************************************************)
(* The safety properties of TodoList for every list capacity, queue depth, *)
(* clock and number of faults: every list is valid, at most one voice      *)
(* request is about, the numbers of the items stand still under the        *)
(* interpreter, no reminder is lost, without a fault none sounds twice,    *)
(* and the program implements TodoStore.                                   *)
(***************************************************************************)
EXTENDS TodoList, SequenceTheorems, FiniteSetTheorems, FunctionTheorems,
        WellFoundedInduction, TLAPS

-------------------------------------------------------------------------------
(* The operations of smart_todo.c keep a list good *)

\* What smart_todo_valid asks of one item, next being the next id
ValidItem(item, next) ==
    /\ item.id < next
    /\ item.done => item.due = 0
    /\ item.due = 0 => item.repeat = 0

\* A list the program may hold or store: its type, what smart_todo_valid asks
\* of it, and no title twice, because a title stands for an item.
Good(list) ==
    /\ list \in List
    /\ ValidList(list)
    /\ \A i, j \in DOMAIN list.items :
          list.items[i].title = list.items[j].title => i = j

\* A function on 1..n is a sequence of length n.
LEMMA FunctionIsSeq ==
    ASSUME NEW S, NEW n \in Nat, NEW f \in [1..n -> S]
    PROVE  f \in Seq(S) /\ Len(f) = n
<1>1. f \in Seq(S)
  BY SeqDef
<1>2. Len(f) \in Nat /\ DOMAIN f = 1..Len(f)
  BY <1>1, LenProperties
<1>3. 1..n = 1..Len(f)
  BY <1>2
<1>4. Len(f) = n
  <2>1. n \in 1..Len(f) \/ n = 0
    BY <1>3
  <2>2. Len(f) \in 1..n \/ Len(f) = 0
    BY <1>2, <1>3
  <2>3. QED
    BY <1>2, <2>1, <2>2
<1>5. QED
  BY <1>1, <1>4

\* What makes a list good, item by item ...
LEMMA GoodIntro ==
    ASSUME NEW n \in Nat, n <= Capacity, NEW items \in [1..n -> Item],
           NEW next \in Nat \ {0},
           \A i \in 1..n : ValidItem(items[i], next),
           \A i, j \in 1..n :
              i # j => items[i].id # items[j].id /\ items[i].title # items[j].title
    PROVE  Good([items |-> items, next |-> next])
<1> DEFINE list == [items |-> items, next |-> next]
<1>1. items \in Seq(Item) /\ Len(items) = n /\ DOMAIN items = 1..n
  BY FunctionIsSeq
<1>2. list.items = items /\ list.next = next /\ list \in List
  BY <1>1 DEF List
<1> HIDE DEF list
<1>3. ValidList(list)
  <2>1. Len(list.items) <= Capacity
    BY <1>1, <1>2
  <2>2. ASSUME NEW i \in DOMAIN list.items
        PROVE  /\ list.items[i].id < list.next
               /\ list.items[i].done => list.items[i].due = 0
               /\ list.items[i].due = 0 => list.items[i].repeat = 0
    BY <1>1, <1>2 DEF ValidItem
  <2>3. ASSUME NEW i \in DOMAIN list.items, NEW j \in 1..(i - 1)
        PROVE  list.items[j].id # list.items[i].id
    <3>1. i \in 1..n /\ j \in 1..n /\ i # j
      BY <1>1, <1>2
    <3>2. QED
      BY <1>2, <3>1
  <2>4. QED
    BY <2>1, <2>2, <2>3 DEF ValidList
<1>4. \A i, j \in DOMAIN list.items :
          list.items[i].title = list.items[j].title => i = j
  BY <1>1, <1>2
<1>5. Good(list)
  BY <1>2, <1>3, <1>4 DEF Good
<1>6. QED
  BY <1>5 DEF list

\* ... and what can be read off a good list.
LEMMA GoodElim ==
    ASSUME NEW list, Good(list)
    PROVE  /\ Len(list.items) \in Nat
           /\ Len(list.items) <= Capacity
           /\ DOMAIN list.items = 1..Len(list.items)
           /\ list.items \in [1..Len(list.items) -> Item]
           /\ list.items \in Seq(Item)
           /\ list.next \in Nat \ {0}
           /\ list = [items |-> list.items, next |-> list.next]
           /\ \A i \in 1..Len(list.items) : ValidItem(list.items[i], list.next)
           /\ \A i, j \in 1..Len(list.items) :
                 i # j => /\ list.items[i].id # list.items[j].id
                          /\ list.items[i].title # list.items[j].title
<1>1. /\ list.items \in Seq(Item) /\ list.next \in Nat \ {0}
      /\ list = [items |-> list.items, next |-> list.next]
  BY DEF Good, List
<1>2. /\ Len(list.items) \in Nat
      /\ DOMAIN list.items = 1..Len(list.items)
      /\ list.items \in [1..Len(list.items) -> Item]
  BY <1>1, LenProperties
<1>3. Len(list.items) <= Capacity
  BY DEF Good, ValidList
<1>4. \A i \in 1..Len(list.items) : ValidItem(list.items[i], list.next)
  BY <1>2 DEF Good, ValidList, ValidItem
<1>5. ASSUME NEW i \in 1..Len(list.items), NEW j \in 1..Len(list.items), j < i
      PROVE  list.items[i].id # list.items[j].id
  <2>1. j \in 1..(i - 1)
    BY <1>2, <1>5
  <2>2. QED
    BY <1>2, <2>1 DEF Good, ValidList
<1>6. ASSUME NEW i \in 1..Len(list.items), NEW j \in 1..Len(list.items), i # j
      PROVE  /\ list.items[i].id # list.items[j].id
             /\ list.items[i].title # list.items[j].title
  <2>1. i < j \/ j < i
    BY <1>2, <1>6
  <2>2. list.items[i].title # list.items[j].title
    BY <1>2, <1>6 DEF Good
  <2>3. QED
    BY <1>5, <2>1, <2>2
<1>7. QED
  BY <1>1, <1>2, <1>3, <1>4, <1>6

\* A boot that cannot read the record goes on with a good list too.
LEMMA EmptyGood == Good(EmptyList)
<1>1. <<>> \in Seq(Item) /\ Len(<<>>) = 0 /\ DOMAIN <<>> = {}
  BY EmptySeq
<1>2. EmptyList.items = <<>> /\ EmptyList.next = 1 /\ EmptyList \in List
  BY <1>1 DEF EmptyList, List
<1>3. QED
  BY <1>1, <1>2, TodoAssumption DEF Good, ValidList

\* smart_todo_apply keeps a list good when it adds an item with a new title.
LEMMA AddGood ==
    ASSUME NEW list, Good(list), Len(list.items) < Capacity,
           NEW title \in Titles \ TitlesOf(list),
           NEW due \in Nat, NEW repeat \in Nat,
           due = 0 => repeat = 0
    PROVE  Good(Add(list, title, due, repeat))
<1> DEFINE n == Len(list.items)
           item == [id |-> list.next, title |-> title, due |-> due,
                    repeat |-> repeat, done |-> FALSE]
           items == Append(list.items, item)
<1>1. /\ n \in Nat /\ n < Capacity /\ Capacity \in Nat
      /\ list.items \in Seq(Item) /\ list.items \in [1..n -> Item]
      /\ list.next \in Nat \ {0}
      /\ DOMAIN list.items = 1..n
      /\ \A i \in 1..n : ValidItem(list.items[i], list.next)
      /\ \A i, j \in 1..n : i # j => /\ list.items[i].id # list.items[j].id
                                    /\ list.items[i].title # list.items[j].title
  BY GoodElim, TodoAssumption
<1>2. /\ item \in Item /\ item.id = list.next /\ item.title = title
      /\ ValidItem(item, list.next + 1)
  BY <1>1 DEF Item, ValidItem
<1>3. ASSUME NEW i \in 1..n
      PROVE  /\ list.items[i] \in Item
             /\ list.items[i].id # item.id
             /\ list.items[i].title # item.title
             /\ ValidItem(list.items[i], list.next + 1)
  <2>1. /\ list.items[i] \in Item /\ list.items[i].id \in Nat
        /\ ValidItem(list.items[i], list.next)
    BY <1>1 DEF Item
  <2>2. list.items[i].title # title
    BY <1>1 DEF TitlesOf
  <2> HIDE DEF item
  <2>3. QED
    BY <1>1, <1>2, <2>1, <2>2 DEF ValidItem
<1> HIDE DEF item
<1>4. /\ items \in Seq(Item) /\ Len(items) = n + 1
      /\ items[n + 1] = item
      /\ \A i \in 1..n : items[i] = list.items[i]
  BY <1>1, <1>2, AppendProperties
<1>5. items \in [1..(n + 1) -> Item]
  BY <1>4, LenProperties
<1> HIDE DEF items, n
<1>6. ASSUME NEW i \in 1..(n + 1)
      PROVE  \/ i \in 1..n /\ items[i] = list.items[i]
             \/ i = n + 1 /\ items[i] = item
  BY <1>1, <1>4
<1>7. \A i \in 1..(n + 1) : ValidItem(items[i], list.next + 1)
  BY <1>2, <1>3, <1>6
<1>8. ASSUME NEW i \in 1..(n + 1), NEW j \in 1..(n + 1), i # j
      PROVE  items[i].id # items[j].id /\ items[i].title # items[j].title
  <2>1. CASE i \in 1..n /\ j \in 1..n
    BY <1>1, <1>4, <1>8, <2>1
  <2>2. CASE i \in 1..n /\ j = n + 1
    BY <1>3, <1>4, <2>2
  <2>3. CASE j \in 1..n /\ i = n + 1
    BY <1>3, <1>4, <2>3
  <2>4. QED
    BY <1>1, <1>8, <2>1, <2>2, <2>3
<1>9. n + 1 \in Nat /\ n + 1 <= Capacity /\ list.next + 1 \in Nat \ {0}
  BY <1>1
<1>10. Good([items |-> items, next |-> list.next + 1])
  BY <1>5, <1>7, <1>8, <1>9, GoodIntro
<1>11. QED
  BY <1>10 DEF Add, items, item

\* ... when it completes items, ...
LEMMA CompleteGood ==
    ASSUME NEW list, Good(list), NEW ids
    PROVE  Good(Complete(list, ids))
<1> DEFINE n == Len(list.items)
           items == [i \in 1..n |-> IF list.items[i].id \in ids
                                    THEN Closed(list.items[i]) ELSE list.items[i]]
<1>1. /\ n \in Nat /\ n <= Capacity
      /\ list.items \in [1..n -> Item]
      /\ list.next \in Nat \ {0}
      /\ DOMAIN list.items = 1..n
      /\ list = [items |-> list.items, next |-> list.next]
      /\ \A i \in 1..n : ValidItem(list.items[i], list.next)
      /\ \A i, j \in 1..n : i # j => /\ list.items[i].id # list.items[j].id
                                    /\ list.items[i].title # list.items[j].title
  BY GoodElim
<1>2. Complete(list, ids) = [items |-> items, next |-> list.next]
  BY <1>1 DEF Complete
<1>3. ASSUME NEW item \in Item
      PROVE  /\ Closed(item) \in Item
             /\ Closed(item).id = item.id /\ Closed(item).title = item.title
             /\ Closed(item).due = 0 /\ Closed(item).repeat = 0
  BY DEF Closed, Item
<1> HIDE DEF n
<1>4. ASSUME NEW i \in 1..n
      PROVE  /\ items[i] \in Item
             /\ items[i].id = list.items[i].id
             /\ items[i].title = list.items[i].title
             /\ ValidItem(items[i], list.next)
  <2>1. list.items[i] \in Item /\ ValidItem(list.items[i], list.next)
    BY <1>1
  <2>2. CASE list.items[i].id \in ids
    <3>1. items[i] = Closed(list.items[i])
      BY <2>2
    <3>2. QED
      BY <1>3, <2>1, <3>1 DEF ValidItem
  <2>3. CASE list.items[i].id \notin ids
    BY <2>1, <2>3
  <2>4. QED
    BY <2>2, <2>3
<1>5. items \in [1..n -> Item]
  BY <1>4
<1> HIDE DEF items
<1>6. \A i, j \in 1..n :
         i # j => items[i].id # items[j].id /\ items[i].title # items[j].title
  BY <1>1, <1>4
<1>7. Good([items |-> items, next |-> list.next])
  BY <1>1, <1>4, <1>5, <1>6, GoodIntro
<1>8. QED
  BY <1>2, <1>7

\* The loop of a deletion writes every place up to the number of items that
\* stay, each from one of them: how many there are up to one of them tells it
\* from the others.
LEMMA ReadPlace ==
    ASSUME NEW length \in Nat, NEW kept \in SUBSET (1..length)
    PROVE  /\ Cardinality(kept) \in Nat /\ Cardinality(kept) <= length
           /\ \A n \in 1..Cardinality(kept) :
                 Read(kept, n) \in kept /\ Written(kept, Read(kept, n)) = n
           /\ \A i \in kept :
                 /\ Written(kept, i) \in 1..Cardinality(kept)
                 /\ Read(kept, Written(kept, i)) = i
<1> DEFINE count == Cardinality(kept)
           UpTo(i) == {j \in kept : j <= i}
<1>1. /\ IsFiniteSet(1..length) /\ Cardinality(1..length) = length
  BY FS_Interval
<1>2. IsFiniteSet(kept) /\ count <= length /\ count \in Nat
  BY <1>1, FS_Subset, FS_CardinalityType
<1>3. ASSUME NEW i \in kept
      PROVE  /\ IsFiniteSet(UpTo(i)) /\ i \in UpTo(i)
             /\ Cardinality(UpTo(i)) \in 1..count
  <2>1. UpTo(i) \in SUBSET kept /\ i \in UpTo(i) /\ UpTo(i) # {}
    BY <1>3
  <2> HIDE DEF UpTo
  <2>2. IsFiniteSet(UpTo(i)) /\ Cardinality(UpTo(i)) <= count
    BY <1>2, <2>1, FS_Subset
  <2>3. Cardinality(UpTo(i)) \in Nat /\ Cardinality(UpTo(i)) # 0
    BY <2>1, <2>2, FS_CardinalityType, FS_EmptySet
  <2>4. QED
    BY <1>2, <2>1, <2>2, <2>3
<1>4. ASSUME NEW i \in kept, NEW j \in kept, i < j
      PROVE  Cardinality(UpTo(i)) # Cardinality(UpTo(j))
  <2>1. i \in Int /\ j \in Int /\ \A k \in kept : k \in Int
    OBVIOUS
  <2>2. j \in UpTo(j) /\ j \notin UpTo(i)
    BY <1>4, <2>1
  <2>3. UpTo(i) \in SUBSET UpTo(j)
    <3>1. ASSUME NEW k \in kept, k <= i
          PROVE  k <= j
      BY <1>4, <2>1, <3>1
    <3>2. QED
      BY <3>1
  <2>4. IsFiniteSet(UpTo(j))
    BY <1>3
  <2> HIDE DEF UpTo
  <2>5. QED
    BY <2>2, <2>3, <2>4, FS_Subset
<1> DEFINE place == [i \in kept |-> Cardinality(UpTo(i))]
<1> HIDE DEF UpTo
<1>5. place \in [kept -> 1..count]
  BY <1>3
<1>6. \A i, j \in kept : place[i] = place[j] => i = j
  <2>1. TAKE i, j \in kept
  <2>2. HAVE place[i] = place[j]
  <2>3. i \in Int /\ j \in Int
    OBVIOUS
  <2>4. ~(i < j) /\ ~(j < i)
    BY <1>4, <2>2
  <2>5. QED
    BY <2>3, <2>4
<1> HIDE DEF count
<1>7. IsFiniteSet(1..count) /\ Cardinality(1..count) = count
  BY <1>2, FS_Interval
<1>8. \A n \in 1..count : \E i \in kept : place[i] = n
  <2> HIDE DEF place
  <2>1. place \in Injection(kept, 1..count)
    BY <1>5, <1>6, Fun_IsInj
  <2>2. Cardinality(kept) = Cardinality(1..count)
    BY <1>7 DEF count
  <2>3. place \in Surjection(kept, 1..count)
    BY <1>7, <2>1, <2>2, FS_Injection
  <2>4. QED
    BY <2>3, Fun_SurjectionProperties
<1>9. ASSUME NEW n \in 1..count
      PROVE  Read(kept, n) \in kept /\ Written(kept, Read(kept, n)) = n
  <2>1. \E i \in kept : Written(kept, i) = n
    BY <1>8 DEF UpTo, Written
  <2>2. QED
    BY <2>1 DEF Read
<1>10. ASSUME NEW i \in kept
       PROVE  /\ Written(kept, i) \in 1..count
              /\ Read(kept, Written(kept, i)) = i
  <2>1. Written(kept, i) \in 1..count
    BY <1>3 DEF UpTo, Written
  <2>2. /\ Read(kept, Written(kept, i)) \in kept
        /\ Written(kept, Read(kept, Written(kept, i))) = Written(kept, i)
    BY <1>9, <2>1
  <2>3. \A j \in kept : place[j] = Written(kept, j)
    BY DEF UpTo, Written
  <2> HIDE DEF place
  <2>4. QED
    BY <1>6, <2>1, <2>2, <2>3
<1>11. QED
  BY <1>2, <1>9, <1>10 DEF count

\* ... and when it deletes items and numbers the others again.
LEMMA DeleteGood ==
    ASSUME NEW list, Good(list), NEW ids
    PROVE  Good(Delete(list, ids))
<1> DEFINE length == Len(list.items)
           kept == Kept(list, ids)
           count == Cardinality(kept)
           Numbered(item, n) == [item EXCEPT !.id = n]
           items == [n \in 1..count |-> Numbered(list.items[Read(kept, n)], n)]
<1>1. /\ length \in Nat /\ length <= Capacity /\ Capacity \in Nat
      /\ list.items \in [1..length -> Item]
      /\ DOMAIN list.items = 1..length
      /\ \A i \in 1..length : ValidItem(list.items[i], list.next)
      /\ \A i, j \in 1..length :
            i # j => list.items[i].title # list.items[j].title
  BY GoodElim, TodoAssumption
<1>2. kept \in SUBSET (1..length)
  BY <1>1 DEF Kept
<1>3. Delete(list, ids) = [items |-> items, next |-> count + 1]
  BY DEF Delete
<1> HIDE DEF length, kept
<1>4. /\ count \in Nat /\ count <= length
      /\ \A n \in 1..count :
            Read(kept, n) \in kept /\ Written(kept, Read(kept, n)) = n
  BY <1>1, <1>2, ReadPlace
<1>5. ASSUME NEW item \in Item, NEW n \in Nat \ {0}
      PROVE  /\ Numbered(item, n) \in Item
             /\ Numbered(item, n).id = n /\ Numbered(item, n).title = item.title
             /\ Numbered(item, n).due = item.due
             /\ Numbered(item, n).repeat = item.repeat
             /\ Numbered(item, n).done = item.done
  BY DEF Item
<1> HIDE DEF count, Numbered
<1>6. ASSUME NEW n \in 1..count
      PROVE  /\ items[n] \in Item /\ items[n].id = n
             /\ items[n].title = list.items[Read(kept, n)].title
             /\ ValidItem(items[n], count + 1)
  <2>1. /\ n \in Nat \ {0} /\ n < count + 1
        /\ Read(kept, n) \in 1..length
    <3>1. n \in Nat \ {0} /\ n < count + 1
      BY <1>4
    <3>2. Read(kept, n) \in 1..length
      BY <1>2, <1>4
    <3>3. QED
      BY <3>1, <3>2
  <2>2. /\ list.items[Read(kept, n)] \in Item
        /\ ValidItem(list.items[Read(kept, n)], list.next)
    BY <1>1, <2>1
  <2>3. items[n] = Numbered(list.items[Read(kept, n)], n)
    OBVIOUS
  <2> HIDE DEF items
  <2>4. QED
    BY <1>5, <2>1, <2>2, <2>3 DEF ValidItem
<1>7. items \in [1..count -> Item]
  BY <1>6
<1> HIDE DEF items
<1>8. ASSUME NEW n \in 1..count, NEW m \in 1..count, n # m
      PROVE  items[n].id # items[m].id /\ items[n].title # items[m].title
  <2>1. Read(kept, n) \in 1..length /\ Read(kept, m) \in 1..length
    BY <1>2, <1>4
  <2>2. Read(kept, n) # Read(kept, m)
    BY <1>4, <1>8
  <2>3. QED
    BY <1>1, <1>6, <1>8, <2>1, <2>2
<1>9. count <= Capacity /\ count + 1 \in Nat \ {0}
  BY <1>1, <1>4
<1>10. Good([items |-> items, next |-> count + 1])
  BY <1>4, <1>6, <1>7, <1>8, <1>9, GoodIntro
<1>11. QED
  BY <1>3, <1>10

\* smart_todo_due names an item whose time has come.
LEMMA DueItem ==
    ASSUME NEW list, Good(list), NEW now \in Nat, NEW i \in Due(list, now)
    PROVE  /\ i \in 1..Len(list.items)
           /\ list.items[i] \in Item
           /\ list.items[i].due # 0 /\ list.items[i].due <= now
<1>1. i \in DOMAIN list.items /\ list.items[i].due \in 1..now
  BY DEF Due, OverdueAt
<1>2. i \in 1..Len(list.items) /\ list.items[i] \in Item
  BY <1>1, GoodElim
<1>3. QED
  BY <1>1, <1>2

\* The next time of a schedule is still to come.
LEMMA NextDueLater ==
    ASSUME NEW item \in Item, NEW now \in Nat, item.due <= now, item.repeat # 0
    PROVE  NextDue(item, now) \in Nat /\ NextDue(item, now) > now
<1> DEFINE late == now - item.due
           rounds == late \div item.repeat
<1>1. /\ item.due \in Nat /\ item.repeat \in Nat /\ item.repeat > 0
      /\ late \in Nat
  BY DEF Item
<1>2. /\ rounds \in Nat
      /\ late < rounds * item.repeat + item.repeat
      /\ rounds * item.repeat \in Nat
  BY <1>1
<1>3. /\ NextDue(item, now) = item.due + (rounds + 1) * item.repeat
      /\ (rounds + 1) * item.repeat = rounds * item.repeat + item.repeat
  BY <1>1, <1>2 DEF NextDue
<1>4. QED
  BY <1>1, <1>2, <1>3

\* The time a reminder leaves its item with, 0 or one still to come
Rescheduled(item, now) ==
    IF item.repeat = 0 THEN 0 ELSE NextDue(item, now)

\* ... and when a reminder has sounded.
LEMMA RemindedGood ==
    ASSUME NEW list, Good(list), NEW now \in Nat, NEW i \in Due(list, now)
    PROVE  Good(Reminded(list, i, now))
<1> DEFINE n == Len(list.items)
           due == Rescheduled(list.items[i], now)
           items == [j \in 1..n |-> IF j # i THEN list.items[j]
                                    ELSE WithDue(list.items[i], due)]
<1>1. /\ n \in Nat /\ n <= Capacity
      /\ list.items \in [1..n -> Item]
      /\ list.next \in Nat \ {0}
      /\ DOMAIN list.items = 1..n
      /\ \A j \in 1..n : ValidItem(list.items[j], list.next)
      /\ \A j, k \in 1..n : j # k => /\ list.items[j].id # list.items[k].id
                                    /\ list.items[j].title # list.items[k].title
  BY GoodElim
<1>2. Reminded(list, i, now) = [items |-> items, next |-> list.next]
  BY <1>1 DEF Reminded, Rescheduled
<1>3. /\ i \in 1..n /\ list.items[i] \in Item
      /\ list.items[i].due # 0 /\ list.items[i].due <= now
  BY DueItem
<1>4. due \in Nat /\ (due = 0 => list.items[i].repeat = 0)
  <2>1. CASE list.items[i].repeat = 0
    BY <2>1 DEF Rescheduled
  <2>2. CASE list.items[i].repeat # 0
    <3>1. due \in Nat /\ due > now
      BY <1>3, <2>2, NextDueLater DEF Rescheduled
    <3> HIDE DEF due
    <3>2. QED
      BY <3>1
  <2>3. QED
    BY <2>1, <2>2
<1> HIDE DEF n, due
<1>5. /\ WithDue(list.items[i], due) \in Item
      /\ WithDue(list.items[i], due).id = list.items[i].id
      /\ WithDue(list.items[i], due).title = list.items[i].title
      /\ WithDue(list.items[i], due).due = due
      /\ WithDue(list.items[i], due).repeat = list.items[i].repeat
      /\ WithDue(list.items[i], due).done = list.items[i].done
  BY <1>3, <1>4 DEF WithDue, Item
<1>6. ValidItem(WithDue(list.items[i], due), list.next)
  <2>1. ValidItem(list.items[i], list.next)
    BY <1>1, <1>3
  <2>2. ~list.items[i].done
    BY <1>3, <2>1 DEF ValidItem
  <2>3. QED
    BY <1>4, <1>5, <2>1, <2>2 DEF ValidItem
<1>7. ASSUME NEW j \in 1..n
      PROVE  /\ items[j] \in Item
             /\ items[j].id = list.items[j].id
             /\ items[j].title = list.items[j].title
             /\ ValidItem(items[j], list.next)
  BY <1>1, <1>5, <1>6
<1>8. items \in [1..n -> Item]
  BY <1>7
<1> HIDE DEF items
<1>9. \A j, k \in 1..n :
         j # k => items[j].id # items[k].id /\ items[j].title # items[k].title
  BY <1>1, <1>7
<1>10. Good([items |-> items, next |-> list.next])
  BY <1>1, <1>7, <1>8, <1>9, GoodIntro
<1>11. QED
  BY <1>2, <1>10

-------------------------------------------------------------------------------
(* Every list is good *)

\* TypeOK with every list good: titles are told apart too, and the records the
\* lists travel in have their fields.
Flags ==
    /\ pc \in {"off", "wait", "tick", "release"} \cup VoiceSteps
    /\ {held, pending, cancelled, storageOk, timeValid} \subseteq BOOLEAN

Counters == {clock, retryAt, alert, faults} \subseteq Nat

Queued == queue \in Seq(Commands) /\ Len(queue) <= QueueDepth

Lists == Good(todos) /\ Good(nvs) /\ Good(seen.list) /\ Good(change.list)

Chimes ==
    /\ chime = [stage |-> chime.stage, title |-> chime.title, id |-> chime.id,
                due |-> chime.due, list |-> chime.list]
    /\ chime.stage \in {"none", "sound", "save"}
    /\ chime.id \in Nat
    /\ Good(chime.list)

ListInv == Flags /\ Counters /\ Queued /\ Lists /\ Chimes /\ seen.at \in Nat

\* The invariant includes the type invariant.
LEMMA ListInvTypes == ListInv => TypeOK
<1> SUFFICES ASSUME ListInv PROVE TypeOK
  OBVIOUS
<1>1. \A list \in {todos, nvs, chime.list, seen.list, change.list} : Good(list)
  BY DEF ListInv, Lists, Chimes
<1>2. \A list \in {todos, nvs, chime.list, seen.list, change.list} :
         list \in List /\ ValidList(list)
  BY <1>1 DEF Good
<1>3. QED
  BY <1>2 DEF ListInv, Flags, Counters, Queued, Chimes, TypeOK

\* The records that hold no list yet
LEMMA EmptyRecords ==
    /\ NoChime.stage = "none" /\ NoChime.id = 0 /\ Good(NoChime.list)
    /\ NoChime = [stage |-> NoChime.stage, title |-> NoChime.title,
                  id |-> NoChime.id, due |-> NoChime.due, list |-> NoChime.list]
    /\ Good(NotSeen.list) /\ NotSeen.at = 0
    /\ Good(NoChange.list)
  BY EmptyGood DEF NoChime, NotSeen, NoChange

\* A command put in a queue with room ...
LEMMA QueueAppend ==
    ASSUME Queued, Room, NEW command \in Commands
    PROVE  /\ Append(queue, command) \in Seq(Commands)
           /\ Len(Append(queue, command)) <= QueueDepth
<1>1. QueueDepth \in Nat
  BY TodoAssumption
<1>2. /\ Append(queue, command) \in Seq(Commands)
      /\ Len(Append(queue, command)) = Len(queue) + 1
      /\ Len(queue) \in Nat
  BY AppendProperties, LenProperties DEF Queued
<1>3. QED
  BY <1>1, <1>2 DEF Room

\* ... and one taken out leave a queue no longer than it may be.
LEMMA QueueTail ==
    ASSUME Queued, queue # <<>>
    PROVE  Tail(queue) \in Seq(Commands) /\ Len(Tail(queue)) <= QueueDepth
<1>1. QueueDepth \in Nat
  BY TodoAssumption
<1>2. /\ Tail(queue) \in Seq(Commands)
      /\ Len(Tail(queue)) = Len(queue) - 1
      /\ Len(queue) \in Nat
  BY HeadTailProperties, LenProperties DEF Queued
<1>3. QED
  BY <1>1, <1>2 DEF Queued

\* An answer that is applied leads to a good list.
LEMMA RequestGood ==
    ASSUME ListInv, AddRequest \/ ChangeRequest
    PROVE  Good(change'.list)
<1>1. Good(Base) /\ clock \in Nat /\ seen.at \in Nat
  BY DEF ListInv, Lists, Counters, Base
<1>2. CASE AddRequest
  <2>1. PICK title \in Titles \ TitlesOf(Base), repeat \in Repeats \cup {0} :
        \E due \in {DueTime(d) : d \in Delays}
                     \cup {IF repeat = 0 THEN 0 ELSE clock + repeat} :
           change' = [ids |-> {}, list |-> Add(Base, title, due, repeat)]
    BY <1>2 DEF AddRequest
  <2>2. PICK due \in {DueTime(d) : d \in Delays}
                       \cup {IF repeat = 0 THEN 0 ELSE clock + repeat} :
           change' = [ids |-> {}, list |-> Add(Base, title, due, repeat)]
    BY <2>1
  <2>3. ASSUME NEW d \in Delays
        PROVE  DueTime(d) \in Nat \ {0}
    <3>1. d \in Nat \ {0}
      BY TodoAssumption
    <3>2. QED
      BY <1>1, <3>1 DEF DueTime
  <2>4. repeat \in Nat
    BY TodoAssumption
  <2>5. due \in Nat /\ (due = 0 => repeat = 0)
    <3>1. CASE due \in {DueTime(d) : d \in Delays}
      <4>1. due \in Nat \ {0}
        BY <2>3, <3>1
      <4>2. QED
        BY <4>1
    <3>2. CASE due = IF repeat = 0 THEN 0 ELSE clock + repeat
      BY <1>1, <2>4, <3>2
    <3>3. QED
      BY <2>2, <3>1, <3>2
  <2>6. Len(Base.items) < Capacity
    BY <1>2 DEF AddRequest
  <2>7. Good(Add(Base, title, due, repeat))
    BY <1>1, <2>4, <2>5, <2>6, AddGood
  <2>8. QED
    BY <2>2, <2>7
<1>3. CASE ChangeRequest
  <2>1. PICK ids \in (SUBSET (1..Capacity)) \ {{}} :
        \E list \in {Complete(Base, ids), Delete(Base, ids)} :
            change' = [ids |-> ids, list |-> list]
    BY <1>3 DEF ChangeRequest
  <2>2. Good(Complete(Base, ids)) /\ Good(Delete(Base, ids))
    BY <1>1, CompleteGood, DeleteGood
  <2>3. QED
    BY <2>1, <2>2
<1>4. QED
  BY <1>2, <1>3

\* The reminder that starts to sound carries a good list.
LEMMA ChimeGood ==
    ASSUME ListInv, Chime
    PROVE  Chimes' /\ retryAt' \in Nat
<1>1. Good(todos) /\ clock \in Nat
  BY DEF ListInv, Lists, Counters
<1>2. PICK i \in Due(todos, clock) :
          chime' = [stage |-> "sound", title |-> todos.items[i].title,
                    id |-> todos.items[i].id, due |-> todos.items[i].due,
                    list |-> Reminded(todos, i, clock)]
  BY DEF Chime
<1>3. todos.items[i].id \in Nat
  BY <1>1, DueItem DEF Item
<1>4. Good(Reminded(todos, i, clock))
  BY <1>1, RemindedGood
<1>5. retryAt' \in Nat
  BY <1>1 DEF Chime
<1>6. QED
  BY <1>2, <1>3, <1>4, <1>5 DEF Chimes

\* The invariant holds at first ...
LEMMA ListInitial == Init => ListInv
<1> SUFFICES ASSUME Init PROVE ListInv
  OBVIOUS
<1>1. Flags
  BY DEF Init, Flags
<1>2. Counters
  BY DEF Init, Counters
<1>3. Queued
  BY EmptySeq, TodoAssumption DEF Init, Queued
<1>4. Lists /\ Chimes /\ seen.at \in Nat
  BY EmptyGood, EmptyRecords DEF Init, Lists, Chimes
<1>5. QED
  BY <1>1, <1>2, <1>3, <1>4 DEF ListInv

\* Time, power and the other tasks
LEMMA ListEnvironment ==
    ASSUME ListInv,
           \/ Tick \/ TimeSync \/ Boot \/ PowerLoss
           \/ VoiceStart \/ VoiceStop \/ Cancel \/ Acknowledge
    PROVE  ListInv'
<1> USE DEF flashVars, clockVars, flagVars, requestVars, alertVars, ramVars
<1>1. CASE Tick
  BY <1>1 DEF Tick, ListInv, Flags, Counters, Queued, Lists, Chimes
<1>2. CASE TimeSync
  BY <1>2 DEF TimeSync, ListInv, Flags, Counters, Queued, Lists, Chimes
<1>3. CASE Boot
  <2>1. Flags'
    <3>1. /\ pc' = "wait" /\ UNCHANGED <<held, pending, cancelled, timeValid>>
          /\ storageOk' \in BOOLEAN
      BY <1>3 DEF Boot
    <3>2. QED
      BY <3>1 DEF ListInv, Flags
  <2>5. Counters'
    <3>1. /\ UNCHANGED <<clock, retryAt, alert>>
          /\ faults' \in {faults, faults + 1}
      BY <1>3 DEF Boot, Fault
    <3>2. QED
      BY <3>1 DEF ListInv, Counters
  <2>2. Queued' /\ Chimes' /\ seen' = seen /\ change' = change /\ nvs' = nvs
    BY <1>3 DEF Boot, ListInv, Queued, Chimes
  <2>3. Good(todos')
    BY <1>3, EmptyGood DEF Boot, ListInv, Lists
  <2>4. QED
    BY <2>1, <2>2, <2>3, <2>5 DEF ListInv, Lists
<1>4. CASE PowerLoss
  <2>1. Flags'
    BY <1>4 DEF PowerLoss, Flags
  <2>2. Counters'
    BY <1>4 DEF PowerLoss, Fault, ListInv, Counters
  <2>3. Queued'
    BY <1>4, EmptySeq, TodoAssumption DEF PowerLoss, Queued
  <2>4. Lists' /\ Chimes' /\ seen'.at \in Nat
    BY <1>4, EmptyGood, EmptyRecords DEF PowerLoss, ListInv, Lists, Chimes
  <2>5. QED
    BY <2>1, <2>2, <2>3, <2>4 DEF ListInv
<1>5. ASSUME UNCHANGED <<pc, chime, flashVars, clockVars, requestVars, alertVars,
                         ramVars>>,
             held' \in BOOLEAN, pending' \in BOOLEAN, cancelled' \in BOOLEAN,
             Queued'
      PROVE  ListInv'
  BY <1>5 DEF ListInv, Flags, Counters, Lists, Chimes
<1>6. /\ held \in BOOLEAN /\ pending \in BOOLEAN /\ cancelled \in BOOLEAN
      /\ Queued
  BY DEF ListInv, Flags
<1>7. {"voice", "ack", "other"} \subseteq Commands
  BY DEF Commands
<1>8. CASE VoiceStart
  <2>1. Queued'
    BY <1>6, <1>7, <1>8, QueueAppend DEF VoiceStart, Queued
  <2>2. held' \in BOOLEAN /\ pending' \in BOOLEAN /\ cancelled' \in BOOLEAN
    <3>1. Room \in BOOLEAN
      BY DEF Room
    <3>2. pending' = Room /\ held' \in BOOLEAN /\ cancelled' = FALSE
      BY <1>8 DEF VoiceStart
    <3>3. QED
      BY <3>1, <3>2
  <2>3. QED
    BY <1>5, <1>8, <2>1, <2>2 DEF VoiceStart
<1>9. CASE VoiceStop
  BY <1>5, <1>6, <1>9 DEF VoiceStop, Queued
<1>10. CASE Cancel
  <2>1. Queued'
    BY <1>6, <1>7, <1>10, QueueAppend DEF Cancel, Queued
  <2>2. QED
    BY <1>5, <1>6, <1>10, <2>1 DEF Cancel
<1>11. CASE Acknowledge
  <2>1. Queued'
    BY <1>6, <1>7, <1>11, QueueAppend DEF Acknowledge, Queued
  <2>2. QED
    BY <1>5, <1>6, <1>11, <2>1 DEF Acknowledge
<1>12. QED
  BY <1>1, <1>2, <1>3, <1>4, <1>8, <1>9, <1>10, <1>11

\* The commands the controller takes
LEMMA ListTurn ==
    ASSUME ListInv, Turn
    PROVE  ListInv'
<1> USE DEF flashVars, clockVars, flagVars, requestVars, alertVars, ramVars
<1>1. Queued'
  BY QueueTail DEF Turn, TakeOther, TakeAck, Timeout, TakeVoice, TurnEnds,
                   ListInv, Queued
<1>2. Flags'
  BY DEF Turn, TakeOther, TakeAck, Timeout, TakeVoice, TurnEnds, ListInv, Flags,
         VoiceSteps, Waits
<1>3. Counters'
  BY DEF Turn, TakeOther, TakeAck, Timeout, TakeVoice, TurnEnds, ListInv, Counters
<1>4. UNCHANGED <<todos, nvs, seen, change, chime>>
  BY DEF Turn, TakeOther, TakeAck, Timeout, TakeVoice, TurnEnds
<1>5. QED
  BY <1>1, <1>2, <1>3, <1>4 DEF ListInv, Lists, Chimes

\* A reminder that sounds and is saved
LEMMA ListReminder ==
    ASSUME ListInv, Reminder
    PROVE  ListInv'
<1> USE DEF flashVars, clockVars, flagVars, requestVars, alertVars, ramVars
<1>1. Queued'
  BY DEF Reminder, Chime, ChimeSounded, ChimeSilent, ChimeSaved, ChimeNotSaved,
         ListInv, Queued
<1>2. Flags'
  BY DEF Reminder, Chime, ChimeSounded, ChimeSilent, ChimeSaved, ChimeNotSaved,
         ChimeEnds, ListInv, Flags
<1>3. CASE Chime
  BY <1>1, <1>2, <1>3, ChimeGood DEF Chime, ListInv, Counters, Lists
<1>4. CASE ChimeSounded
  <2>1. chime' = [stage |-> "save", title |-> chime.title, id |-> chime.id,
                  due |-> chime.due, list |-> chime.list]
    BY <1>4 DEF ChimeSounded, ListInv, Chimes
  <2>2. Chimes'
    BY <2>1 DEF ListInv, Chimes
  <2>3. QED
    BY <1>1, <1>2, <1>4, <2>2 DEF ChimeSounded, ListInv, Counters, Lists
<1>5. CASE ChimeSilent \/ ChimeSaved \/ ChimeNotSaved
  <2>1. chime' = NoChime /\ alert' = chime.id
    BY <1>5 DEF ChimeSilent, ChimeSaved, ChimeNotSaved, ChimeEnds
  <2>2. Chimes'
    BY <2>1, EmptyRecords DEF Chimes
  <2>3. Counters'
    BY <1>5, <2>1 DEF ChimeSilent, ChimeSaved, ChimeNotSaved, Fault,
                      ListInv, Counters, Chimes
  <2>4. /\ todos' \in {todos, chime.list} /\ nvs' \in {nvs, chime.list}
        /\ UNCHANGED <<seen, change>>
    BY <1>5 DEF ChimeSilent, ChimeSaved, ChimeNotSaved
  <2>5. Lists'
    BY <2>4 DEF ListInv, Lists, Chimes
  <2>6. QED
    BY <1>1, <1>2, <2>2, <2>3, <2>4, <2>5 DEF ListInv
<1>6. QED
  BY <1>3, <1>4, <1>5 DEF Reminder

\* A voice request, from the recording to the save
LEMMA ListVoice ==
    ASSUME ListInv, Voice
    PROVE  ListInv'
<1> USE DEF flashVars, clockVars, flagVars, requestVars, alertVars, ramVars
<1>1. Queued' /\ Chimes'
  BY DEF Voice, Record, RecordEnds, Transcribed, Interpreted, VoiceFails,
         CancelledAtLast, Commit, CommitFails, RequestOver, ReleaseHeld,
         ListInv, Queued, Chimes
<1>2. Flags'
  BY DEF Voice, Record, RecordEnds, Transcribed, Interpreted, VoiceFails,
         CancelledAtLast, Commit, CommitFails, RequestOver, ReleaseHeld, Stop,
         ListInv, Flags, VoiceSteps, Waits
<1>3. Counters'
  BY DEF Voice, Record, RecordEnds, Transcribed, Interpreted, VoiceFails,
         CancelledAtLast, Commit, CommitFails, RequestOver, ReleaseHeld, Fault,
         ListInv, Counters
<1>4. Lists' /\ seen'.at \in Nat
  <2>1. CASE Transcribed
    BY <2>1 DEF Transcribed, ListInv, Lists, Counters
  <2>2. CASE Interpreted
    BY <2>2, RequestGood DEF Interpreted, ListInv, Lists
  <2>3. CASE Commit \/ CommitFails
    BY <2>3 DEF Commit, CommitFails, Stop, ListInv, Lists
  <2>4. CASE RequestOver
    BY <2>4, EmptyRecords DEF RequestOver, ListInv, Lists
  <2>5. CASE Record \/ RecordEnds \/ VoiceFails \/ CancelledAtLast \/ ReleaseHeld
    BY <2>5 DEF Record, RecordEnds, VoiceFails, CancelledAtLast, ReleaseHeld,
                Stop, ListInv, Lists
  <2>6. QED
    BY <2>1, <2>2, <2>3, <2>4, <2>5 DEF Voice
<1>5. QED
  BY <1>1, <1>2, <1>3, <1>4 DEF ListInv

\* All of them
LEMMA ListInductive ==
    /\ Init => ListInv
    /\ ListInv /\ [Next]_vars => ListInv'
<1>1. ListInv /\ [Next]_vars => ListInv'
  <2> SUFFICES ASSUME ListInv, [Next]_vars PROVE ListInv'
    OBVIOUS
  <2>1. CASE UNCHANGED vars
    BY <2>1 DEF vars, flashVars, clockVars, flagVars, requestVars, alertVars,
                ramVars, ListInv, Flags, Counters, Queued, Lists, Chimes
  <2>2. QED
    BY <2>1, ListEnvironment, ListTurn, ListReminder, ListVoice DEF Next
<1>2. QED
  BY <1>1, ListInitial

\* Every list the program holds, stores or is about to store is one that
\* smart_todo_valid accepts, so that no save and no boot refuses it.
THEOREM TodoListsValid == Spec => []TypeOK
<1>1. QED
  BY ListInductive, ListInvTypes, PTL DEF Spec

-------------------------------------------------------------------------------
(* One request *)

\* OneRequest is not inductive: a start while a request is being worked on
\* would break it.  The pending flag is set for as long as one is.
RequestInv ==
    /\ OneRequest
    /\ pc \in VoiceSteps => pending
    /\ queue \in Seq(Commands)

\* The commands of a queue with one command less are those of the queue, one
\* place further on.
LEMMA TailPlaces ==
    ASSUME queue \in Seq(Commands), queue # <<>>
    PROVE  /\ Tail(queue) \in Seq(Commands)
           /\ 1 \in DOMAIN queue /\ Head(queue) = queue[1]
           /\ \A i \in DOMAIN Tail(queue) :
                 /\ i \in Nat
                 /\ i + 1 \in DOMAIN queue
                 /\ i + 1 # 1
                 /\ Tail(queue)[i] = queue[i + 1]
  BY HeadTailProperties

\* The commands of a queue with one command more are those of the queue, and
\* the new one at a place of its own.
LEMMA AppendPlaces ==
    ASSUME queue \in Seq(Commands), NEW command \in Commands
    PROVE  /\ Append(queue, command) \in Seq(Commands)
           /\ DOMAIN Append(queue, command) = DOMAIN queue \cup {Len(queue) + 1}
           /\ Append(queue, command)[Len(queue) + 1] = command
           /\ \A i \in DOMAIN queue :
                 i # Len(queue) + 1 /\ Append(queue, command)[i] = queue[i]
  BY AppendProperties

\* A command that is not a voice request changes nothing for OneRequest ...
LEMMA AppendOther ==
    ASSUME RequestInv, NEW command \in Commands \ {"voice"},
           queue' \in {queue, Append(queue, command)},
           pc' = pc, pending' = pending
    PROVE  RequestInv'
<1>1. /\ queue' \in Seq(Commands)
      /\ \A i \in DOMAIN queue' :
            queue'[i] = "voice" => i \in DOMAIN queue /\ queue[i] = "voice"
  BY AppendPlaces DEF RequestInv
<1>2. QED
  BY <1>1 DEF RequestInv, OneRequest, VoiceSteps, Waits

\* ... and neither does taking one out of the queue.
LEMMA TakeHead ==
    ASSUME RequestInv, queue # <<>>, queue' = Tail(queue), pending' = pending,
           \/ pc' \notin VoiceSteps
           \/ Head(queue) = "voice"
    PROVE  RequestInv'
<1>1. /\ queue' \in Seq(Commands)
      /\ 1 \in DOMAIN queue /\ Head(queue) = queue[1]
      /\ \A i \in DOMAIN queue' :
            /\ i \in Nat
            /\ i + 1 \in DOMAIN queue
            /\ i + 1 # 1
            /\ queue'[i] = queue[i + 1]
  BY TailPlaces DEF RequestInv
<1>2. \A i, j \in DOMAIN queue' :
          queue'[i] = "voice" /\ queue'[j] = "voice" => i = j
  <2>1. TAKE i, j \in DOMAIN queue'
  <2>2. HAVE queue'[i] = "voice" /\ queue'[j] = "voice"
  <2>3. i + 1 = j + 1
    BY <1>1, <2>2 DEF RequestInv, OneRequest
  <2>4. QED
    BY <1>1, <2>3
<1>3. ASSUME Head(queue) = "voice"
      PROVE  pending /\ \A i \in DOMAIN queue' : queue'[i] # "voice"
  BY <1>1, <1>3 DEF RequestInv, OneRequest
<1>4. \A i \in DOMAIN queue' : queue'[i] = "voice" => pending
  BY <1>1 DEF RequestInv, OneRequest
<1>5. QED
  BY <1>1, <1>2, <1>3, <1>4 DEF RequestInv, OneRequest

\* The invariant holds at first and every step keeps it.
LEMMA RequestInductive ==
    /\ Init => RequestInv
    /\ RequestInv /\ [Next]_vars => RequestInv'
<1>1. Init => RequestInv
  BY EmptySeq DEF Init, RequestInv, OneRequest, VoiceSteps, Waits
<1>2. RequestInv /\ [Next]_vars => RequestInv'
  <2> SUFFICES ASSUME RequestInv, [Next]_vars PROVE RequestInv'
    OBVIOUS
  <2> USE DEF flashVars, clockVars, flagVars, requestVars, alertVars, ramVars
  <2>1. ASSUME queue' = queue, pending' = pending,
               pc' \in VoiceSteps => pc \in VoiceSteps
        PROVE  RequestInv'
    BY <2>1 DEF RequestInv, OneRequest
  <2>2. CASE PowerLoss
    BY <2>2, EmptySeq DEF PowerLoss, RequestInv, OneRequest, VoiceSteps, Waits
  <2>3. CASE VoiceStart
    <3>1. ~pending /\ pc \notin VoiceSteps /\ pc' = pc
      BY <2>3 DEF VoiceStart, MayStart, RequestInv
    <3>2. \A i \in DOMAIN queue : queue[i] # "voice"
      BY <3>1 DEF RequestInv, OneRequest
    <3>3. CASE Room
      <4>1. pending' /\ queue' = Append(queue, "voice")
        BY <2>3, <3>3 DEF VoiceStart
      <4>2. /\ queue' \in Seq(Commands)
            /\ \A i \in DOMAIN queue' : queue'[i] = "voice" => i = Len(queue) + 1
        BY <3>2, <4>1, AppendPlaces DEF RequestInv, Commands
      <4>3. QED
        BY <3>1, <4>1, <4>2 DEF RequestInv, OneRequest
    <3>4. CASE ~Room
      BY <2>3, <3>1, <3>2, <3>4 DEF VoiceStart, RequestInv, OneRequest
    <3>5. QED
      BY <3>3, <3>4
  <2>4. CASE Cancel
    <3>1. "other" \in Commands \ {"voice"}
      BY DEF Commands
    <3>2. QED
      BY <2>4, <3>1, AppendOther DEF Cancel
  <2>5. CASE Acknowledge
    <3>1. "ack" \in Commands \ {"voice"}
      BY DEF Commands
    <3>2. QED
      BY <2>5, <3>1, AppendOther DEF Acknowledge
  <2>6. CASE TakeOther \/ TakeAck
    BY <2>6, TakeHead DEF TakeOther, TakeAck, VoiceSteps, Waits
  <2>7. CASE TakeVoice
    BY <2>7, TakeHead DEF TakeVoice
  <2>8. CASE RequestOver
    <3>1. \A i \in DOMAIN queue : queue[i] # "voice"
      BY <2>8 DEF RequestOver, RequestInv, OneRequest, VoiceSteps
    <3>2. QED
      BY <2>8, <3>1 DEF RequestOver, RequestInv, OneRequest, VoiceSteps, Waits
  <2>9. CASE Tick \/ TimeSync \/ Boot \/ VoiceStop
    BY <2>1, <2>9 DEF Tick, TimeSync, Boot, VoiceStop, VoiceSteps, Waits
  <2>10. CASE Timeout \/ TurnEnds
    BY <2>1, <2>10 DEF Timeout, TurnEnds, VoiceSteps, Waits
  <2>11. CASE Reminder
    BY <2>1, <2>11 DEF Reminder, Chime, ChimeSounded, ChimeSilent, ChimeSaved,
                       ChimeNotSaved, ChimeEnds, VoiceSteps, Waits
  <2>12. CASE \/ Record \/ RecordEnds \/ Transcribed \/ Interpreted \/ VoiceFails
              \/ CancelledAtLast \/ Commit \/ CommitFails \/ ReleaseHeld
    BY <2>1, <2>12 DEF Record, RecordEnds, Transcribed, Interpreted, VoiceFails,
                       CancelledAtLast, Commit, CommitFails, ReleaseHeld, Stop,
                       VoiceSteps, Waits
  <2>13. CASE UNCHANGED vars
    BY <2>1, <2>13 DEF vars
  <2>14. QED
    BY <2>2, <2>3, <2>4, <2>5, <2>6, <2>7, <2>8, <2>9, <2>10, <2>11, <2>12, <2>13
       DEF Next, Turn, Voice
<1>3. QED
  BY <1>1, <1>2

\* At most one voice request is queued or being worked on: the compare and
\* exchange on s_voice_pending in app_controller_dispatch is enough, whatever
\* the other tasks do and wherever the power goes.
THEOREM OneRequestHolds == Spec => []OneRequest
<1>1. RequestInv => OneRequest
  BY DEF RequestInv
<1>2. QED
  BY RequestInductive, <1>1, PTL DEF Spec

-------------------------------------------------------------------------------
(* Numbers stand still *)

\* NumbersStandStill is not inductive: the save of a reminder replaces the list
\* by one that was computed before the sound.  That list has the numbers of the
\* list it replaces, because no reminder sounds while a request is committed.
NumbersInv ==
    /\ NumbersStandStill
    /\ chime = [stage |-> chime.stage, title |-> chime.title, id |-> chime.id,
                due |-> chime.due, list |-> chime.list]
    /\ chime.stage # "none" =>
          pc \in {"tick"} \cup Waits /\ SameNumbers(chime.list, todos)

\* A reminder that sounds changes no number, title or completion.
LEMMA RemindedSameNumbers ==
    ASSUME NEW list, NEW i, NEW now
    PROVE  SameNumbers(Reminded(list, i, now), list)
  BY DEF SameNumbers, Reminded, WithDue

\* Having the same numbers is transitive.
LEMMA SameNumbersTransitive ==
    ASSUME NEW a, NEW b, NEW c, SameNumbers(a, b), SameNumbers(b, c)
    PROVE  SameNumbers(a, c)
  BY DEF SameNumbers

\* No reminder sounds while the controller is quiet.
LEMMA QuietStage ==
    Quiet => chime.stage = "none"
  BY DEF Quiet, NoChime

\* The steps that start, continue and end a reminder
LEMMA NumbersReminder ==
    ASSUME NumbersInv, Reminder
    PROVE  NumbersInv'
<1> USE DEF flashVars, clockVars, flagVars, requestVars, alertVars, ramVars
<1>1. CASE Chime
  <2>1. PICK i \in Due(todos, clock) :
            chime' = [stage |-> "sound", title |-> todos.items[i].title,
                      id |-> todos.items[i].id, due |-> todos.items[i].due,
                      list |-> Reminded(todos, i, clock)]
    BY <1>1 DEF Chime
  <2>2. pc' = pc /\ todos' = todos /\ seen' = seen /\ pc \in {"tick"} \cup Waits
    BY <1>1 DEF Chime
  <2>3. SameNumbers(chime'.list, todos')
    BY <2>1, <2>2, RemindedSameNumbers
  <2>4. NumbersStandStill'
    BY <2>2 DEF NumbersInv, NumbersStandStill
  <2>5. QED
    BY <2>1, <2>2, <2>3, <2>4 DEF NumbersInv
<1>2. CASE ChimeSounded
  <2>1. /\ chime' = [stage |-> "save", title |-> chime.title, id |-> chime.id,
                     due |-> chime.due, list |-> chime.list]
        /\ chime.stage = "sound"
    BY <1>2 DEF ChimeSounded, NumbersInv
  <2>2. pc' = pc /\ todos' = todos /\ seen' = seen
    BY <1>2 DEF ChimeSounded
  <2>3. pc \in {"tick"} \cup Waits /\ SameNumbers(chime.list, todos)
    BY <2>1 DEF NumbersInv
  <2>4. NumbersStandStill'
    BY <2>2 DEF NumbersInv, NumbersStandStill
  <2>5. QED
    BY <2>1, <2>2, <2>3, <2>4 DEF NumbersInv
<1>3. CASE ChimeSilent \/ ChimeNotSaved
  <2>1. chime' = NoChime /\ todos' = todos /\ seen' = seen
    BY <1>3 DEF ChimeSilent, ChimeNotSaved, ChimeEnds
  <2>2. pc' \in {"chat", "commit"} => pc \in {"chat", "commit"}
    BY <1>3 DEF ChimeSilent, ChimeNotSaved, ChimeEnds
  <2>3. NumbersStandStill'
    BY <2>1, <2>2 DEF NumbersInv, NumbersStandStill
  <2>4. QED
    BY <2>1, <2>3 DEF NumbersInv, NoChime
<1>4. CASE ChimeSaved
  <2>1. chime' = NoChime /\ todos' = chime.list /\ seen' = seen
    BY <1>4 DEF ChimeSaved, ChimeEnds
  <2>2. pc' \in {"chat", "commit"} => pc \in {"chat", "commit"}
    BY <1>4 DEF ChimeSaved, ChimeEnds
  <2>3. SameNumbers(chime.list, todos)
    BY <1>4 DEF ChimeSaved, NumbersInv
  <2>4. NumbersStandStill'
    BY <2>1, <2>2, <2>3, SameNumbersTransitive DEF NumbersInv, NumbersStandStill
  <2>5. QED
    BY <2>1, <2>4 DEF NumbersInv, NoChime
<1>5. QED
  BY <1>1, <1>2, <1>3, <1>4 DEF Reminder

\* The steps of a voice request: all but Commit leave the list alone, and after
\* it the answer has been used.
LEMMA NumbersVoice ==
    ASSUME NumbersInv, Voice
    PROVE  NumbersInv'
<1> USE DEF flashVars, clockVars, flagVars, requestVars, alertVars, ramVars
<1>1. chime' = chime
  BY DEF Voice, Record, RecordEnds, Transcribed, Interpreted, VoiceFails,
         CancelledAtLast, Commit, CommitFails, RequestOver, ReleaseHeld
<1>2. chime.stage = "none"
  <2>1. CASE pc \in Waits
    BY <2>1, QuietStage
       DEF Voice, Record, RecordEnds, Transcribed, Interpreted, VoiceFails,
           CancelledAtLast, Commit, CommitFails, RequestOver, ReleaseHeld, Waits
  <2>2. CASE pc \notin Waits
    <3>1. pc # "tick"
      BY <2>2 DEF Voice, Record, RecordEnds, Transcribed, Interpreted, VoiceFails,
             CancelledAtLast, Commit, CommitFails, RequestOver, ReleaseHeld, Waits
    <3>2. QED
      BY <2>2, <3>1 DEF NumbersInv
  <2>3. QED
    BY <2>1, <2>2
<1>3. NumbersStandStill'
  <2>1. CASE Transcribed
    BY <2>1 DEF Transcribed, NumbersStandStill, SameNumbers
  <2>2. CASE Interpreted
    BY <2>2 DEF Interpreted, NumbersInv, NumbersStandStill
  <2>3. CASE \/ Record \/ RecordEnds \/ VoiceFails \/ CancelledAtLast
             \/ Commit \/ CommitFails \/ RequestOver \/ ReleaseHeld
    <3>1. pc' \notin {"chat", "commit"}
      BY <2>3 DEF Record, RecordEnds, VoiceFails, CancelledAtLast, Commit,
                  CommitFails, RequestOver, ReleaseHeld, Stop
    <3>2. QED
      BY <3>1 DEF NumbersStandStill
  <2>4. QED
    BY <2>1, <2>2, <2>3 DEF Voice
<1>4. QED
  BY <1>1, <1>2, <1>3 DEF NumbersInv

\* The invariant holds at first and every step keeps it.
LEMMA NumbersInductive ==
    /\ Init => NumbersInv
    /\ NumbersInv /\ [Next]_vars => NumbersInv'
<1>1. Init => NumbersInv
  BY DEF Init, NumbersInv, NumbersStandStill, NoChime
<1>2. NumbersInv /\ [Next]_vars => NumbersInv'
  <2> SUFFICES ASSUME NumbersInv, [Next]_vars PROVE NumbersInv'
    OBVIOUS
  <2> USE DEF flashVars, clockVars, flagVars, requestVars, alertVars, ramVars
  <2>1. ASSUME UNCHANGED <<pc, chime, todos, seen>>
        PROVE  NumbersInv'
    BY <2>1 DEF NumbersInv, NumbersStandStill
  <2>2. ASSUME UNCHANGED <<chime, todos, seen>>, pc \in {"wait", "tick"},
               pc' \in {"wait", "tick", "prepare", "done"},
               pc = "wait" \/ Quiet
        PROVE  NumbersInv'
    <3>1. chime.stage = "none"
      BY <2>2, QuietStage DEF NumbersInv, Waits
    <3>2. QED
      BY <2>2, <3>1 DEF NumbersInv, NumbersStandStill
  <2>3. CASE Boot
    <3>1. chime' = chime /\ chime.stage = "none" /\ pc' = "wait"
      BY <2>3 DEF Boot, NumbersInv, Waits
    <3>2. QED
      BY <3>1 DEF NumbersInv, NumbersStandStill
  <2>4. CASE PowerLoss
    BY <2>4 DEF PowerLoss, NumbersInv, NumbersStandStill, NoChime
  <2>5. CASE Turn
    BY <2>2, <2>5 DEF Turn, TakeOther, TakeAck, Timeout, TakeVoice, TurnEnds
  <2>6. CASE Tick \/ TimeSync \/ VoiceStart \/ VoiceStop \/ Cancel \/ Acknowledge
    BY <2>1, <2>6 DEF Tick, TimeSync, VoiceStart, VoiceStop, Cancel, Acknowledge
  <2>7. CASE UNCHANGED vars
    BY <2>1, <2>7 DEF vars
  <2>8. QED
    BY <2>3, <2>4, <2>5, <2>6, <2>7, NumbersReminder, NumbersVoice DEF Next
<1>3. QED
  BY <1>1, <1>2

\* While the interpreter works on a list, whatever sounds or fails meanwhile,
\* its numbers go on naming the items they were sent for.
THEOREM NumbersStandStillHolds == Spec => []NumbersStandStill
<1>1. NumbersInv => NumbersStandStill
  BY DEF NumbersInv
<1>2. QED
  BY NumbersInductive, <1>1, PTL DEF Spec

-------------------------------------------------------------------------------
(* What an operation does to the reminders of a list *)

\* A reminder is that of an item.
LEMMA ReminderPlace ==
    ASSUME NEW list
    PROVE  /\ \A r \in Reminders(list) :
                 \E i \in DOMAIN list.items :
                    /\ list.items[i].due # 0
                    /\ r = <<list.items[i].title, list.items[i].due>>
           /\ \A i \in DOMAIN list.items :
                 list.items[i].due # 0 =>
                     <<list.items[i].title, list.items[i].due>> \in Reminders(list)
  BY DEF Reminders

\* The items of a list that a request names, by their titles
TitlesNamed(list, ids) ==
    {list.items[i].title :
        i \in {j \in DOMAIN list.items : list.items[j].id \in ids}}

\* An item that is added brings its own reminder and takes none away.
LEMMA AddReminders ==
    ASSUME NEW list, Good(list), NEW title, NEW due, NEW repeat
    PROVE  /\ Reminders(list) \subseteq Reminders(Add(list, title, due, repeat))
           /\ \A r \in Reminders(Add(list, title, due, repeat)) :
                 r \in Reminders(list) \/ (due # 0 /\ r = <<title, due>>)
<1> DEFINE n == Len(list.items)
           item == [id |-> list.next, title |-> title, due |-> due,
                    repeat |-> repeat, done |-> FALSE]
           new == Add(list, title, due, repeat)
<1>1. n \in Nat /\ list.items \in Seq(Item) /\ DOMAIN list.items = 1..n
  BY GoodElim
<1>2. new.items = Append(list.items, item)
  BY DEF Add
<1>3. item.title = title /\ item.due = due
  OBVIOUS
<1> HIDE DEF item, new
<1>4. /\ DOMAIN new.items = 1..(n + 1) /\ new.items[n + 1] = item
      /\ \A i \in 1..n : new.items[i] = list.items[i]
  <2>1. \A s \in Seq(Item) : s \in Seq(Item \cup {item})
    BY SeqMonotonic
  <2>2. list.items \in Seq(Item \cup {item}) /\ item \in Item \cup {item}
    BY <1>1, <2>1
  <2> HIDE DEF n
  <2>3. QED
    BY <1>1, <1>2, <2>2, AppendProperties, LenProperties DEF n
<1> HIDE DEF n
<1>5. ASSUME NEW r \in Reminders(list)
      PROVE  r \in Reminders(new)
  <2>1. PICK i \in 1..n : /\ list.items[i].due # 0
                          /\ r = <<list.items[i].title, list.items[i].due>>
    BY <1>1, ReminderPlace
  <2>2. i \in DOMAIN new.items /\ new.items[i] = list.items[i]
    BY <1>1, <1>4
  <2>3. QED
    BY <2>1, <2>2, ReminderPlace
<1>6. ASSUME NEW r \in Reminders(new)
      PROVE  r \in Reminders(list) \/ (due # 0 /\ r = <<title, due>>)
  <2>1. PICK i \in DOMAIN new.items :
            /\ new.items[i].due # 0
            /\ r = <<new.items[i].title, new.items[i].due>>
    BY ReminderPlace
  <2>2. i \in 1..n \/ i = n + 1
    BY <1>1, <1>4
  <2>3. CASE i = n + 1
    BY <1>3, <1>4, <2>1, <2>3
  <2>4. CASE i \in 1..n
    <3>1. i \in DOMAIN list.items /\ new.items[i] = list.items[i]
      BY <1>1, <1>4, <2>4
    <3>2. /\ list.items[i].due # 0
          /\ r = <<list.items[i].title, list.items[i].due>>
      BY <2>1, <3>1
    <3>3. QED
      BY <3>1, <3>2, ReminderPlace
  <2>5. QED
    BY <2>2, <2>3, <2>4
<1>7. QED
  BY <1>5, <1>6 DEF new

\* Completing items brings no reminder, and takes away those of named items.
LEMMA CompleteReminders ==
    ASSUME NEW list, Good(list), NEW ids
    PROVE  /\ Reminders(Complete(list, ids)) \subseteq Reminders(list)
           /\ \A r \in Reminders(list) :
                 \/ r \in Reminders(Complete(list, ids))
                 \/ r[1] \in TitlesNamed(list, ids)
<1> DEFINE new == Complete(list, ids)
<1>1. /\ DOMAIN new.items = DOMAIN list.items
      /\ \A i \in DOMAIN list.items :
            IF list.items[i].id \in ids
            THEN new.items[i] = Closed(list.items[i])
            ELSE new.items[i] = list.items[i]
  BY DEF Complete
<1>2. ASSUME NEW i \in DOMAIN list.items
      PROVE  Closed(list.items[i]).due = 0
  <2>1. list.items[i] \in Item
    BY GoodElim
  <2>2. QED
    BY <2>1 DEF Item, Closed
<1> HIDE DEF new
<1>3. ASSUME NEW r \in Reminders(new)
      PROVE  r \in Reminders(list)
  <2>1. PICK i \in DOMAIN list.items :
            /\ new.items[i].due # 0
            /\ r = <<new.items[i].title, new.items[i].due>>
    BY <1>1, ReminderPlace
  <2>2. new.items[i] = list.items[i]
    BY <1>1, <1>2, <2>1
  <2>3. QED
    BY <2>1, <2>2, ReminderPlace
<1>4. ASSUME NEW r \in Reminders(list)
      PROVE  r \in Reminders(new) \/ r[1] \in TitlesNamed(list, ids)
  <2>1. PICK i \in DOMAIN list.items :
            /\ list.items[i].due # 0
            /\ r = <<list.items[i].title, list.items[i].due>>
    BY ReminderPlace
  <2>2. CASE list.items[i].id \in ids
    BY <2>1, <2>2 DEF TitlesNamed
  <2>3. CASE list.items[i].id \notin ids
    <3>1. new.items[i] = list.items[i] /\ i \in DOMAIN new.items
      BY <1>1, <2>3
    <3>2. QED
      BY <2>1, <3>1, ReminderPlace
  <2>4. QED
    BY <2>2, <2>3
<1>5. QED
  BY <1>3, <1>4 DEF new

\* So does deleting them.
LEMMA DeleteReminders ==
    ASSUME NEW list, Good(list), NEW ids
    PROVE  /\ Reminders(Delete(list, ids)) \subseteq Reminders(list)
           /\ \A r \in Reminders(list) :
                 \/ r \in Reminders(Delete(list, ids))
                 \/ r[1] \in TitlesNamed(list, ids)
<1> DEFINE new == Delete(list, ids)
           kept == Kept(list, ids)
           count == Cardinality(kept)
           Numbered(item, n) == [item EXCEPT !.id = n]
<1>1. /\ Len(list.items) \in Nat /\ DOMAIN list.items = 1..Len(list.items)
      /\ list.items \in [1..Len(list.items) -> Item]
  BY GoodElim
<1>2. /\ kept \in SUBSET (1..Len(list.items))
      /\ \A i \in DOMAIN list.items : i \in kept \/ list.items[i].id \in ids
  BY <1>1 DEF Kept
<1>3. /\ DOMAIN new.items = 1..count
      /\ \A n \in 1..count : new.items[n] = Numbered(list.items[Read(kept, n)], n)
  BY DEF Delete
<1>4. ASSUME NEW item \in Item, NEW n
      PROVE  /\ Numbered(item, n).title = item.title
             /\ Numbered(item, n).due = item.due
  BY DEF Item
<1> HIDE DEF new, kept, Numbered
<1>5. /\ \A n \in 1..count : Read(kept, n) \in kept
      /\ \A i \in kept : /\ Written(kept, i) \in 1..count
                         /\ Read(kept, Written(kept, i)) = i
  BY <1>1, <1>2, ReadPlace
<1> HIDE DEF count
<1>6. ASSUME NEW n \in 1..count
      PROVE  /\ Read(kept, n) \in DOMAIN list.items
             /\ new.items[n].title = list.items[Read(kept, n)].title
             /\ new.items[n].due = list.items[Read(kept, n)].due
  <2>1. Read(kept, n) \in DOMAIN list.items /\ list.items[Read(kept, n)] \in Item
    BY <1>1, <1>2, <1>5
  <2>2. QED
    BY <1>3, <1>4, <2>1
<1>7. ASSUME NEW r \in Reminders(new)
      PROVE  r \in Reminders(list)
  <2>1. PICK n \in 1..count : /\ new.items[n].due # 0
                              /\ r = <<new.items[n].title, new.items[n].due>>
    BY <1>3, ReminderPlace
  <2>2. QED
    BY <1>6, <2>1, ReminderPlace
<1>8. ASSUME NEW r \in Reminders(list)
      PROVE  r \in Reminders(new) \/ r[1] \in TitlesNamed(list, ids)
  <2>1. PICK i \in DOMAIN list.items :
            /\ list.items[i].due # 0
            /\ r = <<list.items[i].title, list.items[i].due>>
    BY ReminderPlace
  <2>2. CASE list.items[i].id \in ids
    BY <2>1, <2>2 DEF TitlesNamed
  <2>3. CASE i \in kept
    <3>1. PICK n \in 1..count : Read(kept, n) = i
      BY <1>5, <2>3
    <3>2. /\ n \in DOMAIN new.items /\ new.items[n].due # 0
          /\ r = <<new.items[n].title, new.items[n].due>>
      BY <1>3, <1>6, <2>1, <3>1
    <3>3. QED
      BY <3>2, ReminderPlace
  <2>4. QED
    BY <1>2, <2>2, <2>3
<1>9. QED
  BY <1>7, <1>8 DEF new

\* A reminder that sounds leaves the others and moves its own to a later time.
LEMMA RemindedReminders ==
    ASSUME NEW list, Good(list), NEW now \in Nat, NEW i \in Due(list, now)
    PROVE  LET own == <<list.items[i].title, list.items[i].due>>
               new == Reminded(list, i, now)
           IN  /\ own \in Reminders(list)
               /\ list.items[i].due <= now
               /\ \A r \in Reminders(list) : r \in Reminders(new) \/ r = own
               /\ \A r \in Reminders(new) :
                     \/ r \in Reminders(list) /\ r # own
                     \/ r[2] \in Nat /\ r[2] > now
<1> DEFINE own == <<list.items[i].title, list.items[i].due>>
           new == Reminded(list, i, now)
           due == Rescheduled(list.items[i], now)
<1>1. /\ i \in DOMAIN list.items /\ list.items[i] \in Item
      /\ list.items[i].due # 0 /\ list.items[i].due <= now
  BY DueItem, GoodElim
<1>2. \A j, k \in DOMAIN list.items :
         j # k => list.items[j].title # list.items[k].title
  BY GoodElim
<1>3. /\ DOMAIN new.items = DOMAIN list.items
      /\ new.items[i].title = list.items[i].title /\ new.items[i].due = due
      /\ \A j \in DOMAIN list.items \ {i} : new.items[j] = list.items[j]
  BY <1>1 DEF Reminded, WithDue, Rescheduled
<1>4. due # 0 => due \in Nat /\ due > now
  <2>1. CASE list.items[i].repeat = 0
    BY <2>1 DEF Rescheduled
  <2>2. CASE list.items[i].repeat # 0
    BY <1>1, <2>2, NextDueLater DEF Rescheduled
  <2>3. QED
    BY <2>1, <2>2
<1> HIDE DEF new, due
<1>5. own \in Reminders(list)
  BY <1>1, ReminderPlace
<1>6. ASSUME NEW r \in Reminders(list)
      PROVE  r \in Reminders(new) \/ r = own
  <2>1. PICK j \in DOMAIN list.items :
            /\ list.items[j].due # 0
            /\ r = <<list.items[j].title, list.items[j].due>>
    BY ReminderPlace
  <2>2. CASE j = i
    BY <2>1, <2>2
  <2>3. CASE j # i
    <3>1. j \in DOMAIN new.items /\ new.items[j] = list.items[j]
      BY <1>3, <2>3
    <3>2. QED
      BY <2>1, <3>1, ReminderPlace
  <2>4. QED
    BY <2>2, <2>3
<1>7. ASSUME NEW r \in Reminders(new)
      PROVE  \/ r \in Reminders(list) /\ r # own
             \/ r[2] \in Nat /\ r[2] > now
  <2>1. PICK j \in DOMAIN list.items :
            /\ new.items[j].due # 0
            /\ r = <<new.items[j].title, new.items[j].due>>
    BY <1>3, ReminderPlace
  <2>2. CASE j = i
    BY <1>3, <1>4, <2>1, <2>2
  <2>3. CASE j # i
    <3>1. new.items[j] = list.items[j]
      BY <1>3, <2>3
    <3>2. r \in Reminders(list)
      BY <2>1, <3>1, ReminderPlace
    <3>3. r # own
      BY <1>1, <1>2, <2>1, <2>3, <3>1
    <3>4. QED
      BY <3>2, <3>3
  <2>4. QED
    BY <2>2, <2>3
<1>8. QED
  BY <1>1, <1>5, <1>6, <1>7 DEF new

-------------------------------------------------------------------------------
(* No reminder is lost *)

\* The reminder that is sounding, as its list holds it
Own == <<chime.title, chime.due>>

\* RemindersDurable says what a save may take away; what it takes away was
\* settled when the list it writes was made, before the sound or before the
\* interpreter's answer was applied.  Until then the list of the program must
\* not have got ahead of that one, and it must have been read from storage.
Pending ==
    /\ chime.stage # "none" \/ pc \in VoiceSteps \ {"done"} => storageOk
    /\ chime.stage # "none" =>
          \A r \in Reminders(todos) : r \in Reminders(chime.list) \/ r = Own
    /\ chime.stage = "save" => Own \in rung
    /\ pc = "commit" =>
          \A r \in Reminders(todos) : r \in Reminders(change.list) \/ r[1] \in Named

DurableInv == ListInv /\ NumbersInv /\ Pending

\* The steps that leave what the invariant speaks of alone
LEMMA PendingStays ==
    ASSUME Pending, UNCHANGED <<chime, todos, change, seen, storageOk>>,
           rung \subseteq rung',
           pc' \in VoiceSteps \ {"done"} => pc \in VoiceSteps \ {"done"},
           pc' = "commit" => pc = "commit"
    PROVE  Pending'
<1>1. Own' = Own /\ Named' = Named
  BY DEF Own, Named
<1>2. QED
  BY <1>1 DEF Pending

\* ... and those that end a reminder or a request, or find none
LEMMA PendingNone ==
    ASSUME chime'.stage = "none", pc' \notin VoiceSteps \ {"done"}
    PROVE  Pending'
  BY DEF Pending, VoiceSteps, Waits

\* Items that keep their numbers keep the titles a request names.
LEMMA SameTitlesNamed ==
    ASSUME NEW a, NEW b, SameNumbers(a, b), NEW ids
    PROVE  TitlesNamed(a, ids) = TitlesNamed(b, ids)
<1>1. /\ DOMAIN a.items = DOMAIN b.items
      /\ \A i \in DOMAIN a.items : /\ a.items[i].id = b.items[i].id
                                   /\ a.items[i].title = b.items[i].title
  BY DEF SameNumbers
<1>2. QED
  BY <1>1 DEF TitlesNamed

\* The answer that is applied takes away named reminders only.
LEMMA RequestNames ==
    ASSUME DurableInv, pc = "chat", UNCHANGED <<todos, seen>>,
           AddRequest \/ ChangeRequest
    PROVE  \A r \in Reminders(todos) :
              r \in Reminders(change'.list) \/ r[1] \in Named'
<1>1. Good(todos) /\ SameNumbers(todos, seen.list)
  BY DEF DurableInv, ListInv, Lists, NumbersInv, NumbersStandStill
<1>2. CASE AddRequest
  <2>1. PICK title \in Titles \ TitlesOf(Base), repeat \in Repeats \cup {0} :
        \E due \in {DueTime(d) : d \in Delays}
                     \cup {IF repeat = 0 THEN 0 ELSE clock + repeat} :
           change' = [ids |-> {}, list |-> Add(Base, title, due, repeat)]
    BY <1>2 DEF AddRequest
  <2>2. PICK due : change' = [ids |-> {}, list |-> Add(todos, title, due, repeat)]
    BY <2>1 DEF Base
  <2>3. QED
    BY <1>1, <2>2, AddReminders
<1>3. CASE ChangeRequest
  <2>1. PICK ids :
        \E list \in {Complete(todos, ids), Delete(todos, ids)} :
            change' = [ids |-> ids, list |-> list]
    BY <1>3 DEF ChangeRequest, Base
  <2>2. /\ change'.ids = ids
        /\ change'.list \in {Complete(todos, ids), Delete(todos, ids)}
    BY <2>1
  <2>3. Named' = TitlesNamed(todos, ids)
    <3>1. Named' = TitlesNamed(seen.list, ids)
      BY <2>2 DEF Named, TitlesNamed
    <3>2. QED
      BY <1>1, <3>1, SameTitlesNamed
  <2>4. QED
    BY <1>1, <2>2, <2>3, CompleteReminders, DeleteReminders
<1>4. QED
  BY <1>2, <1>3

\* The invariant holds at first and every step keeps it.
LEMMA DurableInductive ==
    /\ Init => DurableInv
    /\ DurableInv /\ [Next]_vars => DurableInv'
<1>1. Init => DurableInv
  BY ListInductive, NumbersInductive
     DEF Init, DurableInv, Pending, NoChime, VoiceSteps, Waits
<1>2. DurableInv /\ [Next]_vars => DurableInv'
  <2> SUFFICES ASSUME DurableInv, [Next]_vars PROVE DurableInv'
    OBVIOUS
  <2> USE DEF flashVars, clockVars, flagVars, requestVars, alertVars, ramVars
  <2>1. ListInv' /\ NumbersInv'
    BY ListInductive, NumbersInductive DEF DurableInv
  <2>2. SUFFICES Pending'
    BY <2>1 DEF DurableInv
  <2>3. Pending /\ (chime.stage # "none" => pc \in {"tick"} \cup Waits)
    BY DEF DurableInv, NumbersInv
  <2>4. CASE \/ Tick \/ TimeSync \/ VoiceStart \/ VoiceStop \/ Cancel
             \/ Acknowledge \/ UNCHANGED vars
    BY <2>3, <2>4, PendingStays DEF Tick, TimeSync, VoiceStart, VoiceStop, Cancel,
                                    Acknowledge, vars
  <2>5. CASE Boot \/ PowerLoss
    <3>1. chime'.stage = "none"
      BY <2>3, <2>5 DEF Boot, PowerLoss, NoChime, Waits
    <3>2. pc' \in {"off", "wait"}
      BY <2>5 DEF Boot, PowerLoss
    <3>3. QED
      BY <3>1, <3>2, PendingNone DEF VoiceSteps, Waits
  <2>6. CASE TakeOther \/ TakeAck \/ Timeout \/ TurnEnds
    BY <2>3, <2>6, PendingStays DEF TakeOther, TakeAck, Timeout, TurnEnds,
                                    VoiceSteps, Waits
  <2>7. CASE TakeVoice
    <3>1. chime'.stage = "none"
      BY <2>3, <2>7 DEF TakeVoice, Waits
    <3>2. CASE pc' = "done"
      BY <3>1, <3>2, PendingNone
    <3>3. CASE pc' = "prepare"
      <4>1. storageOk'
        BY <2>7, <3>3 DEF TakeVoice, MayUseList
      <4>2. QED
        BY <3>1, <3>3, <4>1 DEF Pending
    <3>4. QED
      BY <2>7, <3>2, <3>3 DEF TakeVoice
  <2>8. CASE Chime
    <3>1. PICK i \in Due(todos, clock) :
              chime' = [stage |-> "sound", title |-> todos.items[i].title,
                        id |-> todos.items[i].id, due |-> todos.items[i].due,
                        list |-> Reminded(todos, i, clock)]
      BY <2>8 DEF Chime
    <3>2. Good(todos) /\ clock \in Nat
      BY DEF DurableInv, ListInv, Lists, Counters
    <3>3. \A r \in Reminders(todos) :
              r \in Reminders(Reminded(todos, i, clock))
              \/ r = <<todos.items[i].title, todos.items[i].due>>
      BY <3>2, RemindedReminders
    <3>4. \A r \in Reminders(todos) : r \in Reminders(chime'.list) \/ r = Own'
      BY <3>1, <3>3 DEF Own
    <3>5. /\ pc' = pc /\ pc # "commit" /\ todos' = todos
          /\ storageOk /\ storageOk' = storageOk /\ chime'.stage = "sound"
      BY <2>8, <3>1 DEF Chime, ReminderDue, MayUseList, Waits
    <3>6. QED
      BY <3>4, <3>5 DEF Pending
  <2>9. CASE ChimeSounded
    <3>1. /\ chime' = [stage |-> "save", title |-> chime.title, id |-> chime.id,
                       due |-> chime.due, list |-> chime.list]
          /\ chime.stage = "sound"
      BY <2>9 DEF ChimeSounded, DurableInv, ListInv, Chimes
    <3>2. Own' = Own /\ Own' \in rung'
      BY <2>9, <3>1 DEF ChimeSounded, Own
    <3>3. UNCHANGED <<pc, todos, storageOk>> /\ pc # "commit"
      BY <2>3, <2>9, <3>1 DEF ChimeSounded, Waits
    <3>4. QED
      BY <2>3, <3>1, <3>2, <3>3 DEF Pending
  <2>10. CASE ChimeSilent \/ ChimeSaved \/ ChimeNotSaved
    <3>1. /\ chime' = NoChime /\ pc' = (IF pc = "tick" THEN "wait" ELSE pc)
          /\ chime.stage # "none" /\ storageOk' = storageOk
      BY <2>10 DEF ChimeSilent, ChimeSaved, ChimeNotSaved, ChimeEnds
    <3>2. storageOk' /\ pc' # "commit"
      BY <2>3, <3>1 DEF Pending, Waits
    <3>3. QED
      BY <3>1, <3>2 DEF Pending, NoChime
  <2>11. CASE Interpreted
    <3>1. /\ pc = "chat" /\ pc' = "commit" /\ chime' = chime
          /\ UNCHANGED <<todos, seen, storageOk>>
          /\ AddRequest \/ ChangeRequest
      BY <2>11 DEF Interpreted
    <3>2. chime.stage = "none"
      BY <2>11, QuietStage DEF Interpreted
    <3>3. storageOk
      BY <2>3, <3>1 DEF Pending, VoiceSteps, Waits
    <3>4. QED
      BY <3>1, <3>2, <3>3, RequestNames DEF Pending
  <2>12. CASE Transcribed
    <3>1. /\ pc = "asr" /\ pc' = "chat" /\ UNCHANGED <<chime, todos, storageOk>>
          /\ rung' = rung
      BY <2>12 DEF Transcribed
    <3>2. storageOk /\ Own' = Own
      BY <2>3, <3>1 DEF Pending, VoiceSteps, Waits, Own
    <3>3. QED
      BY <2>3, <3>1, <3>2 DEF Pending
  <2>13. CASE Record \/ RecordEnds
    BY <2>3, <2>13, PendingStays DEF Record, RecordEnds, VoiceSteps, Waits
  <2>14. CASE \/ VoiceFails \/ CancelledAtLast \/ Commit \/ CommitFails
              \/ RequestOver \/ ReleaseHeld
    <3>1. pc' \in {"done", "release", "tick"}
      BY <2>14 DEF VoiceFails, CancelledAtLast, Commit, CommitFails, RequestOver,
                   ReleaseHeld, Stop
    <3>2. chime'.stage = "none"
      BY <2>3, <2>14, QuietStage
         DEF VoiceFails, CancelledAtLast, Commit, CommitFails, RequestOver,
             ReleaseHeld, Waits
    <3>3. QED
      BY <3>1, <3>2, PendingNone DEF VoiceSteps, Waits
  <2>15. QED
    BY <2>4, <2>5, <2>6, <2>7, <2>8, <2>9, <2>10, <2>11, <2>12, <2>13, <2>14
       DEF Next, Turn, Reminder, Voice
<1>3. QED
  BY <1>1, <1>2

\* A save takes away what has sounded and what a request names, and no other
\* step writes the record.
LEMMA SavesSpare ==
    ASSUME DurableInv, [Next]_vars
    PROVE  \A r \in Reminders(nvs) :
              r \in Reminders(todos) \/ ~storageOk =>
                  \/ r \in Reminders(nvs')
                  \/ r \in rung
                  \/ pc \in VoiceSteps /\ r[1] \in Named
<1> USE DEF flashVars, clockVars, flagVars, requestVars, alertVars, ramVars
<1>1. CASE ChimeSaved \/ ChimeNotSaved
  <2>1. chime.stage = "save" /\ nvs' \in {nvs, chime.list}
    BY <1>1 DEF ChimeSaved, ChimeNotSaved
  <2>2. storageOk /\ Own \in rung
    BY <2>1 DEF DurableInv, Pending
  <2>3. \A r \in Reminders(todos) : r \in Reminders(chime.list) \/ r = Own
    BY <2>1 DEF DurableInv, Pending
  <2>4. QED
    BY <2>1, <2>2, <2>3
<1>2. CASE Commit \/ CommitFails
  <2>1. pc = "commit" /\ nvs' \in {nvs, change.list}
    BY <1>2 DEF Commit, CommitFails
  <2>2. pc \in VoiceSteps \ {"done"}
    BY <2>1 DEF VoiceSteps
  <2>3. storageOk
    BY <2>2 DEF DurableInv, Pending
  <2>4. \A r \in Reminders(todos) : r \in Reminders(change.list) \/ r[1] \in Named
    BY <2>1 DEF DurableInv, Pending
  <2>5. QED
    BY <2>1, <2>2, <2>3, <2>4
<1>3. CASE nvs' = nvs
  BY <1>3
<1>4. QED
  <2>1. CASE \/ Tick \/ TimeSync \/ Boot \/ PowerLoss \/ VoiceStart \/ VoiceStop
             \/ Cancel \/ Acknowledge \/ Turn \/ UNCHANGED vars
    BY <1>3, <2>1 DEF Tick, TimeSync, Boot, PowerLoss, VoiceStart, VoiceStop, Cancel,
                      Acknowledge, Turn, TakeOther, TakeAck, Timeout, TakeVoice,
                      TurnEnds, vars
  <2>2. CASE Chime \/ ChimeSounded \/ ChimeSilent
    BY <1>3, <2>2 DEF Chime, ChimeSounded, ChimeSilent
  <2>3. CASE \/ Record \/ RecordEnds \/ Transcribed \/ Interpreted \/ VoiceFails
             \/ CancelledAtLast \/ RequestOver \/ ReleaseHeld
    BY <1>3, <2>3 DEF Record, RecordEnds, Transcribed, Interpreted, VoiceFails,
                      CancelledAtLast, RequestOver, ReleaseHeld
  <2>4. QED
    BY <1>1, <1>2, <2>1, <2>2, <2>3 DEF Next, Reminder, Voice

\* Power cuts, failed saves and requests lose no reminder: one that is stored
\* leaves the storage only after it sounded, or because its item was named.
THEOREM RemindersDurableHolds == Spec => RemindersDurable
<1>1. DurableInv /\ [Next]_vars =>
         [\A reminder \in Reminders(nvs) :
             reminder \in Reminders(todos) \/ ~storageOk =>
                 \/ reminder \in Reminders(nvs')
                 \/ reminder \in rung
                 \/ pc \in VoiceSteps /\ reminder[1] \in Named]_vars
  BY SavesSpare
<1>2. QED
  BY <1>1, DurableInductive, PTL DEF Spec, RemindersDurable

-------------------------------------------------------------------------------
(* No reminder sounds twice *)

\* Without a fault storage and program agree; what has sounded is in no list,
\* but for the reminder whose save is under way, and has no time to come, so
\* that no list that is made later brings it back.
Silent(list) == Reminders(list) \cap rung = {}

Sounded ==
    /\ nvs = todos
    /\ \A r \in rung : r[2] \in Nat /\ r[2] <= clock
    /\ chime.stage # "save" => Silent(todos)
    /\ chime.stage = "sound" => Own \notin rung
    /\ chime.stage # "none" =>
          /\ Silent(chime.list)
          /\ Own \notin Reminders(chime.list)
          /\ chime.due \in Nat /\ chime.due <= clock
    /\ pc = "commit" => Silent(change.list)

OnceInv == ListInv /\ NumbersInv /\ (faults = 0 => Sounded)

\* The steps that leave what the invariant speaks of alone; time may go on.
LEMMA SoundedStays ==
    ASSUME Sounded, UNCHANGED <<chime, todos, nvs, change, rung>>,
           clock \in Nat, clock' \in Nat, clock <= clock',
           pc' = "commit" => pc = "commit"
    PROVE  Sounded'
<1>1. Own' = Own
  BY DEF Own
<1>2. \A r \in rung' : r[2] \in Nat /\ r[2] <= clock'
  BY DEF Sounded
<1>3. chime'.stage # "none" => chime'.due \in Nat /\ chime'.due <= clock'
  BY DEF Sounded
<1>4. QED
  BY <1>1, <1>2, <1>3 DEF Sounded, Silent

\* The answer that is applied brings no reminder back.
LEMMA RequestSilent ==
    ASSUME ListInv, Sounded, Silent(todos), rung' = rung,
           AddRequest \/ ChangeRequest
    PROVE  Silent(change.list)'
<1>1. Good(todos) /\ clock \in Nat /\ seen.at \in Nat
  BY DEF ListInv, Lists, Counters
<1>2. CASE AddRequest
  <2>1. PICK title \in Titles \ TitlesOf(Base), repeat \in Repeats \cup {0} :
        \E due \in {DueTime(d) : d \in Delays}
                     \cup {IF repeat = 0 THEN 0 ELSE clock + repeat} :
           change' = [ids |-> {}, list |-> Add(Base, title, due, repeat)]
    BY <1>2 DEF AddRequest
  <2>2. PICK due \in {DueTime(d) : d \in Delays}
                       \cup {IF repeat = 0 THEN 0 ELSE clock + repeat} :
           change' = [ids |-> {}, list |-> Add(todos, title, due, repeat)]
    BY <2>1 DEF Base
  <2>3. repeat \in Nat /\ \A d \in Delays : d \in Nat \ {0}
    BY TodoAssumption
  <2>4. ASSUME due # 0
        PROVE  due > clock
    <3>1. CASE due \in {DueTime(d) : d \in Delays}
      <4>1. PICK d \in Delays : due = DueTime(d)
        BY <3>1
      <4>2. QED
        BY <1>1, <2>3, <4>1 DEF DueTime
    <3>2. CASE due = IF repeat = 0 THEN 0 ELSE clock + repeat
      BY <1>1, <2>3, <2>4, <3>2
    <3>3. QED
      BY <2>2, <3>1, <3>2
  <2>5. \A r \in Reminders(change'.list) :
            r \in Reminders(todos) \/ (due # 0 /\ r = <<title, due>>)
    BY <1>1, <2>2, AddReminders
  <2>6. due # 0 => <<title, due>> \notin rung
    <3>1. \A r \in rung : r[2] \in Nat /\ r[2] <= clock
      BY DEF Sounded
    <3>2. <<title, due>>[2] = due
      OBVIOUS
    <3>3. SUFFICES ASSUME due # 0, <<title, due>> \in rung PROVE FALSE
      OBVIOUS
    <3>4. due \in Nat /\ due <= clock
      BY <3>1, <3>2, <3>3
    <3>5. QED
      BY <1>1, <2>4, <3>3, <3>4
  <2>7. QED
    BY <2>5, <2>6 DEF Silent
<1>3. CASE ChangeRequest
  <2>1. PICK ids :
        \E list \in {Complete(todos, ids), Delete(todos, ids)} :
            change' = [ids |-> ids, list |-> list]
    BY <1>3 DEF ChangeRequest, Base
  <2>2. Reminders(change'.list) \subseteq Reminders(todos)
    BY <1>1, <2>1, CompleteReminders, DeleteReminders
  <2>3. QED
    BY <2>2 DEF Silent
<1>4. QED
  BY <1>2, <1>3

\* The list a reminder is going to save has neither its own time nor any other
\* that has sounded.
LEMMA ChimeSounds ==
    ASSUME ListInv, NumbersInv, Sounded, Chime
    PROVE  Sounded'
<1> USE DEF flashVars, clockVars, flagVars, requestVars, alertVars, ramVars
<1>1. PICK i \in Due(todos, clock) :
          chime' = [stage |-> "sound", title |-> todos.items[i].title,
                    id |-> todos.items[i].id, due |-> todos.items[i].due,
                    list |-> Reminded(todos, i, clock)]
  BY DEF Chime
<1>2. Good(todos) /\ clock \in Nat
  BY DEF ListInv, Lists, Counters
<1>3. /\ UNCHANGED <<todos, nvs, change, rung, clock>> /\ pc' = pc
      /\ pc # "commit" /\ chime.stage = "none"
  BY QuietStage DEF Chime, Waits
<1>4. Silent(todos) /\ \A r \in rung : r[2] \in Nat /\ r[2] <= clock
  BY <1>3 DEF Sounded
<1> DEFINE own == <<todos.items[i].title, todos.items[i].due>>
           list == Reminded(todos, i, clock)
<1>5. /\ chime'.stage = "sound" /\ chime'.list = list
      /\ chime'.due = todos.items[i].due /\ Own' = own
  BY <1>1 DEF Own
<1>6. /\ own \in Reminders(todos)
      /\ todos.items[i].due <= clock
      /\ \A r \in Reminders(list) :
            \/ r \in Reminders(todos) /\ r # own
            \/ r[2] \in Nat /\ r[2] > clock
  BY <1>2, RemindedReminders
<1>7. todos.items[i].due \in Nat
  BY <1>2, DueItem DEF Item
<1>8. own[2] = todos.items[i].due
  OBVIOUS
<1> HIDE DEF own, list
<1>9. ASSUME NEW r \in Reminders(list)
      PROVE  r \notin rung /\ r # own
  <2>1. CASE r \in Reminders(todos) /\ r # own
    BY <1>4, <2>1 DEF Silent
  <2>2. CASE r[2] \in Nat /\ r[2] > clock
    <3>1. r \notin rung
      BY <1>2, <1>4, <2>2
    <3>2. r # own
      BY <1>2, <1>6, <1>7, <1>8, <2>2
    <3>3. QED
      BY <3>1, <3>2
  <2>3. QED
    BY <1>6, <1>9, <2>1, <2>2
<1>10. own \notin rung
  BY <1>4, <1>6 DEF Silent
<1>11. Silent(chime.list)' /\ Own' \notin Reminders(chime'.list)
  BY <1>3, <1>5, <1>9 DEF Silent
<1>12. chime'.due \in Nat /\ chime'.due <= clock'
  BY <1>3, <1>5, <1>6, <1>7
<1>13. nvs' = todos' /\ Silent(todos)'
  BY <1>3, <1>4 DEF Sounded, Silent
<1>14. \A r \in rung' : r[2] \in Nat /\ r[2] <= clock'
  BY <1>3, <1>4
<1>15. Own' \notin rung' /\ pc' # "commit"
  BY <1>3, <1>5, <1>10
<1>16. QED
  BY <1>5, <1>11, <1>12, <1>13, <1>14, <1>15 DEF Sounded

\* The invariant holds at first and every step keeps it.
LEMMA OnceInductive ==
    /\ Init => OnceInv
    /\ OnceInv /\ [Next]_vars => OnceInv'
<1>1. Init => OnceInv
  <2> SUFFICES ASSUME Init PROVE OnceInv
    OBVIOUS
  <2>1. Sounded
    BY DEF Init, Sounded, Silent, NoChime
  <2>2. QED
    BY <2>1, ListInductive, NumbersInductive DEF OnceInv
<1>2. OnceInv /\ [Next]_vars => OnceInv'
  <2> SUFFICES ASSUME OnceInv, [Next]_vars PROVE OnceInv'
    OBVIOUS
  <2> USE DEF flashVars, clockVars, flagVars, requestVars, alertVars, ramVars
  <2>1. ListInv' /\ NumbersInv'
    BY ListInductive, NumbersInductive DEF OnceInv
  <2>2. /\ {clock, faults} \subseteq Nat
        /\ ListInv /\ NumbersInv
        /\ chime.stage # "none" => pc \in {"tick"} \cup Waits
    BY DEF OnceInv, ListInv, Counters, NumbersInv
  <2>3. SUFFICES ASSUME faults' = 0 PROVE Sounded'
    BY <2>1 DEF OnceInv
  <2>4. ~Fault
    BY <2>2, <2>3 DEF Fault
  <2>5. ASSUME faults' = faults
        PROVE  Sounded
    BY <2>3, <2>5 DEF OnceInv
  <2>6. CASE Tick
    BY <2>2, <2>5, <2>6, SoundedStays DEF Tick
  <2>7. CASE \/ TimeSync \/ VoiceStart \/ VoiceStop \/ Cancel \/ Acknowledge
             \/ UNCHANGED vars
    <3>1. /\ UNCHANGED <<chime, todos, nvs, change, rung, clock, faults>>
          /\ pc' = pc
      BY <2>7 DEF TimeSync, VoiceStart, VoiceStop, Cancel, Acknowledge, vars
    <3>2. QED
      BY <2>2, <2>5, <3>1, SoundedStays
  <2>8. CASE Boot
    <3>1. todos' = nvs /\ faults' = faults /\ pc' = "wait"
      BY <2>4, <2>8 DEF Boot
    <3>2. UNCHANGED <<chime, nvs, change, rung, clock>>
      BY <2>8 DEF Boot
    <3>3. Sounded /\ todos = nvs
      BY <2>5, <3>1 DEF Sounded
    <3>4. QED
      BY <2>2, <3>1, <3>2, <3>3, SoundedStays
  <2>9. CASE PowerLoss
    BY <2>4, <2>9 DEF PowerLoss
  <2>10. CASE Turn
    BY <2>2, <2>5, <2>10, SoundedStays DEF Turn, TakeOther, TakeAck, Timeout,
                                           TakeVoice, TurnEnds
  <2>11. CASE Chime
    BY <2>2, <2>5, <2>11, ChimeSounds DEF Chime
  <2>12. CASE ChimeSounded
    <3>1. /\ chime' = [stage |-> "save", title |-> chime.title, id |-> chime.id,
                       due |-> chime.due, list |-> chime.list]
          /\ chime.stage = "sound"
      BY <2>2, <2>12 DEF ChimeSounded, ListInv, Chimes
    <3>2. /\ rung' = rung \cup {Own} /\ pc' = pc
          /\ UNCHANGED <<todos, nvs, change, clock, faults>>
      BY <2>12 DEF ChimeSounded, Own
    <3>3. Sounded /\ pc # "commit"
      BY <2>2, <2>5, <3>1, <3>2 DEF Waits
    <3>4. /\ chime'.stage = "save" /\ chime'.list = chime.list
          /\ chime'.due = chime.due /\ Own' = Own /\ Own[2] = chime.due
      BY <3>1 DEF Own
    <3>5. /\ chime.due \in Nat /\ chime.due <= clock
          /\ Silent(chime.list) /\ Own \notin Reminders(chime.list)
      BY <3>1, <3>3 DEF Sounded
    <3>6. \A r \in rung' : r[2] \in Nat /\ r[2] <= clock'
      BY <3>2, <3>3, <3>4, <3>5 DEF Sounded
    <3>7. Silent(chime.list)' /\ Own' \notin Reminders(chime'.list)
      BY <3>2, <3>4, <3>5 DEF Silent
    <3>8. QED
      BY <3>2, <3>3, <3>4, <3>5, <3>6, <3>7 DEF Sounded
  <2>13. CASE ChimeSilent \/ ChimeNotSaved
    BY <2>4, <2>13 DEF ChimeSilent, ChimeNotSaved
  <2>14. CASE ChimeSaved
    <3>1. /\ chime'.stage = "none" /\ chime.stage = "save"
          /\ todos' = chime.list /\ nvs' = chime.list
          /\ UNCHANGED <<rung, clock, faults>>
          /\ pc' = (IF pc = "tick" THEN "wait" ELSE pc)
      BY <2>14 DEF ChimeSaved, ChimeEnds, NoChime
    <3>2. Sounded /\ pc' # "commit"
      BY <2>2, <2>5, <3>1 DEF Waits
    <3>3. QED
      BY <3>1, <3>2 DEF Sounded, Silent
  <2>15. CASE Interpreted
    <3>1. /\ UNCHANGED <<chime, todos, nvs, rung, clock, faults>>
          /\ chime.stage = "none"
          /\ AddRequest \/ ChangeRequest
      BY <2>15, QuietStage DEF Interpreted
    <3>2. Sounded /\ Silent(todos)
      BY <2>5, <3>1 DEF Sounded
    <3>3. Silent(change.list)'
      BY <2>2, <3>1, <3>2, RequestSilent
    <3>4. QED
      BY <3>1, <3>2, <3>3 DEF Sounded, Silent, Own
  <2>16. CASE Commit
    <3>1. /\ todos' = change.list /\ nvs' = change.list /\ pc' = "done"
          /\ pc = "commit" /\ chime' = chime
          /\ UNCHANGED <<rung, clock, faults>>
      BY <2>16 DEF Commit, Stop
    <3>2. Sounded /\ chime.stage = "none"
      BY <2>2, <2>5, <3>1 DEF Waits
    <3>3. QED
      BY <3>1, <3>2 DEF Sounded, Silent
  <2>17. CASE CommitFails
    BY <2>4, <2>17 DEF CommitFails
  <2>18. CASE \/ Record \/ RecordEnds \/ Transcribed \/ VoiceFails
              \/ CancelledAtLast
    BY <2>2, <2>5, <2>18, SoundedStays
       DEF Record, RecordEnds, Transcribed, VoiceFails, CancelledAtLast, Stop
  <2>19. CASE RequestOver \/ ReleaseHeld
    <3>1. /\ UNCHANGED <<chime, todos, nvs, rung, clock, faults>>
          /\ pc' # "commit"
      BY <2>19 DEF RequestOver, ReleaseHeld
    <3>2. Sounded
      BY <2>5, <3>1
    <3>3. QED
      BY <3>1, <3>2 DEF Sounded, Silent, Own
  <2>20. QED
    BY <2>6, <2>7, <2>8, <2>9, <2>10, <2>11, <2>12, <2>13, <2>14, <2>15, <2>16,
       <2>17, <2>18, <2>19 DEF Next, Reminder, Voice
<1>3. QED
  BY <1>1, <1>2

\* Without a fault no reminder sounds twice, whatever requests and reminders
\* overlap.
THEOREM SoundsOnceHolds == Spec => SoundsOnce
<1>1. OnceInv /\ [Next]_vars =>
         [chime.stage = "sound" /\ chime'.stage = "save" /\ faults = 0
            => <<chime.title, chime.due>> \notin rung]_vars
  BY DEF OnceInv, Sounded, Own
<1>2. QED
  BY <1>1, OnceInductive, PTL DEF Spec, SoundsOnce

-------------------------------------------------------------------------------
(* What the operations of smart_todo.c compute *)

\* A set of naturals that is not empty has a least element.
LEMMA LeastOf ==
    ASSUME NEW S \in SUBSET Nat, S # {}
    PROVE  \E i \in S : \A j \in S : i <= j
<1>1. PICK i \in S : \A j \in S : <<j, i>> \notin OpToRel(<, Nat)
  BY WFMin, NatLessThanWellFounded, Zenon
<1>2. \A j \in S : ~(j < i)
  BY <1>1 DEF OpToRel
<1>3. QED
  BY <1>2

\* smart_todo_due is 0 only when no time has come: of the reminders whose time
\* has come it names one that has waited longest, and of those the first.
THEOREM DueServesTheEarliest ==
    ASSUME NEW list, Good(list), NEW time \in Nat, OverdueAt(list, time) # {}
    PROVE  \E i \in OverdueAt(list, time) :
              /\ Due(list, time) = {i}
              /\ \A j \in OverdueAt(list, time) :
                    \/ list.items[i].due < list.items[j].due
                    \/ list.items[i].due = list.items[j].due /\ i <= j
<1> DEFINE overdue == OverdueAt(list, time)
           times == {list.items[i].due : i \in overdue}
           earliest == {i \in overdue :
                          \A j \in overdue : list.items[i].due <= list.items[j].due}
<1>1. overdue \subseteq Nat /\ \A i \in overdue : list.items[i].due \in Nat
  <2>1. DOMAIN list.items \subseteq Nat
    BY GoodElim
  <2>2. QED
    BY <2>1 DEF OverdueAt
<1>2. Due(list, time) = {i \in earliest : \A j \in earliest : i <= j}
  BY DEF Due
<1>3. overdue # {}
  OBVIOUS
<1> HIDE DEF overdue
<1>4. PICK first \in times : \A t \in times : first <= t
  <2>1. times \in SUBSET Nat /\ times # {}
    BY <1>1, <1>3
  <2> HIDE DEF times
  <2>2. QED
    BY <2>1, LeastOf
<1>5. earliest \in SUBSET Nat /\ earliest # {}
  <2>1. PICK i \in overdue : list.items[i].due = first
    BY <1>4
  <2>2. \A j \in overdue : list.items[i].due <= list.items[j].due
    BY <1>4, <2>1
  <2>3. QED
    BY <1>1, <2>1, <2>2
<1>6. PICK i \in earliest : \A j \in earliest : i <= j
  <2> HIDE DEF earliest
  <2>1. QED
    BY <1>5, LeastOf
<1>7. Due(list, time) = {i}
  <2>1. \A j \in earliest : j \in Nat /\ (j <= i => j = i)
    <3> HIDE DEF earliest
    <3>1. QED
      BY <1>5, <1>6
  <2> HIDE DEF earliest
  <2>2. QED
    BY <1>2, <1>6, <2>1
<1>8. ASSUME NEW j \in overdue
      PROVE  \/ list.items[i].due < list.items[j].due
             \/ list.items[i].due = list.items[j].due /\ i <= j
  <2>1. /\ i \in overdue /\ list.items[i].due \in Nat /\ list.items[j].due \in Nat
        /\ list.items[i].due <= list.items[j].due
    BY <1>1, <1>6, <1>8
  <2>2. CASE list.items[i].due = list.items[j].due
    <3>1. \A k \in overdue : list.items[j].due <= list.items[k].due
      BY <1>6, <2>2
    <3>2. j \in earliest
      BY <1>8, <3>1
    <3>3. QED
      BY <1>6, <2>2, <3>2
  <2>3. QED
    BY <2>1, <2>2
<1>9. QED
  BY <1>6, <1>7, <1>8 DEF overdue

\* smart_todo_reminded moves a repeating reminder to the first time of its own
\* schedule that is still to come, however long the device was off or busy: it
\* neither sounds for the times that were missed nor drifts.
THEOREM NextDueIsFirstToCome ==
    ASSUME NEW item \in Item, NEW time \in Nat, item.due <= time, item.repeat # 0
    PROVE  LET next == NextDue(item, time)
           IN  /\ next > time
               /\ \E n \in Nat \ {0} : next = item.due + n * item.repeat
               /\ \A n \in Nat : item.due + n * item.repeat > time
                                   => next <= item.due + n * item.repeat
<1> DEFINE late == time - item.due
           rounds == late \div item.repeat
           next == NextDue(item, time)
<1>1. /\ item.due \in Nat /\ item.repeat \in Nat /\ item.repeat > 0
      /\ late \in Nat
  BY DEF Item
<1>2. /\ rounds \in Nat
      /\ rounds * item.repeat <= late
      /\ rounds * item.repeat \in Nat
  BY <1>1
<1>3. next = item.due + (rounds + 1) * item.repeat
  BY DEF NextDue
<1>4. next > time
  BY NextDueLater
<1>5. ASSUME NEW n \in Nat, item.due + n * item.repeat > time
      PROVE  next <= item.due + n * item.repeat
  <2>1. n * item.repeat > late /\ n * item.repeat \in Nat
    BY <1>1, <1>5
  <2> HIDE DEF late, rounds, next
  <2>2. n > rounds
    <3>1. ASSUME n <= rounds
          PROVE  n * item.repeat <= rounds * item.repeat
      BY <1>1, <1>2, <3>1
    <3>2. QED
      BY <1>1, <1>2, <2>1, <3>1
  <2>3. PICK k \in Nat : n = rounds + 1 + k
    <3>1. n - (rounds + 1) \in Nat /\ n = rounds + 1 + (n - (rounds + 1))
      BY <1>2, <2>2
    <3>2. QED
      BY <3>1
  <2>4. n * item.repeat = (rounds + 1) * item.repeat + k * item.repeat
    BY <1>1, <1>2, <2>3
  <2>5. k * item.repeat \in Nat /\ (rounds + 1) * item.repeat \in Nat
    BY <1>1, <1>2
  <2>6. QED
    BY <1>1, <1>3, <2>1, <2>4, <2>5
<1>6. rounds + 1 \in Nat \ {0}
  <2> HIDE DEF rounds
  <2>1. QED
    BY <1>2
<1>7. QED
  BY <1>3, <1>4, <1>5, <1>6

\* The compacting loop of smart_todo_apply: the items that are not named, and
\* only they, stay in the order they had, each with its title and schedule, and
\* are numbered 1, 2, ...
THEOREM DeletionKeepsOrder ==
    ASSUME NEW list, Good(list), NEW ids
    PROVE  LET new == Delete(list, ids).items
           IN  \E from \in Bijection(DOMAIN new, Kept(list, ids)) :
                  /\ \A n \in DOMAIN new :
                        /\ new[n].id = n
                        /\ Entry(new[n]) = Entry(list.items[from[n]])
                  /\ \A n, m \in DOMAIN new : n < m => from[n] < from[m]
<1> DEFINE new == Delete(list, ids).items
           kept == Kept(list, ids)
           count == Cardinality(kept)
           Numbered(item, n) == [item EXCEPT !.id = n]
           from == [n \in 1..count |-> Read(kept, n)]
<1>1. /\ Len(list.items) \in Nat /\ DOMAIN list.items = 1..Len(list.items)
      /\ list.items \in [1..Len(list.items) -> Item]
  BY GoodElim
<1>2. kept \in SUBSET (1..Len(list.items))
  BY <1>1 DEF Kept
<1>3. /\ DOMAIN new = 1..count
      /\ \A n \in 1..count : new[n] = Numbered(list.items[Read(kept, n)], n)
  BY DEF Delete
<1>4. ASSUME NEW item \in Item, NEW n
      PROVE  Entry(Numbered(item, n)) = Entry(item) /\ Numbered(item, n).id = n
  BY DEF Item, Entry
<1> HIDE DEF new, kept, Numbered
<1>5. /\ count \in Nat
      /\ \A n \in 1..count :
            Read(kept, n) \in kept /\ Written(kept, Read(kept, n)) = n
      /\ \A i \in kept :
            /\ Written(kept, i) \in 1..count
            /\ Read(kept, Written(kept, i)) = i
  BY <1>1, <1>2, ReadPlace
<1>6. ASSUME NEW i \in kept, NEW j \in kept, i <= j
      PROVE  Written(kept, i) <= Written(kept, j)
  <2>1. IsFiniteSet(kept)
    <3>1. IsFiniteSet(1..Len(list.items))
      BY <1>1, FS_Interval
    <3>2. QED
      BY <1>2, <3>1, FS_Subset
  <2>2. {k \in kept : k <= i} \in SUBSET {k \in kept : k <= j}
    <3>1. i \in Int /\ j \in Int /\ \A k \in kept : k \in Int
      BY <1>2
    <3>2. \A k \in kept : k <= i => k <= j
      BY <1>6, <3>1
    <3>3. QED
      BY <3>2
  <2>3. IsFiniteSet({k \in kept : k <= j})
    BY <2>1, FS_Subset
  <2>4. QED
    BY <2>2, <2>3, FS_Subset DEF Written
<1> HIDE DEF count
<1>7. from \in Bijection(1..count, kept)
  <2>1. from \in [1..count -> kept]
    BY <1>5
  <2>2. \A n, m \in 1..count : from[n] = from[m] => n = m
    BY <1>5
  <2>3. \A i \in kept : \E n \in 1..count : from[n] = i
    BY <1>5
  <2> HIDE DEF from
  <2>4. QED
    BY <2>1, <2>2, <2>3, Fun_IsBij
<1>8. ASSUME NEW n \in 1..count
      PROVE  new[n].id = n /\ Entry(new[n]) = Entry(list.items[from[n]])
  <2>1. from[n] = Read(kept, n) /\ Read(kept, n) \in kept
    BY <1>5
  <2>2. list.items[Read(kept, n)] \in Item
    BY <1>1, <1>2, <2>1
  <2>3. QED
    BY <1>3, <1>4, <2>1, <2>2
<1>9. ASSUME NEW n \in 1..count, NEW m \in 1..count, n < m
      PROVE  from[n] < from[m]
  <2>1. /\ from[n] \in kept /\ from[m] \in kept
        /\ Written(kept, from[n]) = n /\ Written(kept, from[m]) = m
    BY <1>5
  <2> HIDE DEF from
  <2>2. from[n] \in Int /\ from[m] \in Int
    <3>1. kept \subseteq Int
      BY <1>2
    <3>2. QED
      BY <2>1, <3>1
  <2>3. ~(from[m] <= from[n])
    <3>1. ASSUME from[m] <= from[n]
          PROVE  m <= n
      <4>1. Written(kept, from[m]) <= Written(kept, from[n])
        BY <1>6, <2>1, <3>1
      <4>2. QED
        BY <2>1, <4>1
    <3>2. n \in Int /\ m \in Int /\ ~(m <= n)
      BY <1>5, <1>9
    <3>3. QED
      BY <3>1, <3>2
  <2>4. QED
    BY <2>2, <2>3
<1> HIDE DEF from
<1>10. QED
  BY <1>3, <1>7, <1>8, <1>9 DEF new, kept

-------------------------------------------------------------------------------
(* The program keeps the promise of TodoStore *)

\* The later times of an item's schedule, as Store!Times gives them for clock
TimesUntil(item, time) ==
    IF item.repeat = 0 THEN {0}
                       ELSE {item.due + n * item.repeat : n \in 1..time}

\* The reminder of one item is due, and only its item moves on.
Settling(old, new, title, due, time) ==
    \E item \in old :
        /\ item.title = title /\ item.due = due
        /\ due \in 1..time
        /\ \E later \in TimesUntil(item, time) :
              new = (old \ {item}) \union {Store!Moved(item, later)}

\* The refinement needs to know what a save under way makes of the list: a
\* change that was worked out before, of the list as it was then, must still be
\* a change of the list as it is now.  And before a boot nothing is in RAM.
StoreInv ==
    /\ DurableInv
    /\ pc = "off" => ~storageOk
    /\ pc = "commit" => Store!Requested(Entries(todos), Entries(change.list))
    /\ chime.stage # "none" =>
          Settling(Entries(todos), Entries(chime.list), chime.title, chime.due, clock)

\* The entries of a list are those of its places, and in a good list no two
\* places have entries of one title.
LEMMA EntryPlaces ==
    ASSUME NEW list
    PROVE  /\ \A e \in Entries(list) :
                 \E i \in DOMAIN list.items : e = Entry(list.items[i])
           /\ \A i \in DOMAIN list.items : Entry(list.items[i]) \in Entries(list)
           /\ Good(list) =>
                 \A i, j \in DOMAIN list.items :
                    Entry(list.items[i]) = Entry(list.items[j]) => i = j
<1>1. ASSUME Good(list), NEW i \in DOMAIN list.items, NEW j \in DOMAIN list.items,
             Entry(list.items[i]) = Entry(list.items[j])
      PROVE  i = j
  <2>1. list.items[i].title = list.items[j].title
    BY <1>1 DEF Entry
  <2>2. QED
    BY <1>1, <2>1 DEF Good
<1>2. QED
  BY <1>1 DEF Entries

\* smart_todo_apply adds one item under a new title.
LEMMA AddEntered ==
    ASSUME NEW list, Good(list), NEW title \in Titles \ TitlesOf(list),
           NEW due, NEW repeat
    PROVE  Store!Entered(Entries(list), Entries(Add(list, title, due, repeat)))
<1> DEFINE n == Len(list.items)
           item == [id |-> list.next, title |-> title, due |-> due,
                    repeat |-> repeat, done |-> FALSE]
           new == Add(list, title, due, repeat)
           entry == [title |-> title, due |-> due, repeat |-> repeat, done |-> FALSE]
<1>1. n \in Nat /\ list.items \in Seq(Item) /\ DOMAIN list.items = 1..n
  BY GoodElim
<1>2. new.items = Append(list.items, item) /\ Entry(item) = entry
  BY DEF Add, Entry
<1> HIDE DEF item, new
<1>3. /\ DOMAIN new.items = 1..(n + 1) /\ new.items[n + 1] = item
      /\ \A i \in 1..n : new.items[i] = list.items[i]
  <2>1. \A s \in Seq(Item) : s \in Seq(Item \cup {item})
    BY SeqMonotonic
  <2>2. list.items \in Seq(Item \cup {item}) /\ item \in Item \cup {item}
    BY <1>1, <2>1
  <2> HIDE DEF n
  <2>3. QED
    BY <1>1, <1>2, <2>2, AppendProperties, LenProperties DEF n
<1> HIDE DEF n
<1>4. Entries(new) = Entries(list) \union {entry}
  <2>1. ASSUME NEW e \in Entries(new)
        PROVE  e \in Entries(list) \union {entry}
    <3>1. PICK i \in DOMAIN new.items : e = Entry(new.items[i])
      BY EntryPlaces
    <3>2. i = n + 1 \/ i \in DOMAIN list.items
      BY <1>1, <1>3
    <3>3. CASE i = n + 1
      BY <1>2, <1>3, <3>1, <3>3
    <3>4. CASE i \in DOMAIN list.items
      <4>1. e = Entry(list.items[i])
        BY <1>1, <1>3, <3>1, <3>4
      <4>2. QED
        BY <3>4, <4>1, EntryPlaces
    <3>5. QED
      BY <3>2, <3>3, <3>4
  <2>2. ASSUME NEW e \in Entries(list)
        PROVE  e \in Entries(new)
    <3>1. PICK i \in 1..n : e = Entry(list.items[i])
      BY <1>1, EntryPlaces
    <3>2. i \in DOMAIN new.items /\ new.items[i] = list.items[i]
      BY <1>1, <1>3
    <3>3. QED
      BY <3>1, <3>2, EntryPlaces
  <2>3. entry \in Entries(new)
    <3>1. n + 1 \in DOMAIN new.items
      BY <1>1, <1>3
    <3>2. Entry(new.items[n + 1]) \in Entries(new)
      BY <3>1, EntryPlaces
    <3>3. QED
      BY <1>2, <1>3, <3>2
  <2>4. QED
    BY <2>1, <2>2, <2>3
<1>5. entry.title \in Titles \ {x.title : x \in Entries(list)}
  <2>1. ASSUME NEW x \in Entries(list)
        PROVE  x.title # title
    <3>1. PICK i \in DOMAIN list.items : x = Entry(list.items[i])
      BY EntryPlaces
    <3>2. x.title = list.items[i].title /\ list.items[i].title \in TitlesOf(list)
      BY <3>1 DEF Entry, TitlesOf
    <3>3. QED
      BY <3>2
  <2>2. QED
    BY <2>1
<1>6. QED
  <2>1. entry \in Entries(new) /\ ~entry.done
    BY <1>4
  <2> HIDE DEF entry
  <2>2. QED
    BY <1>4, <1>5, <2>1 DEF Store!Entered, new

\* ... finishes items and leaves the others, ...
LEMMA CompleteCompleted ==
    ASSUME NEW list, Good(list), NEW ids
    PROVE  Store!Completed(Entries(list), Entries(Complete(list, ids)))
<1> DEFINE new == Complete(list, ids)
           named == {i \in DOMAIN list.items : list.items[i].id \in ids}
           some == {Entry(list.items[i]) : i \in named}
           finished == {Store!Finished(e) : e \in some}
<1>1. /\ DOMAIN new.items = DOMAIN list.items
      /\ \A i \in named : new.items[i] = Closed(list.items[i])
      /\ \A i \in DOMAIN list.items \ named : new.items[i] = list.items[i]
  BY DEF Complete
<1>2. ASSUME NEW i \in DOMAIN list.items
      PROVE  Entry(Closed(list.items[i])) = Store!Finished(Entry(list.items[i]))
  <2>1. list.items[i] \in Item
    BY GoodElim
  <2>2. QED
    BY <2>1 DEF Item, Closed, Entry, Store!Finished
<1>3. some \in SUBSET Entries(list)
  BY EntryPlaces
<1>4. ASSUME NEW i \in DOMAIN list.items \ named
      PROVE  Entry(list.items[i]) \in Entries(list) \ some
  <2>1. \A j \in named : Entry(list.items[i]) # Entry(list.items[j])
    BY EntryPlaces
  <2>2. QED
    BY <2>1, EntryPlaces
<1> HIDE DEF new
<1>5. ASSUME NEW e \in Entries(new)
      PROVE  e \in (Entries(list) \ some) \union finished
  <2>1. PICK i \in DOMAIN list.items : e = Entry(new.items[i])
    BY <1>1, EntryPlaces
  <2>2. CASE i \in named
    BY <1>1, <1>2, <2>1, <2>2
  <2>3. CASE i \notin named
    BY <1>1, <1>4, <2>1, <2>3
  <2>4. QED
    BY <2>2, <2>3
<1>6. ASSUME NEW e \in (Entries(list) \ some) \union finished
      PROVE  e \in Entries(new)
  <2>1. CASE e \in finished
    <3>1. PICK i \in named : e = Store!Finished(Entry(list.items[i]))
      BY <2>1
    <3>2. e = Entry(new.items[i]) /\ i \in DOMAIN new.items
      BY <1>1, <1>2, <3>1
    <3>3. QED
      BY <3>2, EntryPlaces
  <2>2. CASE e \in Entries(list) \ some
    <3>1. PICK i \in DOMAIN list.items : e = Entry(list.items[i])
      BY <2>2, EntryPlaces
    <3>2. i \notin named
      BY <2>2, <3>1
    <3>3. e = Entry(new.items[i]) /\ i \in DOMAIN new.items
      BY <1>1, <3>1, <3>2
    <3>4. QED
      BY <3>3, EntryPlaces
  <2>3. QED
    BY <2>1, <2>2
<1>7. Entries(new) = (Entries(list) \ some) \union finished
  BY <1>5, <1>6
<1> HIDE DEF some
<1>8. QED
  BY <1>3, <1>7 DEF Store!Completed, new

\* ... or takes items away and leaves the others, under whatever numbers.
LEMMA DeleteDeleted ==
    ASSUME NEW list, Good(list), NEW ids
    PROVE  Store!Deleted(Entries(list), Entries(Delete(list, ids)))
<1> DEFINE new == Delete(list, ids)
           kept == Kept(list, ids)
           count == Cardinality(kept)
           Numbered(item, n) == [item EXCEPT !.id = n]
<1>1. /\ Len(list.items) \in Nat /\ DOMAIN list.items = 1..Len(list.items)
      /\ list.items \in [1..Len(list.items) -> Item]
  BY GoodElim
<1>2. kept \in SUBSET (1..Len(list.items))
  BY <1>1 DEF Kept
<1>3. /\ DOMAIN new.items = 1..count
      /\ \A n \in 1..count : new.items[n] = Numbered(list.items[Read(kept, n)], n)
  BY DEF Delete
<1>4. ASSUME NEW item \in Item, NEW n
      PROVE  Entry(Numbered(item, n)) = Entry(item)
  BY DEF Item, Entry
<1> HIDE DEF new, kept, Numbered
<1>5. \A n \in 1..count : Read(kept, n) \in kept
  BY <1>1, <1>2, ReadPlace
<1> HIDE DEF count
<1>6. ASSUME NEW e \in Entries(new)
      PROVE  e \in Entries(list)
  <2>1. PICK n \in 1..count : e = Entry(new.items[n])
    BY <1>3, EntryPlaces
  <2>2. Read(kept, n) \in DOMAIN list.items /\ list.items[Read(kept, n)] \in Item
    BY <1>1, <1>2, <1>5
  <2>3. e = Entry(list.items[Read(kept, n)])
    BY <1>3, <1>4, <2>1, <2>2
  <2>4. QED
    BY <2>2, <2>3, EntryPlaces
<1>7. QED
  BY <1>6 DEF Store!Deleted, new

\* The next time is one of the item's own schedule, and no more periods away
\* than time has passed.
LEMMA RescheduledTime ==
    ASSUME NEW item \in Item, NEW time \in Nat, item.due \in 1..time
    PROVE  Rescheduled(item, time) \in TimesUntil(Entry(item), time)
<1>1. /\ item.due \in Nat /\ item.repeat \in Nat /\ item.due >= 1
      /\ Entry(item).due = item.due /\ Entry(item).repeat = item.repeat
  BY DEF Item, Entry
<1>2. CASE item.repeat = 0
  BY <1>1, <1>2 DEF Rescheduled, TimesUntil
<1>3. CASE item.repeat # 0
  <2> DEFINE late == time - item.due
             rounds == late \div item.repeat
  <2>1. late \in Nat /\ late + 1 <= time /\ item.repeat >= 1
    BY <1>1, <1>3
  <2>2. rounds \in Nat /\ rounds <= late
    <3> HIDE DEF late
    <3>1. /\ rounds \in Nat
          /\ rounds * item.repeat <= late
      BY <1>1, <2>1
    <3> HIDE DEF rounds
    <3>2. rounds <= rounds * item.repeat
      BY <1>1, <2>1, <3>1
    <3>3. rounds * item.repeat \in Nat /\ late \in Nat
      BY <1>1, <2>1, <3>1
    <3>4. QED
      BY <3>1, <3>2, <3>3
  <2>3. NextDue(item, time) = item.due + (rounds + 1) * item.repeat
    BY DEF NextDue
  <2>4. rounds + 1 \in 1..time
    <3> HIDE DEF rounds, late
    <3>1. QED
      BY <2>1, <2>2
  <2> HIDE DEF rounds
  <2>5. QED
    BY <1>1, <1>3, <2>3, <2>4 DEF Rescheduled, TimesUntil
<1>4. QED
  BY <1>2, <1>3

\* A reminder moves its own item to a later time and leaves the others.
LEMMA RemindedSettling ==
    ASSUME NEW list, Good(list), NEW time \in Nat, NEW i \in Due(list, time)
    PROVE  Settling(Entries(list), Entries(Reminded(list, i, time)),
                    list.items[i].title, list.items[i].due, time)
<1> DEFINE new == Reminded(list, i, time)
           item == list.items[i]
           later == Rescheduled(item, time)
           moved == Store!Moved(Entry(item), later)
<1>1. i \in DOMAIN list.items /\ item \in Item /\ item.due \in 1..time
  <2>1. i \in DOMAIN list.items /\ item.due \in 1..time
    BY DEF Due, OverdueAt
  <2>2. QED
    BY <2>1, DueItem
<1>2. later \in TimesUntil(Entry(item), time)
  BY <1>1, RescheduledTime
<1>3. /\ DOMAIN new.items = DOMAIN list.items
      /\ Entry(new.items[i]) = moved
      /\ \A j \in DOMAIN list.items \ {i} : new.items[j] = list.items[j]
  BY <1>1 DEF Reminded, WithDue, Rescheduled, Entry, Store!Moved
<1>4. Entry(item).title = item.title /\ Entry(item).due = item.due
  BY DEF Entry
<1> HIDE DEF new, moved
<1>5. ASSUME NEW e \in Entries(new)
      PROVE  e \in (Entries(list) \ {Entry(item)}) \union {moved}
  <2>1. PICK j \in DOMAIN list.items : e = Entry(new.items[j])
    BY <1>3, EntryPlaces
  <2>2. CASE j = i
    BY <1>3, <2>1, <2>2
  <2>3. CASE j # i
    <3>1. e = Entry(list.items[j]) /\ e # Entry(item)
      BY <1>1, <1>3, <2>1, <2>3, EntryPlaces
    <3>2. QED
      BY <3>1, EntryPlaces
  <2>4. QED
    BY <2>2, <2>3
<1>6. ASSUME NEW e \in (Entries(list) \ {Entry(item)}) \union {moved}
      PROVE  e \in Entries(new)
  <2>1. CASE e = moved
    BY <1>1, <1>3, <2>1, EntryPlaces
  <2>2. CASE e \in Entries(list) \ {Entry(item)}
    <3>1. PICK j \in DOMAIN list.items : e = Entry(list.items[j])
      BY <2>2, EntryPlaces
    <3>2. j # i
      BY <2>2, <3>1
    <3>3. e = Entry(new.items[j]) /\ j \in DOMAIN new.items
      BY <1>3, <3>1, <3>2
    <3>4. QED
      BY <3>3, EntryPlaces
  <2>3. QED
    BY <2>1, <2>2
<1>7. Entries(new) = (Entries(list) \ {Entry(item)}) \union {moved}
  BY <1>5, <1>6
<1>8. Entry(item) \in Entries(list)
  BY <1>1, EntryPlaces
<1> HIDE DEF later
<1>9. QED
  BY <1>1, <1>2, <1>4, <1>7, <1>8 DEF Settling, new, moved

\* Time that passes leaves a reminder due.
LEMMA SettlingLater ==
    ASSUME NEW old, NEW new, NEW title, NEW due, NEW time \in Nat, NEW then \in Nat,
           time <= then, Settling(old, new, title, due, time)
    PROVE  Settling(old, new, title, due, then)
<1>1. \A k \in 1..time : k \in 1..then
  OBVIOUS
<1>2. \A item : TimesUntil(item, time) \subseteq TimesUntil(item, then)
  BY <1>1 DEF TimesUntil
<1>3. QED
  BY <1>1, <1>2 DEF Settling

\* The answer of the interpreter is a change TodoStore knows.
LEMMA RequestRequested ==
    ASSUME ListInv, AddRequest \/ ChangeRequest
    PROVE  Store!Requested(Entries(todos), Entries(change'.list))
<1>1. Good(todos)
  BY DEF ListInv, Lists
<1>2. CASE AddRequest
  <2>1. PICK title \in Titles \ TitlesOf(todos), repeat \in Repeats \cup {0} :
        \E due \in {DueTime(d) : d \in Delays}
                     \cup {IF repeat = 0 THEN 0 ELSE clock + repeat} :
           change' = [ids |-> {}, list |-> Add(todos, title, due, repeat)]
    BY <1>2 DEF AddRequest, Base
  <2>2. PICK due : change' = [ids |-> {}, list |-> Add(todos, title, due, repeat)]
    BY <2>1
  <2>3. Store!Entered(Entries(todos), Entries(Add(todos, title, due, repeat)))
    BY <1>1, AddEntered
  <2>4. QED
    BY <2>2, <2>3 DEF Store!Requested
<1>3. CASE ChangeRequest
  <2>1. PICK ids :
        \E list \in {Complete(todos, ids), Delete(todos, ids)} :
            change' = [ids |-> ids, list |-> list]
    BY <1>3 DEF ChangeRequest, Base
  <2>2. change'.list = Complete(todos, ids) \/ change'.list = Delete(todos, ids)
    BY <2>1
  <2>3. QED
    BY <1>1, <2>2, CompleteCompleted, DeleteDeleted DEF Store!Requested
<1>4. QED
  BY <1>2, <1>3

\* The steps that leave the lists alone
LEMMA StoreStays ==
    ASSUME StoreInv, DurableInv', UNCHANGED <<chime, todos, change, storageOk>>,
           clock' = clock \/ clock' = clock + 1,
           pc' = "off" => pc = "off", pc' = "commit" => pc = "commit"
    PROVE  StoreInv'
<1>1. clock \in Nat /\ clock' \in Nat /\ clock <= clock'
  BY DEF StoreInv, DurableInv, ListInv, Counters
<1>2. chime'.stage # "none" =>
         Settling(Entries(todos), Entries(chime.list), chime.title, chime.due, clock')
  BY <1>1, SettlingLater DEF StoreInv
<1>3. QED
  BY <1>2 DEF StoreInv

\* The invariant holds at first and every step keeps it.
LEMMA StoreInductive ==
    /\ Init => StoreInv
    /\ StoreInv /\ [Next]_vars => StoreInv'
<1>1. Init => StoreInv
  BY DurableInductive DEF Init, StoreInv, NoChime
<1>2. StoreInv /\ [Next]_vars => StoreInv'
  <2> SUFFICES ASSUME StoreInv, [Next]_vars PROVE StoreInv'
    OBVIOUS
  <2> USE DEF flashVars, clockVars, flagVars, requestVars, alertVars, ramVars
  <2>1. DurableInv'
    BY DurableInductive DEF StoreInv
  <2>2. /\ chime.stage # "none" => pc \in {"tick"} \cup Waits
        /\ ListInv /\ Good(todos) /\ clock \in Nat
    BY DEF StoreInv, DurableInv, NumbersInv, ListInv, Lists, Counters
  <2>3. CASE \/ Tick \/ TimeSync \/ VoiceStart \/ VoiceStop \/ Cancel
             \/ Acknowledge \/ UNCHANGED vars
    BY <2>1, <2>3, StoreStays DEF Tick, TimeSync, VoiceStart, VoiceStop, Cancel,
                                  Acknowledge, vars
  <2>4. CASE TakeOther \/ TakeAck \/ Timeout \/ TurnEnds \/ TakeVoice
    BY <2>1, <2>4, StoreStays DEF TakeOther, TakeAck, Timeout, TurnEnds, TakeVoice
  <2>5. CASE \/ Record \/ RecordEnds \/ Transcribed \/ VoiceFails
             \/ CancelledAtLast \/ CommitFails \/ ReleaseHeld
    BY <2>1, <2>5, StoreStays DEF Record, RecordEnds, Transcribed, VoiceFails,
                                  CancelledAtLast, CommitFails, ReleaseHeld, Stop
  <2>6. ASSUME chime'.stage = "none", pc' # "commit", pc' = "off" => ~storageOk'
        PROVE  StoreInv'
    BY <2>1, <2>6 DEF StoreInv
  <2>7. CASE Boot \/ PowerLoss
    <3>1. chime'.stage = "none"
      BY <2>2, <2>7 DEF Boot, PowerLoss, NoChime, Waits
    <3>2. pc' = "wait" \/ (pc' = "off" /\ ~storageOk')
      BY <2>7 DEF Boot, PowerLoss
    <3>3. QED
      BY <2>6, <3>1, <3>2
  <2>8. CASE RequestOver \/ Commit
    <3>1. chime'.stage = "none" /\ pc' \in {"release", "done"}
      BY <2>2, <2>8 DEF RequestOver, Commit, Stop, Waits
    <3>2. QED
      BY <2>6, <3>1
  <2>9. CASE ChimeSilent \/ ChimeSaved \/ ChimeNotSaved
    <3>1. chime' = NoChime /\ pc' = (IF pc = "tick" THEN "wait" ELSE pc)
      BY <2>9 DEF ChimeSilent, ChimeSaved, ChimeNotSaved, ChimeEnds
    <3>2. pc \in {"tick"} \cup Waits
      BY <2>2, <2>9 DEF ChimeSilent, ChimeSaved, ChimeNotSaved
    <3>3. pc' # "commit" /\ pc' # "off"
      BY <3>1, <3>2 DEF Waits
    <3>4. QED
      BY <2>6, <3>1, <3>3 DEF NoChime
  <2>10. CASE Chime
    <3>1. PICK i \in Due(todos, clock) :
              chime' = [stage |-> "sound", title |-> todos.items[i].title,
                        id |-> todos.items[i].id, due |-> todos.items[i].due,
                        list |-> Reminded(todos, i, clock)]
      BY <2>10 DEF Chime
    <3>2. Settling(Entries(todos), Entries(Reminded(todos, i, clock)),
                   todos.items[i].title, todos.items[i].due, clock)
      BY <2>2, RemindedSettling
    <3>3. Settling(Entries(todos), Entries(chime'.list), chime'.title, chime'.due,
                   clock)
      BY <3>1, <3>2
    <3>4. todos' = todos /\ clock' = clock /\ pc' # "commit" /\ pc' # "off"
      BY <2>10 DEF Chime, Waits
    <3>5. QED
      BY <2>1, <3>3, <3>4 DEF StoreInv
  <2>11. CASE ChimeSounded
    <3>1. /\ chime' = [stage |-> "save", title |-> chime.title, id |-> chime.id,
                       due |-> chime.due, list |-> chime.list]
          /\ chime.stage = "sound" /\ UNCHANGED <<pc, todos, clock>>
      BY <2>2, <2>11 DEF ChimeSounded, ListInv, Chimes
    <3>2. Settling(Entries(todos), Entries(chime.list), chime.title, chime.due, clock)
      BY <3>1 DEF StoreInv
    <3>3. pc' # "commit" /\ pc' # "off"
      BY <2>2, <3>1 DEF Waits
    <3>4. QED
      BY <2>1, <3>1, <3>2, <3>3 DEF StoreInv
  <2>12. CASE Interpreted
    <3>1. Store!Requested(Entries(todos), Entries(change'.list))
      BY <2>2, <2>12, RequestRequested DEF Interpreted
    <3>2. chime'.stage = "none" /\ todos' = todos /\ pc' = "commit"
      BY <2>12, QuietStage DEF Interpreted
    <3>3. QED
      BY <2>1, <3>1, <3>2 DEF StoreInv
  <2>13. QED
    BY <2>3, <2>4, <2>5, <2>7, <2>8, <2>9, <2>10, <2>11, <2>12
       DEF Next, Turn, Reminder, Voice
<1>3. QED
  BY <1>1, <1>2

\* Time, power and the other tasks, as TodoStore sees them
LEMMA StoreEnvironment ==
    ASSUME StoreInv,
           \/ Tick \/ TimeSync \/ Boot \/ PowerLoss \/ VoiceStart \/ VoiceStop
           \/ Cancel \/ Acknowledge \/ UNCHANGED vars
    PROVE  [Store!StoreNext]_Store!storeVars
<1> USE DEF flashVars, clockVars, flagVars, requestVars, alertVars, ramVars
<1>1. CASE Tick
  <2>1. clock' = clock + 1 /\ UNCHANGED <<pc, nvs, todos, storageOk, rung>>
    BY <1>1 DEF Tick
  <2>2. Store!Pass
    BY <2>1 DEF Store!Pass, Promised, Entries, Asking
  <2>3. QED
    BY <2>2 DEF Store!StoreNext
<1>2. CASE PowerLoss
  <2>1. /\ pc' = "off" /\ ~storageOk' /\ UNCHANGED <<nvs, clock, rung>>
    BY <1>2 DEF PowerLoss
  <2>2. Store!Restart
    BY <2>1 DEF Store!Restart, Promised, Entries, Asking, VoiceSteps, Waits
  <2>3. QED
    BY <2>2 DEF Store!StoreNext
<1>3. CASE Boot
  <2>1. /\ pc = "off" /\ pc' = "wait" /\ ~storageOk
        /\ UNCHANGED <<nvs, clock, rung>>
        /\ (storageOk' /\ todos' = nvs) \/ ~storageOk'
    BY <1>3 DEF Boot, StoreInv
  <2>2. Promised = Entries(nvs) /\ Promised' = Entries(nvs)
    BY <2>1 DEF Promised, Entries
  <2>3. UNCHANGED Store!storeVars
    BY <2>1, <2>2 DEF Store!storeVars, Entries, Asking, VoiceSteps, Waits
  <2>4. QED
    BY <2>3
<1>4. CASE \/ TimeSync \/ VoiceStart \/ VoiceStop \/ Cancel \/ Acknowledge
           \/ UNCHANGED vars
  <2>1. UNCHANGED <<pc, nvs, todos, storageOk, rung, clock>>
    BY <1>4 DEF TimeSync, VoiceStart, VoiceStop, Cancel, Acknowledge, vars
  <2>2. QED
    BY <2>1 DEF Store!storeVars, Promised, Entries, Asking
<1>5. QED
  BY <1>1, <1>2, <1>3, <1>4

\* A turn of the controller, as TodoStore sees it: a request that may go on is
\* one the user made.
LEMMA StoreTurn ==
    ASSUME StoreInv, Turn
    PROVE  [Store!StoreNext]_Store!storeVars
<1> USE DEF flashVars, clockVars, flagVars, requestVars, alertVars, ramVars
<1>1. CASE TakeVoice
  <2>1. /\ pc = "wait" /\ pc' \in {"prepare", "done"}
        /\ UNCHANGED <<nvs, todos, storageOk, rung, clock>>
    BY <1>1 DEF TakeVoice
  <2>2. CASE pc' = "done"
    BY <2>1, <2>2
       DEF Store!storeVars, Promised, Entries, Asking, VoiceSteps, Waits
  <2>3. CASE pc' = "prepare"
    <3>1. Store!Ask
      BY <2>1, <2>3
         DEF Store!Ask, Promised, Entries, Asking, VoiceSteps, Waits
    <3>2. QED
      BY <3>1 DEF Store!StoreNext
  <2>4. QED
    BY <2>1, <2>2, <2>3
<1>2. CASE TakeOther \/ TakeAck \/ Timeout \/ TurnEnds
  <2>1. /\ pc \in {"wait", "tick"} /\ pc' \in {"wait", "tick"}
        /\ UNCHANGED <<nvs, todos, storageOk, rung, clock>>
    BY <1>2 DEF TakeOther, TakeAck, Timeout, TurnEnds
  <2>2. QED
    BY <2>1 DEF Store!storeVars, Promised, Entries, Asking, VoiceSteps, Waits
<1>3. QED
  BY <1>1, <1>2 DEF Turn

\* The list a reminder saves is the one of before with its own item moved on.
LEMMA StoreReminder ==
    ASSUME StoreInv, Reminder
    PROVE  [Store!StoreNext]_Store!storeVars
<1> USE DEF flashVars, clockVars, flagVars, requestVars, alertVars, ramVars
<1>1. CASE Chime
  <2>1. UNCHANGED <<pc, nvs, todos, storageOk, rung, clock>>
    BY <1>1 DEF Chime
  <2>2. QED
    BY <2>1 DEF Store!storeVars, Promised, Entries, Asking
<1>2. ASSUME chime.stage # "none"
      PROVE  /\ storageOk
             /\ Promised = Entries(todos)
             /\ Settling(Entries(todos), Entries(chime.list), chime.title,
                         chime.due, clock)
             /\ chime.stage = "save" => Own \in rung
             /\ ChimeEnds => Asking' = Asking
  <2>1. storageOk /\ pc \in {"tick"} \cup Waits
    BY <1>2 DEF StoreInv, DurableInv, Pending, NumbersInv
  <2>2. ChimeEnds => Asking' = Asking
    BY <2>1 DEF ChimeEnds, Asking, VoiceSteps, Waits
  <2>3. QED
    BY <1>2, <2>1, <2>2 DEF StoreInv, DurableInv, Pending, Promised
<1>3. CASE ChimeSounded
  <2>1. /\ chime.stage # "none"
        /\ rung' = rung \cup {<<chime.title, chime.due>>}
        /\ UNCHANGED <<pc, nvs, todos, storageOk, clock>>
    BY <1>3 DEF ChimeSounded
  <2>2. PICK entry \in Promised :
            /\ entry.title = chime.title /\ entry.due = chime.due
            /\ chime.due \in 1..clock
    BY <1>2, <2>1 DEF Settling
  <2>3. UNCHANGED <<Promised, Entries(nvs), Asking, clock>>
    BY <2>1 DEF Promised, Entries, Asking
  <2>4. Store!Sound
    BY <2>1, <2>2, <2>3 DEF Store!Sound
  <2>5. QED
    BY <2>4 DEF Store!StoreNext
<1>4. CASE ChimeSilent
  <2>1. /\ chime.stage # "none" /\ ChimeEnds
        /\ UNCHANGED <<nvs, todos, storageOk, rung, clock>>
    BY <1>4 DEF ChimeSilent
  <2>2. QED
    BY <1>2, <2>1 DEF Store!storeVars, Promised, Entries
<1>5. ASSUME chime.stage = "save"
      PROVE  Store!Settled(Promised, Entries(chime.list))
  <2>1. PICK entry \in Promised :
            /\ entry.title = chime.title /\ entry.due = chime.due
            /\ \E later \in TimesUntil(entry, clock) :
                  Entries(chime.list) =
                      (Promised \ {entry}) \union {Store!Moved(entry, later)}
    BY <1>2, <1>5 DEF Settling
  <2>2. <<entry.title, entry.due>> \in rung
    BY <1>2, <1>5, <2>1 DEF Own
  <2>3. Store!Times(entry) = TimesUntil(entry, clock)
    BY DEF Store!Times, TimesUntil
  <2>4. QED
    BY <2>1, <2>2, <2>3 DEF Store!Settled
<1>6. CASE ChimeSaved
  <2>1. /\ chime.stage = "save" /\ ChimeEnds
        /\ nvs' = chime.list /\ todos' = chime.list
        /\ UNCHANGED <<storageOk, rung, clock>>
    BY <1>6 DEF ChimeSaved
  <2>2. Promised' = Entries(chime.list) /\ Entries(nvs)' = Entries(chime.list)
    BY <1>2, <2>1 DEF Promised, Entries
  <2>3. Store!Settle
    BY <1>2, <1>5, <2>1, <2>2 DEF Store!Settle
  <2>4. QED
    BY <2>3 DEF Store!StoreNext
<1>7. CASE ChimeNotSaved
  <2>1. /\ chime.stage = "save" /\ ChimeEnds
        /\ nvs' = nvs \/ nvs' = chime.list
        /\ UNCHANGED <<todos, storageOk, rung, clock>>
    BY <1>7 DEF ChimeNotSaved
  <2>2. Promised' = Promised /\ Asking' = Asking
    BY <1>2, <2>1 DEF Promised, Entries
  <2>3. CASE nvs' = nvs
    BY <2>1, <2>2, <2>3 DEF Store!storeVars, Entries
  <2>4. CASE nvs' = chime.list
    <3>1. Entries(nvs)' = Entries(chime.list)
      BY <2>4 DEF Entries
    <3>2. Store!SettleNotStored
      BY <1>5, <2>1, <2>2, <3>1 DEF Store!SettleNotStored
    <3>3. QED
      BY <3>2 DEF Store!StoreNext
  <2>5. QED
    BY <2>1, <2>3, <2>4
<1>8. QED
  BY <1>1, <1>3, <1>4, <1>6, <1>7 DEF Reminder

\* A request ends with the change it asked for, or without.
LEMMA StoreVoice ==
    ASSUME StoreInv, Voice
    PROVE  [Store!StoreNext]_Store!storeVars
<1> USE DEF flashVars, clockVars, flagVars, requestVars, alertVars, ramVars
<1>1. CASE \/ Record \/ RecordEnds \/ Transcribed \/ Interpreted \/ RequestOver
           \/ ReleaseHeld
  <2>1. /\ UNCHANGED <<nvs, todos, storageOk, rung, clock>>
        /\ \/ pc \in {"prepare", "recording", "asr", "chat"}
              /\ pc' \in {"recording", "asr", "chat", "commit"}
           \/ pc \in {"done", "release"} /\ pc' \in {"release", "tick"}
    BY <1>1 DEF Record, RecordEnds, Transcribed, Interpreted, RequestOver, ReleaseHeld
  <2>2. Asking' = Asking
    BY <2>1 DEF Asking, VoiceSteps, Waits
  <2>3. QED
    BY <2>1, <2>2 DEF Store!storeVars, Promised, Entries
<1>2. ASSUME pc \in Waits \cup {"recording", "commit"}, pc' = "done"
      PROVE  Asking = TRUE /\ Asking' = FALSE
  BY <1>2 DEF Asking, VoiceSteps, Waits
<1>3. ASSUME pc = "commit"
      PROVE  /\ storageOk /\ Promised = Entries(todos)
             /\ Store!Requested(Entries(todos), Entries(change.list))
  <2>1. storageOk
    BY <1>3 DEF StoreInv, DurableInv, Pending, VoiceSteps
  <2>2. QED
    BY <1>3, <2>1 DEF StoreInv, Promised
<1>4. ASSUME pc \in Waits \cup {"recording", "commit"}, pc' = "done",
             UNCHANGED <<nvs, todos, storageOk, rung, clock>>
      PROVE  [Store!StoreNext]_Store!storeVars
  <2>1. Store!Forget
    BY <1>2, <1>4 DEF Store!Forget, Promised, Entries
  <2>2. QED
    BY <2>1 DEF Store!StoreNext
<1>5. CASE VoiceFails \/ CancelledAtLast
  BY <1>4, <1>5 DEF VoiceFails, CancelledAtLast, Stop
<1>6. CASE Commit
  <2>1. /\ pc = "commit" /\ pc' = "done"
        /\ nvs' = change.list /\ todos' = change.list
        /\ UNCHANGED <<storageOk, rung, clock>>
    BY <1>6 DEF Commit, Stop
  <2>2. Promised' = Entries(change.list) /\ Entries(nvs)' = Entries(change.list)
    BY <1>3, <2>1 DEF Promised, Entries
  <2>3. Store!Grant
    BY <1>2, <1>3, <2>1, <2>2 DEF Store!Grant
  <2>4. QED
    BY <2>3 DEF Store!StoreNext
<1>7. CASE CommitFails
  <2>1. /\ pc = "commit" /\ pc' = "done"
        /\ nvs' = nvs \/ nvs' = change.list
        /\ UNCHANGED <<todos, storageOk, rung, clock>>
    BY <1>7 DEF CommitFails, Stop
  <2>2. CASE nvs' = nvs
    BY <1>4, <2>1, <2>2
  <2>3. CASE nvs' = change.list
    <3>1. Entries(nvs)' = Entries(change.list) /\ Promised' = Promised
      BY <1>3, <2>1, <2>3 DEF Promised, Entries
    <3>2. Store!GrantNotStored
      BY <1>2, <1>3, <2>1, <3>1 DEF Store!GrantNotStored
    <3>3. QED
      BY <3>2 DEF Store!StoreNext
  <2>4. QED
    BY <2>1, <2>2, <2>3
<1>8. QED
  BY <1>1, <1>5, <1>6, <1>7 DEF Voice

\* The list, its record, the requests and the reminders that sound meanwhile
\* implement TodoStore: every step is a step of it, or changes nothing it sees.
THEOREM TodoStoreImplemented == Spec => StoreImplemented
<1>1. Init => Store!StoreInit
  <2> SUFFICES ASSUME Init PROVE Store!StoreInit
    OBVIOUS
  <2>1. /\ pc = "off" /\ nvs = EmptyList /\ storageOk = FALSE
        /\ rung = {} /\ clock = 1
    BY DEF Init
  <2>2. Entries(EmptyList) = {}
    BY EmptySeq DEF Entries, EmptyList
  <2>3. Asking = FALSE /\ Promised = {}
    BY <2>1, <2>2 DEF Asking, VoiceSteps, Waits, Promised
  <2>4. QED
    BY <2>1, <2>2, <2>3 DEF Store!StoreInit
<1>2. StoreInv /\ [Next]_vars => [Store!StoreNext]_Store!storeVars
  BY StoreEnvironment, StoreTurn, StoreReminder, StoreVoice DEF Next
<1>3. QED
  BY <1>1, <1>2, StoreInductive, PTL DEF Spec, StoreImplemented, Store!StoreSpec

===============================================================================
