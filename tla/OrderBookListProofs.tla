-------------------------- MODULE OrderBookListProofs --------------------------
(***************************************************************************)
(* Theorems about the lists of OrderBook: what the pointers look like in   *)
(* every state, that the quantities in them are what the tape leaves open, *)
(* and that the book so linked implements PriceTimePriority.               *)
(***************************************************************************)
EXTENDS OrderBookProofs

-----------------------------------------------------------------------------
(* The shape of the lists, told node by node.                                *)

Book == {n \in Nodes : InBook(n)}
Free == Nodes \ Book
LevelOf(n) == PriceIndex(data[n].price)

\* A level is empty at both ends or has a first and a last node of its own.
Ends ==
  \A s \in Sides, l \in Levels :
    IF head[s][l] = Nil THEN tail[s][l] = Nil
    ELSE /\ prev[head[s][l]] = Nil
         /\ data[head[s][l]].side = s /\ LevelOf(head[s][l]) = l
         /\ tail[s][l] \in Book /\ next[tail[s][l]] = Nil
         /\ data[tail[s][l]].side = s /\ LevelOf(tail[s][l]) = l

\* Links agree both ways, stay in the level and lead from older orders to newer.
Links ==
  \A n \in Book :
    /\ LevelOf(n) \in Levels
    /\ IF next[n] = Nil THEN tail[data[n].side][LevelOf(n)] = n ELSE prev[next[n]] = n
    /\ IF prev[n] = Nil THEN head[data[n].side][LevelOf(n)] = n
       ELSE /\ prev[n] \in Book /\ next[prev[n]] = n
            /\ data[prev[n]].side = data[n].side /\ LevelOf(prev[n]) = LevelOf(n)
            /\ data[prev[n]].id < data[n].id

\* The nodes outside the levels are the ones met from freeHead: any set of them
\* without freeHead is pointed at from outside, and none runs in a circle.
FreeList ==
  /\ freeHead # Nil => freeHead \in Free
  /\ \A n \in Free : next[n] \in (Free \ {freeHead}) \cup {Nil}
  /\ \A m, n \in Free : next[m] = next[n] /\ next[m] # Nil => m = n
  /\ \A S \in SUBSET Free :
       S # {} /\ freeHead \notin S => \E m \in Free \ S : next[m] \in S
  /\ \A S \in SUBSET Free : S # {} => \E n \in S : next[n] \notin S

Threads == Ends /\ Links /\ FreeList

\* The orders in the nodes: distinct, older than the one being processed, and
\* worth what the tape leaves open of them.
Orders ==
  /\ \A n \in Book :
       /\ data[n].qty > 0
       /\ data[n].id \in 1 .. incoming.id
       /\ data[n].qty = openQty[data[n].id]
       /\ pc # "idle" => data[n].id # incoming.id
  /\ \A m, n \in Book : data[m].id = data[n].id => m = n
  /\ pc # "idle" => incoming.id > 0 /\ incoming.qty = openQty[incoming.id]
  /\ pc = "callback" => trade.maker = data[MakerNode].id /\ trade.taker = incoming.id

-----------------------------------------------------------------------------
(* The lists and the steps that relink them.                                 *)

\* An index of a node is never Nil.
LEMMA NodesAreNotNil == Nil \notin Nodes /\ Nodes \subseteq Int /\ Levels \subseteq Int
BY BookAssumption DEF Nil, Nodes, Levels

\* Who is in the book, spelled out.
LEMMA BookIs ==
  ASSUME NEW n \in Nodes
  PROVE  n \in Book <=> prev[n] # Nil \/ \E s \in Sides, l \in Levels : head[s][l] = n
<1>1. ASSUME NEW s \in Sides, NEW l \in Levels, head[s][l] = n
      PROVE  InBook(n)
  <2>1. <<s, l>> \in AllLevels /\ HeadOf(<<s, l>>) = n
    BY <1>1 DEF AllLevels, HeadOf
  <2> QED BY <2>1 DEF InBook
<1>2. ASSUME NEW key \in AllLevels, HeadOf(key) = n
      PROVE  \E s \in Sides, l \in Levels : head[s][l] = n
  BY <1>2 DEF AllLevels, HeadOf
<1> QED BY <1>1, <1>2 DEF Book, InBook

\* The same in the next state.
LEMMA BookIsNext ==
  ASSUME NEW n \in Nodes
  PROVE  n \in Book' <=> prev'[n] # Nil \/ \E s \in Sides, l \in Levels : head'[s][l] = n
<1>1. ASSUME NEW s \in Sides, NEW l \in Levels, head'[s][l] = n
      PROVE  InBook(n)'
  <2>1. <<s, l>> \in AllLevels /\ HeadOf(<<s, l>>)' = n
    BY <1>1 DEF AllLevels, HeadOf
  <2> QED BY <2>1 DEF InBook
<1>2. ASSUME NEW key \in AllLevels, HeadOf(key)' = n
      PROVE  \E s \in Sides, l \in Levels : head'[s][l] = n
  BY <1>2 DEF AllLevels, HeadOf
<1> QED BY <1>1, <1>2 DEF Book, InBook

\* A step that relinks nothing and keeps every node's side, price and id.
LEMMA SameThreads ==
  ASSUME Threads, TypeOK, UNCHANGED pointers,
         \A n \in Nodes : /\ data'[n].side = data[n].side
                          /\ data'[n].price = data[n].price
                          /\ data'[n].id = data[n].id
  PROVE  Threads' /\ Book' = Book
<1> USE DEF pointers
<1>1. Book' = Book
  BY DEF Book, InBook, AllLevels, HeadOf
<1>2. \A n \in Nodes : LevelOf(n)' = LevelOf(n)
  BY DEF LevelOf, PriceIndex
<1>3. Book \subseteq Nodes /\ Free' = Free
  BY <1>1 DEF Book, Free
<1>4. Ends'
  <2> SUFFICES ASSUME NEW s \in Sides, NEW l \in Levels
               PROVE  IF head[s][l] = Nil THEN tail[s][l] = Nil
                      ELSE /\ prev[head[s][l]] = Nil
                           /\ data'[head[s][l]].side = s /\ PriceIndex(data'[head[s][l]].price) = l
                           /\ tail[s][l] \in Book /\ next[tail[s][l]] = Nil
                           /\ data'[tail[s][l]].side = s /\ PriceIndex(data'[tail[s][l]].price) = l
    BY <1>1 DEF Ends, LevelOf
  <2>1. head[s][l] \in Nodes \cup {Nil} /\ tail[s][l] \in Nodes \cup {Nil}
    BY DEF TypeOK
  <2> QED BY <1>3, <2>1 DEF Threads, Ends, LevelOf, Book
<1>5. Links'
  BY <1>1, <1>2, <1>3 DEF Threads, Links
<1>6. FreeList'
  BY <1>3 DEF Threads, FreeList
<1> QED BY <1>1, <1>4, <1>5, <1>6 DEF Threads

\* RemoveNode of the head of a level followed by Return, field by field.
LEMMA LeaveEffect ==
  ASSUME TypeOK, Threads, NEW s \in Sides, NEW l \in Levels, NEW h \in Nodes,
         h = head[s][l], MakerLeaves(s, l, h)
  PROVE  /\ h \in Book /\ prev[h] = Nil /\ data[h].side = s /\ LevelOf(h) = l
         /\ next[h] \in Nodes \cup {Nil} /\ next[h] # h
         /\ freeHead' = h
         /\ \A n \in Nodes : next'[n] = IF n = h THEN freeHead ELSE next[n]
         /\ \A n \in Nodes : prev'[n] = IF n = next[h] THEN Nil ELSE prev[n]
         /\ \A t \in Sides, k \in Levels :
              /\ head'[t][k] = IF t = s /\ k = l THEN next[h] ELSE head[t][k]
              /\ tail'[t][k] = IF t = s /\ k = l /\ next[h] = Nil THEN Nil ELSE tail[t][k]
<1>1. h # Nil /\ prev[h] = Nil /\ data[h].side = s /\ LevelOf(h) = l
  BY NodesAreNotNil DEF Threads, Ends
<1>2. h \in Book
  BY BookIs
<1>3. next[h] \in Nodes \cup {Nil}
  BY DEF TypeOK
<1>4. next[h] # h
  BY <1>1, <1>2 DEF Threads, Links
<1>5. /\ freeHead' = h
      /\ next' = [next EXCEPT ![h] = freeHead]
      /\ prev' = IF next[h] # Nil THEN [prev EXCEPT ![next[h]] = Nil] ELSE prev
      /\ head' = [head EXCEPT ![s][l] = next[h]]
      /\ tail' = IF next[h] # Nil THEN tail ELSE [tail EXCEPT ![s][l] = Nil]
  BY <1>1 DEF MakerLeaves, Return
<1>6. \A n \in Nodes : next'[n] = IF n = h THEN freeHead ELSE next[n]
  BY <1>5 DEF TypeOK
<1>7. \A n \in Nodes : prev'[n] = IF n = next[h] THEN Nil ELSE prev[n]
  BY <1>3, <1>5, NodesAreNotNil DEF TypeOK
<1>8. \A t \in Sides, k \in Levels :
              /\ head'[t][k] = IF t = s /\ k = l THEN next[h] ELSE head[t][k]
              /\ tail'[t][k] = IF t = s /\ k = l /\ next[h] = Nil THEN Nil ELSE tail[t][k]
  BY <1>5 DEF TypeOK
<1> QED BY <1>1, <1>2, <1>3, <1>4, <1>5, <1>6, <1>7, <1>8

\* The head of a level moves to the free list and every list keeps its shape.
LEMMA LeaveThreads ==
  ASSUME TypeOK, Threads, NEW s \in Sides, NEW l \in Levels, NEW h \in Nodes,
         h = head[s][l], MakerLeaves(s, l, h),
         \A n \in Nodes : /\ data'[n].side = data[n].side
                          /\ data'[n].price = data[n].price
                          /\ data'[n].id = data[n].id
  PROVE  Threads' /\ Book' = Book \ {h}
<1> DEFINE nx == next[h]
<1>1. /\ h \in Book /\ prev[h] = Nil /\ data[h].side = s /\ LevelOf(h) = l
      /\ nx \in Nodes \cup {Nil} /\ nx # h /\ freeHead' = h
  BY LeaveEffect
<1>2. \A n \in Nodes : next'[n] = IF n = h THEN freeHead ELSE next[n]
  BY LeaveEffect
<1>3. \A n \in Nodes : prev'[n] = IF n = nx THEN Nil ELSE prev[n]
  BY LeaveEffect
<1>4. \A t \in Sides, k \in Levels :
         /\ head'[t][k] = IF t = s /\ k = l THEN nx ELSE head[t][k]
         /\ tail'[t][k] = IF t = s /\ k = l /\ nx = Nil THEN Nil ELSE tail[t][k]
  BY LeaveEffect
<1>5. \A n \in Nodes : LevelOf(n)' = LevelOf(n)
  BY DEF LevelOf
<1>6. nx # Nil => nx \in Book /\ prev[nx] = h /\ data[nx].side = s /\ LevelOf(nx) = l
  <2> SUFFICES ASSUME nx # Nil
               PROVE  nx \in Book /\ prev[nx] = h /\ data[nx].side = s /\ LevelOf(nx) = l
    OBVIOUS
  <2>1. nx \in Nodes /\ prev[nx] = h
    BY <1>1 DEF Threads, Links
  <2>2. nx \in Book
    BY <2>1, BookIs, NodesAreNotNil
  <2>3. data[h].side = data[nx].side /\ LevelOf(h) = LevelOf(nx)
    BY <2>1, <2>2, NodesAreNotNil DEF Threads, Links
  <2> QED BY <1>1, <2>1, <2>2, <2>3
<1> HIDE DEF nx
<1>7. Book' = Book \ {h}
  <2>1. h \notin Book'
    <3>1. \A t \in Sides, k \in Levels : head'[t][k] # h
      BY <1>1, <1>4, NodesAreNotNil DEF Threads, Ends
    <3> QED BY <1>1, <1>3, <3>1, BookIsNext
  <2>2. ASSUME NEW n \in Nodes, n # h, n \in Book PROVE n \in Book'
    <3>1. CASE n = nx
      BY <1>4, <2>2, <3>1, BookIsNext
    <3>2. CASE n # nx
      <4>1. CASE prev[n] # Nil
        BY <1>3, <3>2, <4>1, BookIsNext
      <4>2. CASE prev[n] = Nil
        <5>1. PICK t \in Sides, k \in Levels : head[t][k] = n
          BY <2>2, <4>2, BookIs
        <5>2. head'[t][k] = n
          BY <1>4, <2>2, <5>1
        <5> QED BY <5>2, BookIsNext
      <4> QED BY <4>1, <4>2
    <3> QED BY <3>1, <3>2
  <2>3. ASSUME NEW n \in Nodes, n \in Book' PROVE n \in Book
    <3>1. CASE prev'[n] # Nil
      BY <1>3, <3>1, BookIs
    <3>2. CASE prev'[n] = Nil
      <4>1. PICK t \in Sides, k \in Levels : head'[t][k] = n
        BY <2>3, <3>2, BookIsNext
      <4>2. n = nx \/ head[t][k] = n
        BY <1>4, <4>1
      <4> QED BY <1>6, <4>2, BookIs, NodesAreNotNil
    <3> QED BY <3>1, <3>2
  <2>4. Book \subseteq Nodes /\ Book' \subseteq Nodes
    BY DEF Book
  <2> QED BY <2>1, <2>2, <2>3, <2>4
<1>8. Ends'
  <2> SUFFICES ASSUME NEW t \in Sides, NEW k \in Levels
               PROVE  IF head'[t][k] = Nil THEN tail'[t][k] = Nil
                      ELSE /\ prev'[head'[t][k]] = Nil
                           /\ data'[head'[t][k]].side = t
                           /\ PriceIndex(data'[head'[t][k]].price) = k
                           /\ tail'[t][k] \in Book' /\ next'[tail'[t][k]] = Nil
                           /\ data'[tail'[t][k]].side = t
                           /\ PriceIndex(data'[tail'[t][k]].price) = k
    BY DEF Ends, LevelOf
  <2>1. head[t][k] \in Nodes \cup {Nil} /\ tail[t][k] \in Nodes \cup {Nil}
    BY DEF TypeOK
  <2>2. IF head[t][k] = Nil THEN tail[t][k] = Nil
        ELSE /\ prev[head[t][k]] = Nil
             /\ data[head[t][k]].side = t /\ PriceIndex(data[head[t][k]].price) = k
             /\ tail[t][k] \in Book /\ next[tail[t][k]] = Nil
             /\ data[tail[t][k]].side = t /\ PriceIndex(data[tail[t][k]].price) = k
    BY DEF Threads, Ends, LevelOf
  <2>3. head[t][k] # Nil => tail[t][k] \in Nodes
    BY <2>1, <2>2, NodesAreNotNil DEF Book
  <2>4. CASE t = s /\ k = l
    <3>1. CASE nx = Nil
      BY <1>4, <2>4, <3>1
    <3>2. CASE nx # Nil
      <4>1. nx \in Nodes /\ head'[t][k] = nx /\ tail'[t][k] = tail[t][k]
            /\ head[t][k] # Nil
        BY <1>1, <1>4, <2>4, <3>2, NodesAreNotNil
      <4>2. tail[t][k] # h
        BY <2>2, <3>2, <4>1 DEF nx
      <4>3. /\ prev'[nx] = Nil /\ data'[nx].side = s
            /\ PriceIndex(data'[nx].price) = l
        BY <1>3, <1>6, <3>2, <4>1 DEF LevelOf
      <4>4. next'[tail[t][k]] = Nil /\ tail[t][k] \in Book'
        BY <1>2, <1>7, <2>2, <2>3, <4>1, <4>2
      <4> QED BY <2>2, <2>3, <2>4, <3>2, <4>1, <4>3, <4>4
    <3> QED BY <3>1, <3>2
  <2>5. CASE ~(t = s /\ k = l)
    <3>1. head'[t][k] = head[t][k] /\ tail'[t][k] = tail[t][k]
      BY <1>4, <2>5
    <3>2. CASE head[t][k] = Nil
      BY <2>2, <3>1, <3>2
    <3>3. CASE head[t][k] # Nil
      <4>1. tail[t][k] # h
        BY <1>1, <2>2, <2>5, <3>3 DEF LevelOf
      <4>2. next'[tail[t][k]] = Nil /\ tail[t][k] \in Book'
        BY <1>2, <1>7, <2>2, <2>3, <3>3, <4>1
      <4>3. prev'[head[t][k]] = Nil
        BY <1>3, <2>1, <2>2, <3>3
      <4> QED BY <2>1, <2>2, <2>3, <3>1, <3>3, <4>2, <4>3
    <3> QED BY <3>2, <3>3
  <2> QED BY <2>4, <2>5
<1>9. Links'
  <2> SUFFICES ASSUME NEW n \in Book'
               PROVE  /\ LevelOf(n)' \in Levels
                      /\ IF next'[n] = Nil THEN tail'[data'[n].side][LevelOf(n)'] = n
                         ELSE prev'[next'[n]] = n
                      /\ IF prev'[n] = Nil THEN head'[data'[n].side][LevelOf(n)'] = n
                         ELSE /\ prev'[n] \in Book' /\ next'[prev'[n]] = n
                              /\ data'[prev'[n]].side = data'[n].side
                              /\ PriceIndex(data'[prev'[n]].price) = LevelOf(n)'
                              /\ data'[prev'[n]].id < data'[n].id
    BY DEF Links, LevelOf
  <2> DEFINE t == data[n].side
             k == LevelOf(n)
  <2>1. n \in Nodes /\ n \in Book /\ n # h
    BY <1>7 DEF Book
  <2>2. data'[n].side = t /\ LevelOf(n)' = k /\ data'[n].id = data[n].id
        /\ t \in Sides /\ k \in Levels /\ next'[n] = next[n]
        /\ next[n] \in Nodes \cup {Nil} /\ prev[n] \in Nodes \cup {Nil}
    BY <1>2, <1>5, <2>1 DEF TypeOK, Threads, Links
  <2>3. IF next[n] = Nil THEN tail[t][k] = n ELSE prev[next[n]] = n
    BY <2>1 DEF Threads, Links
  <2>4. IF prev[n] = Nil THEN head[t][k] = n
        ELSE /\ prev[n] \in Book /\ next[prev[n]] = n
             /\ data[prev[n]].side = t /\ LevelOf(prev[n]) = k
             /\ data[prev[n]].id < data[n].id
    BY <2>1 DEF Threads, Links
  <2> HIDE DEF t, k
  <2>5. IF next[n] = Nil THEN tail'[t][k] = n ELSE prev'[next[n]] = n
    <3>1. CASE next[n] = Nil
      <4>1. ~(t = s /\ k = l /\ nx = Nil)
        BY <1>1, <2>1, <2>3, <3>1 DEF Threads, Links, nx
      <4> QED BY <1>4, <2>2, <2>3, <3>1, <4>1
    <3>2. CASE next[n] # Nil
      <4>1. next[n] # nx
        BY <1>6, <2>1, <2>3, <3>2
      <4> QED BY <1>3, <2>2, <2>3, <3>2, <4>1
    <3> QED BY <3>1, <3>2
  <2>6. CASE prev'[n] = Nil
    <3>1. head'[t][k] = n
      <4>1. CASE n = nx
        BY <1>4, <1>6, <2>1, <4>1, NodesAreNotNil DEF t, k
      <4>2. CASE n # nx
        <5>1. head[t][k] = n
          BY <1>3, <2>1, <2>4, <2>6, <4>2
        <5> QED BY <1>4, <2>1, <2>2, <5>1
      <4> QED BY <4>1, <4>2
    <3> QED BY <2>2, <2>5, <2>6, <3>1
  <2>7. CASE prev'[n] # Nil
    <3>1. n # nx /\ prev'[n] = prev[n] /\ prev[n] # Nil
      BY <1>3, <2>1, <2>7
    <3>2. prev[n] # h
      BY <2>4, <3>1 DEF nx
    <3>3. prev[n] \in Nodes /\ prev[n] \in Book'
      BY <1>7, <2>2, <2>4, <3>1, <3>2
    <3>4. next'[prev[n]] = n
      BY <1>2, <2>4, <3>1, <3>2, <3>3
    <3>5. data'[prev[n]].side = t /\ PriceIndex(data'[prev[n]].price) = k
          /\ data'[prev[n]].id < data[n].id
      BY <2>4, <3>1, <3>3 DEF LevelOf
    <3> QED BY <2>2, <2>5, <2>7, <3>1, <3>3, <3>4, <3>5
  <2> QED BY <2>6, <2>7
<1>10. FreeList'
  <2>1. Free' = Free \cup {h} /\ h \notin Free /\ Free \subseteq Nodes
    BY <1>1, <1>7 DEF Free
  <2>2. \A n \in Free : next'[n] = next[n]
    BY <1>2, <2>1
  <2>3. freeHead \in Free \cup {Nil} /\ freeHead # h /\ next'[h] = freeHead
    BY <1>2, <2>1, NodesAreNotNil DEF Threads, FreeList, TypeOK
  <2>4. /\ \A n \in Free' : next'[n] \in (Free' \ {h}) \cup {Nil}
        /\ \A m, n \in Free' : next'[m] = next'[n] /\ next'[m] # Nil => m = n
    <3>1. \A n \in Free : next[n] \in (Free \ {freeHead}) \cup {Nil}
      BY DEF Threads, FreeList
    <3>2. \A m, n \in Free : next[m] = next[n] /\ next[m] # Nil => m = n
      BY DEF Threads, FreeList
    <3>3. \A n \in Free' : n = h \/ (n \in Free /\ next'[n] = next[n])
      BY <2>1, <2>2
    <3>4. \A n \in Free' : next'[n] \in (Free' \ {h}) \cup {Nil}
      BY <2>1, <2>3, <3>1, <3>3
    <3>5. \A n \in Free : next'[n] = next'[h] => next[n] = Nil
      BY <2>2, <2>3, <3>1
    <3> QED BY <2>1, <2>2, <3>2, <3>3, <3>4, <3>5
  <2>5. ASSUME NEW S \in SUBSET Free', S # {}, h \notin S
        PROVE  \E m \in Free' \ S : next'[m] \in S
    <3>1. S \in SUBSET Free
      BY <2>1, <2>5
    <3>2. CASE freeHead \in S
      BY <2>1, <2>3, <2>5, <3>2
    <3>3. CASE freeHead \notin S
      <4>1. PICK m \in Free \ S : next[m] \in S
        BY <2>5, <3>1, <3>3 DEF Threads, FreeList
      <4> QED BY <2>1, <2>2, <4>1
    <3> QED BY <3>2, <3>3
  <2>6. ASSUME NEW S \in SUBSET Free', S # {}
        PROVE  \E n \in S : next'[n] \notin S
    <3>1. CASE S \ {h} = {}
      BY <2>3, <2>6, <3>1
    <3>2. CASE S \ {h} # {}
      <4>1. S \ {h} \in SUBSET Free
        BY <2>1, <2>6
      <4>2. PICK n \in S \ {h} : next[n] \notin S \ {h}
        BY <3>2, <4>1 DEF Threads, FreeList
      <4>3. n \in Free /\ next[n] \in Free \cup {Nil}
        BY <4>1, <4>2 DEF Threads, FreeList
      <4>4. next[n] # h
        BY <2>1, <4>3, NodesAreNotNil
      <4> QED BY <2>2, <4>2, <4>3, <4>4
    <3> QED BY <3>1, <3>2
  <2> QED BY <1>1, <2>1, <2>4, <2>5, <2>6 DEF FreeList
<1> QED BY <1>7, <1>8, <1>9, <1>10 DEF Threads

\* The part of Rest that relinks node f: Rent followed by AddToBook.
AddNode(s, l, f) ==
  /\ f = freeHead /\ freeHead' = next[f]
  /\ tail' = [tail EXCEPT ![s][l] = f]
  /\ OpenLevel(s, l, f) \/ JoinLevel(s, l, f)

\* Rent followed by AddToBook, field by field.
LEMMA RestEffect ==
  ASSUME TypeOK, Threads, NEW s \in Sides, NEW l \in Levels, NEW f \in Nodes,
         AddNode(s, l, f)
  PROVE  /\ f \in Free /\ prev[f] = Nil
         /\ tail[s][l] \in Book \cup {Nil} /\ tail[s][l] # f
         /\ tail[s][l] = Nil <=> head[s][l] = Nil
         /\ \A n \in Nodes : next'[n] = IF n = f THEN Nil
                                        ELSE IF n = tail[s][l] THEN f ELSE next[n]
         /\ \A n \in Nodes : prev'[n] = IF n = f THEN tail[s][l] ELSE prev[n]
         /\ \A t \in Sides, k \in Levels :
              /\ head'[t][k] = IF t = s /\ k = l /\ head[s][l] = Nil THEN f ELSE head[t][k]
              /\ tail'[t][k] = IF t = s /\ k = l THEN f ELSE tail[t][k]
<1>0. /\ f = freeHead /\ tail' = [tail EXCEPT ![s][l] = f]
      /\ OpenLevel(s, l, f) \/ JoinLevel(s, l, f)
  BY DEF AddNode
<1>1. f \in Free
  BY <1>0, NodesAreNotNil DEF Threads, FreeList
<1>2. prev[f] = Nil
  BY <1>1, BookIs DEF Free
<1>3. IF head[s][l] = Nil THEN tail[s][l] = Nil ELSE tail[s][l] \in Book
  BY DEF Threads, Ends
<1>4. Book \subseteq Nodes
  BY DEF Book
<1>5. tail[s][l] \in Book \cup {Nil} /\ tail[s][l] # f
      /\ (tail[s][l] = Nil <=> head[s][l] = Nil)
  BY <1>1, <1>3, <1>4, NodesAreNotNil DEF Free
<1>6. \A t \in Sides, k \in Levels :
         tail'[t][k] = IF t = s /\ k = l THEN f ELSE tail[t][k]
  BY <1>0 DEF TypeOK
<1>7. CASE OpenLevel(s, l, f)
  <2>1. /\ head[s][l] = Nil
        /\ next' = [next EXCEPT ![f] = Nil] /\ prev' = [prev EXCEPT ![f] = Nil]
        /\ head' = [head EXCEPT ![s][l] = f]
    BY <1>7 DEF OpenLevel
  <2>2. \A n \in Nodes : next'[n] = IF n = f THEN Nil
                                    ELSE IF n = tail[s][l] THEN f ELSE next[n]
    BY <1>5, <2>1, NodesAreNotNil DEF TypeOK
  <2>3. \A n \in Nodes : prev'[n] = IF n = f THEN tail[s][l] ELSE prev[n]
    BY <1>5, <2>1 DEF TypeOK
  <2>4. \A t \in Sides, k \in Levels :
           head'[t][k] = IF t = s /\ k = l /\ head[s][l] = Nil THEN f ELSE head[t][k]
    BY <2>1 DEF TypeOK
  <2> QED BY <1>1, <1>2, <1>5, <1>6, <2>2, <2>3, <2>4
<1>8. CASE JoinLevel(s, l, f)
  <2>1. /\ head[s][l] # Nil /\ head' = head
        /\ next' = [next EXCEPT ![f] = Nil, ![tail[s][l]] = f]
        /\ prev' = [prev EXCEPT ![f] = tail[s][l]]
    BY <1>8 DEF JoinLevel
  <2>2. \A n \in Nodes : next'[n] = IF n = f THEN Nil
                                    ELSE IF n = tail[s][l] THEN f ELSE next[n]
    BY <1>4, <1>5, <2>1, NodesAreNotNil DEF TypeOK
  <2>3. \A n \in Nodes : prev'[n] = IF n = f THEN tail[s][l] ELSE prev[n]
    BY <2>1 DEF TypeOK
  <2>4. \A t \in Sides, k \in Levels :
           head'[t][k] = IF t = s /\ k = l /\ head[s][l] = Nil THEN f ELSE head[t][k]
    BY <2>1
  <2> QED BY <1>1, <1>2, <1>5, <1>6, <2>2, <2>3, <2>4
<1> QED BY <1>0, <1>7, <1>8

\* The head of the free list joins a level as its newest order and every list
\* keeps its shape.
LEMMA RestThreads ==
  ASSUME TypeOK, Threads, NEW s \in Sides, NEW l \in Levels, NEW f \in Nodes,
         AddNode(s, l, f),
         \A n \in Nodes : n # f => data'[n] = data[n],
         data'[f].side = s, PriceIndex(data'[f].price) = l,
         \A n \in Book : data[n].id < data'[f].id
  PROVE  Threads' /\ Book' = Book \cup {f}
<1>0. /\ f \in Free /\ prev[f] = Nil
      /\ tail[s][l] \in Book \cup {Nil} /\ tail[s][l] # f
      /\ tail[s][l] = Nil <=> head[s][l] = Nil
      /\ \A n \in Nodes : next'[n] = IF n = f THEN Nil
                                     ELSE IF n = tail[s][l] THEN f ELSE next[n]
      /\ \A n \in Nodes : prev'[n] = IF n = f THEN tail[s][l] ELSE prev[n]
      /\ \A t \in Sides, k \in Levels :
           /\ head'[t][k] = IF t = s /\ k = l /\ head[s][l] = Nil THEN f ELSE head[t][k]
           /\ tail'[t][k] = IF t = s /\ k = l THEN f ELSE tail[t][k]
  BY RestEffect
<1> DEFINE tl == tail[s][l]
<1>1. /\ f \in Free /\ prev[f] = Nil /\ tl \in Book \cup {Nil} /\ tl # f
      /\ tl = Nil <=> head[s][l] = Nil
  BY <1>0
<1>2. \A n \in Nodes : next'[n] = IF n = f THEN Nil ELSE IF n = tl THEN f ELSE next[n]
  BY <1>0
<1>3. \A n \in Nodes : prev'[n] = IF n = f THEN tl ELSE prev[n]
  BY <1>0
<1>4. \A t \in Sides, k \in Levels :
         /\ head'[t][k] = IF t = s /\ k = l /\ tl = Nil THEN f ELSE head[t][k]
         /\ tail'[t][k] = IF t = s /\ k = l THEN f ELSE tail[t][k]
  BY <1>0
<1>5. \A n \in Nodes : n # f => LevelOf(n)' = LevelOf(n)
  BY DEF LevelOf
<1>6. Book \subseteq Nodes /\ f \notin Book
  BY <1>1 DEF Book, Free
<1>7. tl # Nil => next[tl] = Nil /\ data[tl].side = s /\ LevelOf(tl) = l
  BY <1>1 DEF Threads, Ends
<1> HIDE DEF tl
<1>8. Book' = Book \cup {f}
  <2>1. f \in Book'
    <3>1. CASE tl = Nil
      BY <1>4, <3>1, BookIsNext
    <3>2. CASE tl # Nil
      BY <1>3, <3>2, BookIsNext
    <3> QED BY <3>1, <3>2
  <2>2. ASSUME NEW n \in Nodes, n # f PROVE n \in Book' <=> n \in Book
    <3>1. prev'[n] = prev[n]
      BY <1>3, <2>2
    <3>2. \A t \in Sides, k \in Levels : head'[t][k] = n <=> head[t][k] = n
      BY <1>1, <1>4, <2>2, NodesAreNotNil DEF tl
    <3> QED BY <3>1, <3>2, BookIs, BookIsNext
  <2>3. Book' \subseteq Nodes
    BY DEF Book
  <2> QED BY <1>6, <2>1, <2>2, <2>3
<1>9. Ends'
  <2> SUFFICES ASSUME NEW t \in Sides, NEW k \in Levels
               PROVE  IF head'[t][k] = Nil THEN tail'[t][k] = Nil
                      ELSE /\ prev'[head'[t][k]] = Nil
                           /\ data'[head'[t][k]].side = t
                           /\ PriceIndex(data'[head'[t][k]].price) = k
                           /\ tail'[t][k] \in Book' /\ next'[tail'[t][k]] = Nil
                           /\ data'[tail'[t][k]].side = t
                           /\ PriceIndex(data'[tail'[t][k]].price) = k
    BY DEF Ends, LevelOf
  <2>1. head[t][k] \in Nodes \cup {Nil} /\ tail[t][k] \in Nodes \cup {Nil}
    BY DEF TypeOK
  <2>2. IF head[t][k] = Nil THEN tail[t][k] = Nil
        ELSE /\ prev[head[t][k]] = Nil
             /\ data[head[t][k]].side = t /\ PriceIndex(data[head[t][k]].price) = k
             /\ tail[t][k] \in Book /\ next[tail[t][k]] = Nil
             /\ data[tail[t][k]].side = t /\ PriceIndex(data[tail[t][k]].price) = k
    BY DEF Threads, Ends, LevelOf
  <2>3. head[t][k] # Nil => head[t][k] \in Book /\ head[t][k] # f
    BY <1>6, <2>1, BookIs
  <2>4. head[t][k] # Nil => /\ prev'[head[t][k]] = Nil
                            /\ data'[head[t][k]].side = t
                            /\ PriceIndex(data'[head[t][k]].price) = k
    BY <1>3, <2>1, <2>2, <2>3
  <2>5. CASE t = s /\ k = l
    <3>1. tail'[t][k] = f /\ next'[f] = Nil /\ f \in Book'
      BY <1>2, <1>4, <1>8, <2>5
    <3>2. CASE tl = Nil
      <4>1. head'[t][k] = f /\ prev'[f] = Nil
        BY <1>3, <1>4, <2>5, <3>2
      <4> QED BY <2>5, <3>1, <4>1, NodesAreNotNil
    <3>3. CASE tl # Nil
      <4>1. head'[t][k] = head[t][k] /\ head[t][k] # Nil
        BY <1>1, <1>4, <2>5, <3>3
      <4> QED BY <2>4, <2>5, <3>1, <4>1
    <3> QED BY <3>2, <3>3
  <2>6. CASE ~(t = s /\ k = l)
    <3>1. head'[t][k] = head[t][k] /\ tail'[t][k] = tail[t][k]
      BY <1>4, <2>6
    <3>2. CASE head[t][k] = Nil
      BY <2>2, <3>1, <3>2
    <3>3. CASE head[t][k] # Nil
      <4>1. tail[t][k] # tl /\ tail[t][k] # f /\ tail[t][k] \in Nodes
        BY <1>6, <1>7, <2>1, <2>2, <2>6, <3>3, NodesAreNotNil DEF LevelOf
      <4>2. next'[tail[t][k]] = Nil /\ tail[t][k] \in Book'
            /\ data'[tail[t][k]] = data[tail[t][k]]
        BY <1>2, <1>8, <2>2, <3>3, <4>1
      <4> QED BY <2>2, <2>4, <3>1, <3>3, <4>2
    <3> QED BY <3>2, <3>3
  <2> QED BY <2>5, <2>6
<1>10. Links'
  <2> SUFFICES ASSUME NEW n \in Book'
               PROVE  /\ LevelOf(n)' \in Levels
                      /\ IF next'[n] = Nil THEN tail'[data'[n].side][LevelOf(n)'] = n
                         ELSE prev'[next'[n]] = n
                      /\ IF prev'[n] = Nil THEN head'[data'[n].side][LevelOf(n)'] = n
                         ELSE /\ prev'[n] \in Book' /\ next'[prev'[n]] = n
                              /\ data'[prev'[n]].side = data'[n].side
                              /\ PriceIndex(data'[prev'[n]].price) = LevelOf(n)'
                              /\ data'[prev'[n]].id < data'[n].id
    BY DEF Links, LevelOf
  <2>1. CASE n = f
    <3>1. data'[n].side = s /\ LevelOf(n)' = l /\ next'[n] = Nil /\ prev'[n] = tl
          /\ tail'[s][l] = f
      BY <1>2, <1>3, <1>4, <2>1 DEF LevelOf
    <3>2. CASE tl = Nil
      BY <1>4, <2>1, <3>1, <3>2
    <3>3. CASE tl # Nil
      <4>1. tl \in Book' /\ next'[tl] = f /\ data'[tl] = data[tl] /\ tl \in Book
        BY <1>1, <1>2, <1>6, <1>8, <3>3
      <4>2. data'[tl].side = s /\ PriceIndex(data'[tl].price) = l
            /\ data'[tl].id < data'[f].id
        BY <1>7, <3>3, <4>1 DEF LevelOf
      <4> QED BY <2>1, <3>1, <3>3, <4>1, <4>2
    <3> QED BY <3>2, <3>3
  <2>2. CASE n # f
    <3> DEFINE t == data[n].side
               k == LevelOf(n)
    <3>1. n \in Nodes /\ n \in Book
      BY <1>6, <1>8, <2>2
    <3>2. data'[n] = data[n] /\ LevelOf(n)' = k /\ t \in Sides /\ k \in Levels
          /\ next[n] \in Nodes \cup {Nil} /\ prev[n] \in Nodes \cup {Nil}
          /\ prev'[n] = prev[n]
      BY <1>3, <1>5, <2>2, <3>1 DEF TypeOK, Threads, Links
    <3>3. IF next[n] = Nil THEN tail[t][k] = n ELSE prev[next[n]] = n
      BY <3>1 DEF Threads, Links
    <3>4. IF prev[n] = Nil THEN head[t][k] = n
          ELSE /\ prev[n] \in Book /\ next[prev[n]] = n
               /\ data[prev[n]].side = t /\ PriceIndex(data[prev[n]].price) = k
               /\ data[prev[n]].id < data[n].id
      BY <3>1 DEF Threads, Links, LevelOf
    <3> HIDE DEF t, k
    <3>5. IF next'[n] = Nil THEN tail'[t][k] = n ELSE prev'[next'[n]] = n
      <4>1. CASE n = tl
        <5>1. next'[n] = f /\ prev'[f] = n
          BY <1>2, <1>3, <2>2, <3>1, <4>1
        <5> QED BY <5>1, NodesAreNotNil
      <4>2. CASE n # tl
        <5>1. next'[n] = next[n]
          BY <1>2, <2>2, <3>1, <4>2
        <5>2. CASE next[n] = Nil
          <6>1. ~(t = s /\ k = l)
            BY <3>3, <4>2, <5>2 DEF tl
          <6> QED BY <1>4, <3>2, <3>3, <5>1, <5>2, <6>1
        <5>3. CASE next[n] # Nil
          <6>1. next[n] # f
            BY <1>1, <3>1, <3>3, <5>3, NodesAreNotNil
          <6> QED BY <1>3, <3>2, <3>3, <5>1, <5>3, <6>1
        <5> QED BY <5>2, <5>3
      <4> QED BY <4>1, <4>2
    <3>6. CASE prev[n] = Nil
      <4>1. head'[t][k] = n
        BY <1>1, <1>4, <3>1, <3>2, <3>4, <3>6, NodesAreNotNil DEF tl
      <4> QED BY <3>2, <3>5, <3>6, <4>1 DEF t
    <3>7. CASE prev[n] # Nil
      <4>1. prev[n] \in Book /\ prev[n] # f /\ prev[n] \in Nodes
        BY <1>6, <3>4, <3>7
      <4>2. prev[n] # tl
        BY <1>7, <3>1, <3>4, <3>7, <4>1, NodesAreNotNil
      <4>3. next'[prev[n]] = n /\ data'[prev[n]] = data[prev[n]] /\ prev[n] \in Book'
        BY <1>2, <1>8, <3>4, <3>7, <4>1, <4>2
      <4> QED BY <3>2, <3>4, <3>5, <3>7, <4>3 DEF t
    <3> QED BY <3>6, <3>7
  <2> QED BY <2>1, <2>2
<1>11. FreeList'
  <2>0. f = freeHead /\ freeHead' = next[f]
    BY DEF AddNode
  <2>1. Free' = Free \ {f} /\ Free \subseteq Nodes
    BY <1>8 DEF Free
  <2>2. \A n \in Free' : next'[n] = next[n]
    BY <1>1, <1>2, <2>1, NodesAreNotNil DEF Free
  <2>3. next[f] \in Free \cup {Nil} /\ next[f] # f
    <3>1. next[f] \in Free \cup {Nil} /\ {f} \in SUBSET Free
      BY <1>1, <2>0 DEF Threads, FreeList
    <3>2. \E n \in {f} : next[n] \notin {f}
      BY <3>1 DEF Threads, FreeList
    <3> QED BY <3>1, <3>2
  <2>4. freeHead' # Nil => freeHead' \in Free'
    BY <2>0, <2>1, <2>3
  <2>5. ASSUME NEW S \in SUBSET Free', S # {}, next[f] \notin S
        PROVE  \E m \in Free' \ S : next'[m] \in S
    <3>1. S \in SUBSET Free /\ f \notin S
      BY <2>1, <2>5
    <3>2. PICK m \in Free \ S : next[m] \in S
      BY <2>0, <2>5, <3>1 DEF Threads, FreeList
    <3>3. m # f
      BY <2>0, <2>5, <3>2
    <3> QED BY <2>1, <2>2, <3>2, <3>3
  <2>6. ASSUME NEW S \in SUBSET Free', S # {}
        PROVE  \E n \in S : next'[n] \notin S
    <3>1. S \in SUBSET Free
      BY <2>1, <2>6
    <3>2. PICK n \in S : next[n] \notin S
      BY <2>6, <3>1 DEF Threads, FreeList
    <3> QED BY <2>2, <3>2
  <2>7. /\ \A n \in Free' : next'[n] \in (Free' \ {next[f]}) \cup {Nil}
        /\ \A m, n \in Free' : next'[m] = next'[n] /\ next'[m] # Nil => m = n
    <3>1. \A n \in Free : next[n] \in (Free \ {f}) \cup {Nil}
      BY <2>0 DEF Threads, FreeList
    <3>2. \A m, n \in Free : next[m] = next[n] /\ next[m] # Nil => m = n
      BY <2>0 DEF Threads, FreeList
    <3> QED BY <1>1, <2>1, <2>2, <3>1, <3>2
  <2> QED BY <2>0, <2>1, <2>4, <2>5, <2>6, <2>7 DEF FreeList
<1> QED BY <1>8, <1>9, <1>10, <1>11 DEF Threads

\* OrderPool.Reset links all the nodes into one list that starts at node 0.
LEMMA FreshNextIsAList ==
  /\ 0 \in Nodes
  /\ \A n \in Nodes : FreshNext[n] \in (Nodes \ {0}) \cup {Nil}
  /\ \A m, n \in Nodes : FreshNext[m] = FreshNext[n] /\ FreshNext[m] # Nil => m = n
  /\ \A S \in SUBSET Nodes :
       S # {} /\ 0 \notin S => \E m \in Nodes \ S : FreshNext[m] \in S
  /\ \A S \in SUBSET Nodes : S # {} => \E n \in S : FreshNext[n] \notin S
<1>1. PoolSize - 1 \in Nat /\ 0 \in Nodes /\ Nil \notin Nodes /\ Nodes \subseteq Nat
  BY BookAssumption DEF Nodes, Nil
<1>2. \A n \in Nodes : FreshNext[n] = IF n = PoolSize - 1 THEN Nil ELSE n + 1
  BY DEF FreshNext
<1>3. \A n \in Nodes : FreshNext[n] \in (Nodes \ {0}) \cup {Nil}
  BY <1>1, <1>2 DEF Nodes
<1>4. \A m, n \in Nodes : FreshNext[m] = FreshNext[n] /\ FreshNext[m] # Nil => m = n
  BY <1>1, <1>2
<1>5. ASSUME NEW S \in SUBSET Nodes, S # {}, 0 \notin S
      PROVE  \E m \in Nodes \ S : FreshNext[m] \in S
  <2>1. S \in SUBSET Nat
    BY <1>1
  <2>2. PICK x \in S : \A y \in S : x <= y
    BY <1>5, <2>1, LeastExists
  <2>3. x - 1 \in Nodes /\ x - 1 # PoolSize - 1 /\ x - 1 \notin S
    BY <1>1, <1>5, <2>1, <2>2 DEF Nodes
  <2>4. FreshNext[x - 1] = x
    BY <1>2, <2>1, <2>3
  <2> QED BY <2>3, <2>4
<1>6. ASSUME NEW S \in SUBSET Nodes, S # {}
      PROVE  \E n \in S : FreshNext[n] \notin S
  <2>1. PICK x \in S : \A y \in S : x >= y
    BY <1>1, <1>6, GreatestExists DEF Nodes
  <2>2. x \in Nat /\ x \in Nodes
    BY <1>1
  <2>3. x + 1 \notin S
    BY <2>1, <2>2
  <2> QED BY <1>1, <1>2, <2>2, <2>3
<1> QED BY <1>1, <1>3, <1>4, <1>5, <1>6

\* A new or cleared book has all its nodes in the free list.
LEMMA InitThreads == Init => Threads /\ Book = {}
<1> SUFFICES ASSUME Init PROVE Threads /\ Book = {}
  OBVIOUS
<1>1. /\ next = FreshNext /\ freeHead = 0 /\ \A n \in Nodes : prev[n] = Nil
      /\ \A s \in Sides, l \in Levels : head[s][l] = Nil /\ tail[s][l] = Nil
  BY DEF Init, EmptyLevels
<1>2. Book = {}
  <2>1. \A n \in Nodes : n \notin Book
    BY <1>1, BookIs, NodesAreNotNil
  <2> QED BY <2>1 DEF Book
<1>3. Free = Nodes
  BY <1>2 DEF Free
<1>4. Ends /\ Links
  BY <1>1, <1>2 DEF Ends, Links
<1>5. FreeList
  BY <1>1, <1>3, FreshNextIsAList DEF FreeList
<1> QED BY <1>2, <1>4, <1>5 DEF Threads

\* The same after a step that clears.
LEMMA ClearThreads == Clear => Threads' /\ Book' = {}
<1> SUFFICES ASSUME Clear PROVE Threads' /\ Book' = {}
  OBVIOUS
<1>1. /\ next' = FreshNext /\ freeHead' = 0 /\ \A n \in Nodes : prev'[n] = Nil
      /\ \A s \in Sides, l \in Levels : head'[s][l] = Nil /\ tail'[s][l] = Nil
  BY DEF Clear, EmptyLevels
<1>2. Book' = {}
  <2>1. \A n \in Nodes : n \notin Book'
    BY <1>1, BookIsNext, NodesAreNotNil
  <2> QED BY <2>1 DEF Book
<1>3. Free' = Nodes
  BY <1>2 DEF Free
<1>4. Ends' /\ Links'
  BY <1>1, <1>2 DEF Ends, Links
<1>5. FreeList'
  BY <1>1, <1>3, FreshNextIsAList DEF FreeList
<1> QED BY <1>2, <1>4, <1>5 DEF Threads

-----------------------------------------------------------------------------
(* Every step keeps the lists and the orders in them.                        *)

\* What a trade does to the quantities: the maker's node and the order being
\* processed go down by it, nothing else in a node changes.
LEMMA FillEffect ==
  ASSUME Sound, Fill
  PROVE  /\ Opposite(incoming.side) \in Sides
         /\ best[Opposite(incoming.side)] \in Levels
         /\ MakerNode \in Nodes
         /\ MakerNode = head[Opposite(incoming.side)][best[Opposite(incoming.side)]]
         /\ trade.qty \in Int /\ trade.qty = TradeQty
         /\ \A n \in Nodes :
              /\ data'[n].side = data[n].side /\ data'[n].price = data[n].price
              /\ data'[n].id = data[n].id
              /\ data'[n].qty = IF n = MakerNode THEN data[n].qty - trade.qty
                                                 ELSE data[n].qty
         /\ incoming'.qty = incoming.qty - trade.qty
         /\ incoming'.id = incoming.id /\ incoming'.side = incoming.side
         /\ incoming'.price = incoming.price
         /\ incoming'.original = incoming.original
<1> DEFINE h == MakerNode
<1>1. /\ Opposite(incoming.side) \in Sides
      /\ best[Opposite(incoming.side)] \in Levels
      /\ h \in Nodes /\ trade.qty \in Int /\ trade.qty = TradeQty
  BY MakerExists DEF Fill, Sound, CallbackReady
<1>2. /\ incoming' = [incoming EXCEPT !.qty = @ - trade.qty]
      /\ data' = [data EXCEPT ![h].qty = @ - trade.qty]
  BY DEF Fill, Debit
<1>3. /\ data \in [Nodes -> [id : Nat, side : Sides, price : Int, qty : Int]]
      /\ incoming \in [id : 0 .. MaxOrders, side : Sides, price : Int,
                       original : Int, qty : Int]
  BY DEF Sound, TypeOK
<1> HIDE DEF h
<1>4. \A n \in Nodes :
        /\ data'[n].side = data[n].side /\ data'[n].price = data[n].price
        /\ data'[n].id = data[n].id
        /\ data'[n].qty = IF n = h THEN data[n].qty - trade.qty ELSE data[n].qty
  BY <1>1, <1>2, <1>3 DEF h
<1>5. /\ incoming'.qty = incoming.qty - trade.qty
      /\ incoming'.id = incoming.id /\ incoming'.side = incoming.side
      /\ incoming'.price = incoming.price /\ incoming'.original = incoming.original
  BY <1>2, <1>3
<1> QED BY <1>1, <1>4, <1>5 DEF h, MakerNode

\* The node a trade takes from is in the book.
LEMMA MakerInBook ==
  ASSUME Sound, Fill
  PROVE  MakerNode \in Book
BY FillEffect, BookIs

\* What Rest does to the lists and to the node it takes.
LEMMA RestAdds ==
  ASSUME Sound, Rest
  PROVE  /\ freeHead \in Nodes /\ incoming.side \in Sides
         /\ PriceIndex(incoming.price) \in Levels
         /\ AddNode(incoming.side, PriceIndex(incoming.price), freeHead)
         /\ \A n \in Nodes : n # freeHead => data'[n] = data[n]
         /\ data'[freeHead] = [id |-> incoming.id, side |-> incoming.side,
                               price |-> incoming.price, qty |-> incoming.qty]
<1>1. /\ freeHead \in Nodes /\ incoming.side \in Sides
      /\ PriceIndex(incoming.price) \in Levels
  BY IndexRange DEF Rest, PoolEmpty, Sound, TypeOK, InRangeWhileBusy
<1>2. AddNode(incoming.side, PriceIndex(incoming.price), freeHead)
  BY DEF Rest, AddNode
<1>3. data' = [data EXCEPT ![freeHead] = [id |-> incoming.id, side |-> incoming.side,
                                          price |-> incoming.price,
                                          qty |-> incoming.qty]]
  BY DEF Rest
<1>4. /\ \A n \in Nodes : n # freeHead => data'[n] = data[n]
      /\ data'[freeHead] = [id |-> incoming.id, side |-> incoming.side,
                            price |-> incoming.price, qty |-> incoming.qty]
  BY <1>1, <1>3 DEF Sound, TypeOK
<1> QED BY <1>1, <1>2, <1>4

\* How the lists change in a step: they keep their shape, and the book gains the
\* order that rests, loses the maker that is used up, or is cleared.
LEMMA ThreadsStep ==
  ASSUME Sound, Threads, Orders, [Next]_vars
  PROVE  /\ Threads'
         /\ Rest  => Book' = Book \cup {freeHead} /\ freeHead \in Free
         /\ Fill  => Book' = IF data[MakerNode].qty = trade.qty
                               THEN Book \ {MakerNode} ELSE Book
         /\ Clear => Book' = {}
         /\ ~(Rest \/ Fill \/ Clear) => UNCHANGED <<Book, data, head, best>>
<1>0. TypeOK
  BY DEF Sound
<1>1. CASE Rest
  <2> DEFINE f == freeHead
             s == incoming.side
             l == PriceIndex(incoming.price)
  <2>1. /\ f \in Nodes /\ s \in Sides /\ l \in Levels /\ AddNode(s, l, f)
        /\ \A n \in Nodes : n # f => data'[n] = data[n]
        /\ data'[f].side = s /\ data'[f].price = incoming.price
        /\ data'[f].id = incoming.id
    BY <1>1, RestAdds
  <2>2. pc # "idle" /\ pc' = "idle" /\ incoming.id \in Nat
    BY <1>0, <1>1 DEF Rest, TypeOK
  <2>3. \A n \in Book : data[n].id < data'[f].id
    BY <2>1, <2>2 DEF Orders
  <2>4. PriceIndex(data'[f].price) = l
    BY <2>1
  <2> HIDE DEF f, s, l
  <2>5. Threads' /\ Book' = Book \cup {f}
    BY <1>0, <2>1, <2>3, <2>4, RestThreads
  <2>6. f \in Free
    BY <1>0, <2>1, RestEffect
  <2>7. ~Fill /\ ~Clear
    BY <2>2 DEF Fill, Clear
  <2> QED BY <1>1, <2>5, <2>6, <2>7 DEF f
<1>2. CASE Fill
  <2> DEFINE h == MakerNode
             s == Opposite(incoming.side)
             l == best[s]
  <2>1. /\ s \in Sides /\ l \in Levels /\ h \in Nodes /\ h = head[s][l]
        /\ \A n \in Nodes : /\ data'[n].side = data[n].side
                            /\ data'[n].price = data[n].price
                            /\ data'[n].id = data[n].id
    BY <1>2, FillEffect
  <2>2. ~Rest /\ ~Clear
    BY <1>2 DEF Fill, Rest, Clear
  <2>3. MakerStays(h) \/ MakerLeaves(s, l, h)
    BY <1>2 DEF Fill
  <2> HIDE DEF h, s, l
  <2>4. CASE MakerStays(h)
    <3>1. data[h].qty # trade.qty /\ UNCHANGED pointers
      BY <2>4 DEF MakerStays
    <3>2. Threads' /\ Book' = Book
      BY <1>0, <2>1, <3>1, SameThreads
    <3> QED BY <1>2, <2>2, <3>1, <3>2 DEF h
  <2>5. CASE MakerLeaves(s, l, h)
    <3>1. data[h].qty = trade.qty
      BY <2>5 DEF MakerLeaves
    <3>2. Threads' /\ Book' = Book \ {h}
      BY <1>0, <2>1, <2>5, LeaveThreads
    <3> QED BY <1>2, <2>2, <3>1, <3>2 DEF h
  <2> QED BY <2>3, <2>4, <2>5
<1>3. CASE Clear
  <2>1. ~Rest /\ ~Fill
    BY <1>3 DEF Fill, Rest, Clear
  <2> QED BY <1>3, <2>1, ClearThreads
<1>4. CASE ~(Rest \/ Fill \/ Clear)
  <2>1. UNCHANGED <<pointers, data, head, best>>
    BY <1>4 DEF Next, Step, Receive, Execute, CallbackThrows, RejectExhausted,
                FullyFilled, vars, bookVars, pointers, trackers
  <2>2. Threads' /\ Book' = Book
    BY <1>0, <2>1, SameThreads
  <2> QED BY <1>4, <2>1, <2>2
<1> QED BY <1>1, <1>2, <1>3, <1>4

\* Every step keeps what the orders in the nodes are worth.
LEMMA OrdersStep ==
  ASSUME Sound, Threads, Orders, [Next]_vars
  PROVE  Orders'
<1>0. TypeOK /\ Book \subseteq Nodes
  BY DEF Sound, Book
<1>a. /\ incoming.id \in 0 .. MaxOrders /\ MaxOrders \in Nat
      /\ openQty \in [OrderIds -> Int]
      /\ \A n \in Book : data[n].id \in OrderIds
  <2>1. /\ incoming.id \in 0 .. MaxOrders /\ MaxOrders \in Nat
        /\ openQty \in [OrderIds -> Int]
    BY <1>0, BookAssumption DEF TypeOK
  <2>2. \A n \in Book : data[n].id \in 1 .. incoming.id
    BY DEF Orders
  <2>3. \A n \in Book : data[n].id \in OrderIds
    BY <2>1, <2>2 DEF OrderIds
  <2> QED BY <2>1, <2>3
<1>1. CASE Receive
  <2>1. PICK s \in Sides, p \in Prices, q \in Quantities :
          /\ incoming' = [id |-> incoming.id + 1, side |-> s, price |-> p,
                          original |-> q, qty |-> q]
          /\ openQty' = [openQty EXCEPT ![incoming.id + 1] = q]
          /\ pc' \in {"match", "idle"}
    BY <1>1 DEF Receive
  <2>2. Book' = Book /\ data' = data
    BY <1>1 DEF Receive, bookVars, pointers, Book, InBook, AllLevels, HeadOf
  <2>3. incoming'.id = incoming.id + 1 /\ incoming'.qty = q /\ incoming.id + 1 \in OrderIds
    BY <1>1, <1>a, <2>1 DEF Receive, OrderIds
  <2>4. openQty'[incoming.id + 1] = q
        /\ \A i \in OrderIds : i # incoming.id + 1 => openQty'[i] = openQty[i]
    BY <1>a, <2>1, <2>3
  <2>5. \A n \in Book : data[n].id \in 1 .. incoming.id
    BY DEF Orders
  <2>6. \A n \in Book : /\ data[n].id \in 1 .. incoming.id + 1
                        /\ data[n].id # incoming.id + 1
    BY <1>a, <2>5
  <2> QED BY <1>a, <2>1, <2>2, <2>3, <2>4, <2>6 DEF Orders
<1>2. CASE Execute
  <2>1. UNCHANGED <<Book, data, head, best, incoming, openQty>> /\ pc # "idle"
        /\ pc' = "callback"
        /\ trade'.maker = data[MakerNode].id /\ trade'.taker = incoming.id
    BY <1>2 DEF Execute, bookVars, pointers, trackers, Book, InBook, AllLevels, HeadOf
  <2>2. MakerNode' = MakerNode
    BY <2>1 DEF MakerNode
  <2> QED BY <2>1, <2>2 DEF Orders
<1>3. CASE Fill
  <2> DEFINE h == MakerNode
  <2>1. /\ h \in Nodes /\ trade.qty \in Int /\ trade.qty = TradeQty
        /\ \A n \in Nodes :
             /\ data'[n].id = data[n].id
             /\ data'[n].qty = IF n = h THEN data[n].qty - trade.qty ELSE data[n].qty
        /\ incoming'.qty = incoming.qty - trade.qty /\ incoming'.id = incoming.id
    BY <1>3, FillEffect
  <2>2. h \in Book
    BY <1>3, MakerInBook
  <2>3. Book' = IF data[h].qty = trade.qty THEN Book \ {h} ELSE Book
    BY <1>3, ThreadsStep
  <2>4. trade.maker = data[h].id /\ trade.taker = incoming.id /\ pc # "idle"
        /\ pc' = "match"
    BY <1>3 DEF Fill, Orders
  <2>5. openQty' = [i \in OrderIds |-> IF i \in {data[h].id, incoming.id}
                                        THEN openQty[i] - trade.qty ELSE openQty[i]]
    BY <1>3, <2>4 DEF Fill
  <2>6. incoming.qty \in Int /\ data[h].qty \in Int
        /\ trade.qty = IF incoming.qty <= data[h].qty THEN incoming.qty ELSE data[h].qty
    BY <1>0, <2>1 DEF TypeOK, TradeQty
  <2> HIDE DEF h
  <2>7. \A n \in Book' : n \in Book /\ n \in Nodes
    BY <1>0, <2>3
  <2>8. \A n \in Book' : data'[n].qty > 0
    BY <2>1, <2>3, <2>6, <2>7 DEF Orders
  <2>9. ASSUME NEW n \in Book'
        PROVE  data'[n].qty = openQty'[data'[n].id]
    <3>1. n \in Book /\ n \in Nodes /\ data[n].id \in OrderIds /\ data[n].id # incoming.id
      BY <1>a, <2>4, <2>7 DEF Orders
    <3>2. data[n].id = data[h].id <=> n = h
      BY <2>2, <3>1 DEF Orders
    <3>3. openQty'[data[n].id] = IF n = h THEN openQty[data[n].id] - trade.qty
                                          ELSE openQty[data[n].id]
      BY <2>5, <3>1, <3>2
    <3> QED BY <2>1, <3>1, <3>3 DEF Orders
  <2>10. incoming'.id > 0 /\ incoming'.qty = openQty'[incoming'.id]
    <3>1. incoming.id \in OrderIds /\ incoming.id > 0 /\ incoming.qty = openQty[incoming.id]
      BY <1>a, <2>4 DEF Orders, OrderIds
    <3> QED BY <2>1, <2>5, <3>1
  <2>11. \A n \in Book' : data'[n].id \in 1 .. incoming'.id /\ data'[n].id # incoming'.id
    BY <2>1, <2>4, <2>7 DEF Orders
  <2>12. \A m, n \in Book' : data'[m].id = data'[n].id => m = n
    BY <2>1, <2>7 DEF Orders
  <2> QED BY <2>4, <2>8, <2>9, <2>10, <2>11, <2>12 DEF Orders
<1>4. CASE Rest
  <2> DEFINE f == freeHead
  <2>1. /\ f \in Nodes /\ \A n \in Nodes : n # f => data'[n] = data[n]
        /\ data'[f].id = incoming.id /\ data'[f].qty = incoming.qty
    BY <1>4, RestAdds
  <2>2. Book' = Book \cup {f} /\ f \notin Book
    BY <1>4, ThreadsStep DEF Free
  <2>3. /\ pc # "idle" /\ pc' = "idle" /\ incoming.qty > 0
        /\ incoming' = incoming /\ openQty' = openQty
    BY <1>4 DEF Rest
  <2> HIDE DEF f
  <2>4. incoming.id \in 1 .. incoming.id /\ incoming.qty = openQty[incoming.id]
    BY <1>a, <2>3 DEF Orders
  <2>5. \A n \in Book' : n = f \/ (n \in Book /\ data'[n] = data[n])
    BY <1>0, <2>1, <2>2
  <2>6. \A n \in Book : data[n].id # incoming.id
    BY <2>3 DEF Orders
  <2> QED BY <2>1, <2>3, <2>4, <2>5, <2>6 DEF Orders
<1>5. CASE CallbackThrows \/ RejectExhausted \/ FullyFilled
  <2>1. UNCHANGED <<Book, data, incoming, openQty>> /\ pc' = "idle"
    BY <1>5 DEF CallbackThrows, RejectExhausted, FullyFilled, bookVars, pointers,
                Book, InBook, AllLevels, HeadOf
  <2> QED BY <2>1 DEF Orders
<1>6. CASE Clear
  <2>1. Book' = {} /\ pc' = "idle"
    BY <1>6, ClearThreads DEF Clear, callVars
  <2> QED BY <2>1 DEF Orders
<1>7. CASE UNCHANGED vars
  <2>1. UNCHANGED <<Book, data, incoming, openQty, head, best, pc, trade>>
    BY <1>7 DEF vars, callVars, bookVars, pointers, trackers, Book, InBook, AllLevels,
                HeadOf
  <2> QED BY <2>1 DEF Orders, MakerNode
<1> QED BY <1>1, <1>2, <1>3, <1>4, <1>5, <1>6, <1>7 DEF Next, Step

\* The lists keep their shape and their orders in every state.
THEOREM AlwaysThreaded == Spec => [](Sound /\ Threads /\ Orders)
<1>1. Init => Sound /\ Threads /\ Orders
  <2>1. Init => Orders
    BY InitThreads DEF Init, Orders
  <2> QED BY <2>1, InitSound, InitThreads
<1>2. Sound /\ Threads /\ Orders /\ [Next]_vars => (Sound /\ Threads /\ Orders)'
  BY NextSound, ThreadsStep, OrdersStep
<1> QED BY <1>1, <1>2, PTL DEF Spec

\* The book and the trades it reported agree in every state: what an order has
\* open in the book is what its quantity less its trades leaves (Debit, RemoveNode,
\* AddToBook and the callback of ProcessOrder).
THEOREM AlwaysAgreesWithTape == Spec => []BookAgreesWithTape
<1>1. Orders => BookAgreesWithTape
  BY DEF Orders, BookAgreesWithTape, Book
<1> QED BY <1>1, AlwaysThreaded, PTL

-----------------------------------------------------------------------------
(* The book implements PriceTimePriority.                                    *)

Exact == Sound /\ Threads /\ Orders /\ Wholeness

\* What the refinement needs of a state is inductive.
LEMMA ExactStep ==
  ASSUME Exact, [Next]_vars
  PROVE  Exact'
BY NextSound, ThreadsStep, OrdersStep, RefusedWholeStep DEF Exact

\* The orders of the abstract book.
Resting == {data[n] : n \in Book}

\* Two nodes hold two orders, so a book has as many orders as nodes.
LEMMA RestingCount ==
  ASSUME Sound, Orders
  PROVE  /\ IsFiniteSet(Book) /\ Cardinality(Resting) = Cardinality(Book)
         /\ Free = {} => Cardinality(Resting) = PoolSize
         /\ Free # {} => Cardinality(Resting) < PoolSize
<1>1. IsFiniteSet(Nodes) /\ Cardinality(Nodes) = PoolSize
  BY BookAssumption, FS_Interval DEF Nodes
<1>2. Book \subseteq Nodes /\ IsFiniteSet(Book)
  BY <1>1, FS_Subset DEF Book
<1>3. Cardinality(Resting) = Cardinality(Book)
  <2> DEFINE f == [n \in Book |-> data[n]]
  <2>1. f \in Bijection(Book, Resting)
    <3>1. f \in [Book -> Resting] /\ \A x \in Resting : \E n \in Book : f[n] = x
      BY DEF Resting
    <3>2. \A m, n \in Book : f[m] = f[n] => m = n
      BY DEF Orders
    <3> QED BY <3>1, <3>2 DEF Bijection, Injection, Surjection, IsInjective
  <2>2. ExistsBijection(Book, Resting)
    BY <2>1 DEF ExistsBijection
  <2> QED BY <1>2, <2>2, FS_Bijection
<1>4. Free = {} => Cardinality(Book) = PoolSize
  BY <1>1, <1>2 DEF Free
<1>5. Free # {} => Cardinality(Book) < PoolSize
  <2> SUFFICES ASSUME Free # {} PROVE Cardinality(Book) < PoolSize
    OBVIOUS
  <2>1. Book # Nodes
    BY <1>2 DEF Free
  <2>2. /\ Cardinality(Book) <= Cardinality(Nodes)
        /\ Cardinality(Book) = Cardinality(Nodes) => Book = Nodes
    BY <1>1, <1>2, FS_Subset
  <2>3. Cardinality(Book) \in Nat /\ PoolSize \in Nat
    BY <1>2, FS_CardinalityType, BookAssumption
  <2> QED BY <1>1, <2>1, <2>2, <2>3
<1> QED BY <1>2, <1>3, <1>4, <1>5

\* A pool that has nothing to give has all its nodes in the book.
LEMMA EmptyPool ==
  ASSUME Threads
  PROVE  freeHead = Nil <=> Free = {}
<1>1. ASSUME freeHead = Nil, Free # {} PROVE FALSE
  <2>1. freeHead \notin Free
    BY <1>1, NodesAreNotNil DEF Free
  <2>2. \E m \in Free \ Free : next[m] \in Free
    BY <1>1, <2>1 DEF Threads, FreeList
  <2> QED BY <2>2
<1>2. freeHead # Nil => Free # {}
  BY DEF Threads, FreeList
<1> QED BY <1>1, <1>2

\* The head of a level is the oldest order of its price and side.
LEMMA HeadIsOldest ==
  ASSUME Sound, Threads, Orders, NEW n \in Book
  PROVE  LET h == head[data[n].side][LevelOf(n)]
         IN  /\ h \in Book /\ data[h].side = data[n].side /\ LevelOf(h) = LevelOf(n)
             /\ n = h \/ data[h].id < data[n].id
<1> DEFINE same == {m \in Book : data[m].side = data[n].side /\ LevelOf(m) = LevelOf(n)}
           ids  == {data[m].id : m \in same}
<1>1. n \in same /\ data[n].id \in ids /\ \A m \in same : data[m].id \in Nat
  BY DEF Sound, TypeOK, Book
<1>2. PICK x \in ids : \A y \in ids : x <= y
  <2>1. ids \in SUBSET Nat /\ ids # {}
    BY <1>1
  <2> HIDE DEF ids
  <2> QED BY <2>1, LeastExists
<1>3. PICK h \in same : x = data[h].id
  BY <1>2
<1>4. \A m \in same : data[h].id <= data[m].id
  BY <1>2, <1>3
<1>5. prev[h] = Nil
  <2> SUFFICES ASSUME prev[h] # Nil PROVE FALSE
    OBVIOUS
  <2>1. prev[h] \in same /\ data[prev[h]].id < data[h].id
    BY DEF Threads, Links
  <2>2. data[prev[h]].id \in Nat /\ data[h].id \in Nat
    BY <1>1, <2>1
  <2> QED BY <1>4, <2>1, <2>2
<1>6. head[data[n].side][LevelOf(n)] = h
  BY <1>5 DEF Threads, Links
<1>7. n = h \/ data[h].id < data[n].id
  <2>1. data[h].id <= data[n].id /\ data[h].id \in Nat /\ data[n].id \in Nat
    BY <1>1, <1>4
  <2>2. data[h].id = data[n].id => n = h
    BY DEF Orders
  <2> QED BY <2>1, <2>2
<1> QED BY <1>6, <1>7

\* The order in node n is one the incoming order is ready to trade with.
Crosses(n) ==
  /\ data[n].side # incoming.side
  /\ IF incoming.side = "buy" THEN MinPrice + LevelOf(n) <= incoming.price
                              ELSE MinPrice + LevelOf(n) >= incoming.price

\* Both books cut the price of an order to the same level.
LEMMA LevelPriceIs ==
  /\ \A p : Abstract!LevelPrice(p) = MinPrice + PriceIndex(p)
  /\ \A n : Abstract!LevelPrice(data[n].price) = MinPrice + LevelOf(n)
BY DEF Abstract!LevelPrice, PriceIndex, LevelOf

\* The abstract crossing orders are those of the crossing nodes.
LEMMA CrossingIs ==
  Abstract!Crossing = {data[n] : n \in {m \in Book : Crosses(m)}}
BY LevelPriceIs DEF Abstract!Crossing, Crosses, Book

\* The abstract priority of two orders, by their levels.
LEMMA GoesBeforeIs ==
  ASSUME NEW m \in Nodes, NEW n \in Nodes,
         MinPrice \in Int, LevelOf(m) \in Int, LevelOf(n) \in Int
  PROVE  Abstract!GoesBefore(data[m], data[n])
           <=> \/ IF data[m].side = "sell" THEN LevelOf(m) < LevelOf(n)
                                           ELSE LevelOf(m) > LevelOf(n)
               \/ LevelOf(m) = LevelOf(n) /\ data[m].id < data[n].id
<1> DEFINE pm == Abstract!LevelPrice(data[m].price)
           pn == Abstract!LevelPrice(data[n].price)
<1>1. pm = MinPrice + LevelOf(m) /\ pn = MinPrice + LevelOf(n)
  BY LevelPriceIs
<1>2. Abstract!GoesBefore(data[m], data[n])
        <=> \/ IF data[m].side = "sell" THEN pm < pn ELSE pm > pn
            \/ pm = pn /\ data[m].id < data[n].id
  BY DEF Abstract!GoesBefore
<1>3. MinPrice \in Int /\ LevelOf(m) \in Int /\ LevelOf(n) \in Int
  OBVIOUS
<1> HIDE DEF pm, pn
<1>4. (pm < pn <=> LevelOf(m) < LevelOf(n)) /\ (pm > pn <=> LevelOf(m) > LevelOf(n))
  BY <1>1, <1>3
<1>5. pm = pn <=> LevelOf(m) = LevelOf(n)
  <2>1. pm \in Int /\ pn \in Int
    BY <1>1, <1>3
  <2>2. \A i, j \in Int : i = j <=> ~(i < j) /\ ~(i > j)
    OBVIOUS
  <2> QED BY <1>3, <1>4, <2>1, <2>2
<1>6. CASE data[m].side = "sell"
  <2>1. Abstract!GoesBefore(data[m], data[n])
          <=> pm < pn \/ (pm = pn /\ data[m].id < data[n].id)
    BY <1>2, <1>6
  <2> QED BY <2>1, <1>4, <1>5, <1>6
<1>7. CASE data[m].side # "sell"
  <2>1. Abstract!GoesBefore(data[m], data[n])
          <=> pm > pn \/ (pm = pn /\ data[m].id < data[n].id)
    BY <1>2, <1>7
  <2> QED BY <2>1, <1>4, <1>5, <1>7
<1> QED BY <1>6, <1>7

\* No crossing order is better placed than the head of the best level, and if
\* there is one then the loop of ProcessOrder finds that head.
LEMMA BestIsFirst ==
  ASSUME Sound, Threads, Orders, NEW n \in Book, Crosses(n)
  PROVE  /\ BestExists /\ BestCrosses
         /\ n = MakerNode \/ Abstract!GoesBefore(data[MakerNode], data[n])
<1> DEFINE opp == Opposite(incoming.side)
           h   == head[opp][LevelOf(n)]
           b   == best[opp]
           m   == MakerNode
<1>1. /\ n \in Nodes /\ data[n].side = opp /\ opp \in Sides /\ LevelOf(n) \in Levels
      /\ MinPrice \in Int /\ incoming.price \in Int
      /\ opp = "sell" <=> incoming.side = "buy"
  BY BookAssumption DEF Sound, TypeOK, Book, Crosses, Opposite, Sides, Threads, Links
<1>2. h \in Book /\ (n = h \/ data[h].id < data[n].id)
  BY <1>1, HeadIsOldest
<1>3. LevelOf(n) \in Occupied(head[opp]) /\ LevelOf(n) \in Int
  BY <1>1, <1>2, NodesAreNotNil DEF Occupied, Book, Levels
<1>4. /\ b \in Occupied(head[opp]) /\ ~Ahead(opp, LevelOf(n), b)
      /\ levelCount[opp] = Cardinality(Occupied(head[opp]))
  BY <1>1, <1>3 DEF Sound, TrackersExact
<1>5. levelCount[opp] > 0 /\ b \in Levels /\ b \in Int /\ b # Nil
  <2>1. b \in Levels
    BY <1>4 DEF Occupied
  <2>2. b \in Int /\ b # Nil
    BY <2>1 DEF Levels, Nil
  <2>3. Occupied(head[opp]) # {}
    BY <1>3
  <2>4. Cardinality(Occupied(head[opp])) > 0
    BY <2>3, OccupiedFinite
  <2> QED BY <1>4, <2>1, <2>2, <2>4
<1>6. BestExists
  BY <1>5 DEF BestExists
<1>7. m = head[opp][b] /\ m \in Nodes /\ m # Nil
  BY <1>1, <1>4, <1>5 DEF MakerNode, Occupied, Sound, TypeOK
<1>8. data[m].side = opp /\ LevelOf(m) = b
  BY <1>1, <1>5, <1>7 DEF Threads, Ends
<1>9. IF opp = "sell" THEN b <= LevelOf(n) ELSE b >= LevelOf(n)
  BY <1>1, <1>3, <1>4, <1>5 DEF Ahead, Sides
<1>10. BestCrosses
  <2>1. IF incoming.side = "buy" THEN b + MinPrice <= incoming.price
                                 ELSE b + MinPrice >= incoming.price
    BY <1>1, <1>3, <1>5, <1>9 DEF Crosses
  <2> QED BY <2>1 DEF BestCrosses
<1>11. n = m \/ Abstract!GoesBefore(data[m], data[n])
  <2>1. CASE b = LevelOf(n)
    <3>1. h = m
      BY <1>7, <2>1
    <3>2. n = m \/ data[m].id < data[n].id
      BY <1>2, <3>1
    <3> HIDE DEF m, b
    <3> QED BY <1>1, <1>3, <1>7, <1>8, <2>1, <3>2, GoesBeforeIs
  <2>2. CASE b # LevelOf(n)
    <3>1. IF data[m].side = "sell" THEN LevelOf(m) < LevelOf(n) ELSE LevelOf(m) > LevelOf(n)
      BY <1>3, <1>5, <1>8, <1>9, <2>2
    <3> HIDE DEF m, b
    <3> QED BY <1>1, <1>3, <1>5, <1>7, <1>8, <3>1, GoesBeforeIs
  <2> QED BY <2>1, <2>2
<1> QED BY <1>6, <1>10, <1>11

\* When the loop finds a crossing order, it is the one with priority.
LEMMA MakerIsFirst ==
  ASSUME Sound, Threads, Orders, BestExists, BestCrosses
  PROVE  /\ MakerNode \in Book /\ Crosses(MakerNode)
         /\ Abstract!Crossing # {} /\ Abstract!Maker = data[MakerNode]
<1> DEFINE opp == Opposite(incoming.side)
           b   == best[opp]
           m   == MakerNode
<1>1. /\ opp \in Sides /\ opp # incoming.side /\ MinPrice \in Int
      /\ incoming.side \in Sides
  BY BookAssumption DEF Opposite, Sides, Sound, TypeOK
<1>2. b \in Occupied(head[opp]) /\ b \in Levels /\ b \in Int
  <2>1. b # Nil
    BY DEF BestExists
  <2>2. b \in Occupied(head[opp])
    BY <1>1, <2>1 DEF Sound, TrackersExact
  <2> QED BY <2>2, NodesAreNotNil DEF Occupied
<1>3. m = head[opp][b] /\ m \in Nodes /\ m # Nil
  BY <1>1, <1>2 DEF MakerNode, Occupied, Sound, TypeOK
<1>4. data[m].side = opp /\ LevelOf(m) = b /\ m \in Book
  <2>1. data[m].side = opp /\ LevelOf(m) = b
    BY <1>1, <1>2, <1>3 DEF Threads, Ends
  <2>2. m \in Book
    BY <1>1, <1>2, <1>3, BookIs
  <2> QED BY <2>1, <2>2
<1>5. Crosses(m)
  BY <1>1, <1>2, <1>4 DEF Crosses, BestCrosses
<1>6. data[m] \in Abstract!Crossing
  BY <1>4, <1>5, CrossingIs
<1>7. \A o \in Abstract!Crossing \ {data[m]} : Abstract!GoesBefore(data[m], o)
  BY CrossingIs, BestIsFirst
<1>8. ASSUME NEW x \in Abstract!Crossing,
             \A o \in Abstract!Crossing \ {x} : Abstract!GoesBefore(x, o)
      PROVE  x = data[m]
  <2> SUFFICES ASSUME x # data[m] PROVE FALSE
    OBVIOUS
  <2>1. Abstract!GoesBefore(x, data[m]) /\ Abstract!GoesBefore(data[m], x)
    BY <1>6, <1>7, <1>8
  <2>2. PICK n \in Book : x = data[n] /\ Crosses(n)
    BY CrossingIs
  <2>3. /\ data[n].side \in Sides /\ data[n].id \in Nat /\ n \in Nodes
        /\ data[m].side \in Sides /\ data[m].id \in Nat
    BY <1>3, <2>2 DEF Sound, TypeOK, Book
  <2>4. data[n].side = data[m].side
    BY <1>1, <1>5, <2>2, <2>3 DEF Crosses, Sides
  <2>5. LevelOf(n) \in Int /\ LevelOf(m) \in Int
    BY <1>2, <1>4, <2>2, <2>3 DEF Threads, Links, Levels, Book
  <2> HIDE DEF m
  <2>6. /\ Abstract!GoesBefore(data[n], data[m])
              <=> \/ IF data[n].side = "sell" THEN LevelOf(n) < LevelOf(m)
                                              ELSE LevelOf(n) > LevelOf(m)
                  \/ LevelOf(n) = LevelOf(m) /\ data[n].id < data[m].id
        /\ Abstract!GoesBefore(data[m], data[n])
              <=> \/ IF data[m].side = "sell" THEN LevelOf(m) < LevelOf(n)
                                              ELSE LevelOf(m) > LevelOf(n)
                  \/ LevelOf(m) = LevelOf(n) /\ data[m].id < data[n].id
    <3>1. MinPrice \in Int
      BY BookAssumption
    <3> QED
      BY <1>3, <2>3, <2>5, <3>1, GoesBeforeIs
  <2>7. CASE data[m].side = "sell"
    BY <2>1, <2>2, <2>3, <2>4, <2>5, <2>6, <2>7
  <2>8. CASE data[m].side # "sell"
    BY <2>1, <2>2, <2>3, <2>4, <2>5, <2>6, <2>8
  <2> QED BY <2>7, <2>8
<1>9. Abstract!Maker = data[m]
  BY <1>6, <1>7, <1>8 DEF Abstract!Maker
<1> QED BY <1>4, <1>5, <1>6, <1>9

\* The substitution for `resting', in this state and in the next one.
LEMMA RestingIs ==
  /\ {data[n] : n \in {m \in Nodes : InBook(m)}} = Resting
  /\ {data[n] : n \in {m \in Nodes : InBook(m)}}' = Resting'
BY DEF Book, Resting

\* The abstract book counts as this one does.
LEMMA SameCount ==
  \A S : Abstract!Cardinality(S) = Cardinality(S)
BY DEF Abstract!Cardinality, Cardinality

\* An empty book is an empty set of orders.
LEMMA InitImplements == Init => Abstract!Init
<1> SUFFICES ASSUME Init PROVE Abstract!Init
  OBVIOUS
<1>1. Resting = {}
  BY InitThreads DEF Resting
<1> QED BY <1>1, RestingIs DEF Init, Abstract!Init

\* The range check refuses what the abstract book refuses.
LEMMA ReceiveImplements ==
  ASSUME Exact, Receive
  PROVE  Abstract!Submit
<1>1. PICK s \in Sides, p \in Prices, q \in Quantities :
        /\ incoming' = [id |-> incoming.id + 1, side |-> s, price |-> p,
                        original |-> q, qty |-> q]
        /\ \/ InRange(p) /\ pc' = "match" /\ result' = "none"
           \/ ~InRange(p) /\ pc' = "idle" /\ result' = "Rejected_PriceOutOfRange"
  BY DEF Receive
<1>2. InRange(p) <=> Abstract!LevelPrice(p) <= MaxPrice
  <2>0. /\ MinPrice \in Int /\ MaxPrice \in Int /\ p \in Int
        /\ IndexModulus \in Nat \ {0} /\ p - MinPrice \in Int
    BY BookAssumption DEF NumLevels
  <2>1. PriceIndex(p) \in Int /\ MinPrice \in Int /\ MaxPrice \in Int
    BY <2>0 DEF PriceIndex
  <2>2. Abstract!LevelPrice(p) = MinPrice + PriceIndex(p)
    BY LevelPriceIs
  <2> QED BY <2>1, <2>2 DEF InRange, NumLevels
<1>3. pc = "idle" /\ incoming.id < MaxOrders
  BY DEF Receive
<1>4. Resting' = Resting
  BY DEF Receive, bookVars, pointers, Resting, Book, InBook, AllLevels, HeadOf
<1>5. (pc' # "idle") = (Abstract!LevelPrice(p) <= MaxPrice)
  BY <1>1, <1>2
<1>6. result' = IF pc' # "idle" THEN "none" ELSE "Rejected_PriceOutOfRange"
  BY <1>1
<1>7. Abstract!Accept(s, p, q)
  BY <1>1, <1>3, <1>4, <1>5, <1>6, RestingIs DEF Abstract!Accept
<1> QED BY <1>7 DEF Abstract!Submit, Abstract!Sides, Sides

\* The trade is with the first crossing order, which shrinks or leaves.
LEMMA FillImplements ==
  ASSUME Exact, Fill
  PROVE  Abstract!Match
<1> DEFINE h == MakerNode
           before == data[h]
<1>1. Sound /\ Threads /\ Orders
  BY DEF Exact
<1>2. /\ incoming.qty > 0 /\ BestExists /\ BestCrosses /\ pc # "idle" /\ pc' # "idle"
      /\ result' = result
  BY <1>1 DEF Fill, Sound, CallbackReady, CanMatch
<1>3. h \in Book /\ h \in Nodes /\ Abstract!Crossing # {} /\ Abstract!Maker = before
  BY <1>1, <1>2, MakerIsFirst DEF Book
<1>4. /\ before \in [id : Nat, side : Sides, price : Int, qty : Int]
      /\ incoming.qty \in Int
      /\ trade.qty = IF incoming.qty <= before.qty THEN incoming.qty ELSE before.qty
  BY <1>1, <1>3, FillEffect DEF Sound, TypeOK, TradeQty
<1>5. Abstract!Fill = trade.qty
  BY <1>3, <1>4 DEF Abstract!Fill
<1>6. /\ incoming' = [incoming EXCEPT !.qty = @ - trade.qty]
      /\ data' = [data EXCEPT ![h].qty = @ - trade.qty]
  BY DEF Fill, Debit
<1>7. Book' = IF before.qty = trade.qty THEN Book \ {h} ELSE Book
  <2> [Next]_vars
    BY DEF Next, Step
  <2> QED BY <1>1, ThreadsStep
<1>8. /\ \A n \in Nodes : n # h => data'[n] = data[n]
      /\ data'[h] = [before EXCEPT !.qty = @ - trade.qty]
  BY <1>1, <1>3, <1>6 DEF Sound, TypeOK
<1>9. \A n \in Book : n # h => data[n] # before
  BY <1>1, <1>3 DEF Orders
<1>10. Book \subseteq Nodes
  BY DEF Book
<1> HIDE DEF h, before
<1>11. Resting' = (Resting \ {before}) \cup
                  (IF trade.qty = before.qty THEN {}
                   ELSE {[before EXCEPT !.qty = @ - trade.qty]})
  <2>1. Resting \ {before} = {data[n] : n \in Book \ {h}}
    BY <1>3, <1>9 DEF Resting, before
  <2>2. {data'[n] : n \in Book \ {h}} = {data[n] : n \in Book \ {h}}
    BY <1>8, <1>10
  <2>3. Resting' = {data'[n] : n \in Book'}
    BY DEF Resting
  <2>4. CASE trade.qty = before.qty
    BY <1>7, <2>1, <2>2, <2>3, <2>4
  <2>5. CASE trade.qty # before.qty
    <3>1. Book' = (Book \ {h}) \cup {h}
      BY <1>3, <1>7, <2>5
    <3>2. Resting' = {data'[n] : n \in Book \ {h}} \cup {data'[h]}
      BY <2>3, <3>1
    <3> QED BY <1>8, <2>1, <2>2, <2>5, <3>2
  <2> QED BY <2>4, <2>5
<1> QED BY <1>2, <1>3, <1>5, <1>6, <1>11, RestingIs DEF Abstract!Match

\* Outside the loop there is nothing left to trade with.
LEMMA NothingCrosses ==
  ASSUME Exact, incoming.qty > 0, ~CanMatch
  PROVE  Abstract!Crossing = {}
<1>1. ~(BestExists /\ BestCrosses)
  BY DEF CanMatch
<1>2. \A n \in Book : ~Crosses(n)
  BY <1>1, BestIsFirst DEF Exact
<1> QED BY <1>2, CrossingIs

\* What is left of an order rests when nothing crosses it and there is room.
LEMMA RestImplements ==
  ASSUME Exact, Rest
  PROVE  Abstract!Rest
<1>1. Sound /\ Threads /\ Orders
  BY DEF Exact
<1>2. Abstract!Crossing = {}
  BY NothingCrosses DEF Rest
<1>3. Cardinality({data[n] : n \in {m \in Nodes : InBook(m)}}) < PoolSize
  <2>1. Cardinality(Resting) < PoolSize
    BY <1>1, RestingCount, EmptyPool DEF Rest, PoolEmpty
  <2> QED BY <2>1, RestingIs
<1>4. Book' = Book \cup {freeHead} /\ freeHead \notin Book
  <2> [Next]_vars
    BY DEF Next, Step
  <2> QED BY <1>1, ThreadsStep DEF Free
<1>5. /\ \A n \in Book : data'[n] = data[n]
      /\ data'[freeHead] = [id |-> incoming.id, side |-> incoming.side,
                            price |-> incoming.price, qty |-> incoming.qty]
  BY <1>1, <1>4, RestAdds DEF Book
<1>6. Resting' = Resting \cup {[id |-> incoming.id, side |-> incoming.side,
                                price |-> incoming.price, qty |-> incoming.qty]}
  <2>1. Resting' = {data'[n] : n \in Book'}
    BY DEF Resting
  <2>2. {data'[n] : n \in Book'} = {data'[n] : n \in Book} \cup {data'[freeHead]}
    BY <1>4
  <2>3. {data'[n] : n \in Book} = Resting
    BY <1>5 DEF Resting
  <2> QED BY <1>5, <2>1, <2>2, <2>3
<1>7. /\ pc # "idle" /\ incoming.qty > 0 /\ pc' = "idle" /\ result' = "Success"
      /\ incoming' = incoming
  BY DEF Rest
<1>8. {data[n] : n \in {m \in Nodes : InBook(m)}}'
        = {data[n] : n \in {m \in Nodes : InBook(m)}}
            \cup {[id |-> incoming.id, side |-> incoming.side,
                   price |-> incoming.price, qty |-> incoming.qty]}
  BY <1>6, RestingIs
<1>9. (pc' # "idle") = FALSE
  BY <1>7
<1> QED BY <1>2, <1>3, <1>7, <1>8, <1>9, SameCount, Zenon DEF Abstract!Rest

\* Every step of the book is a step of PriceTimePriority or changes none of its
\* variables.
LEMMA StepImplements ==
  ASSUME Exact, [Next]_vars
  PROVE  [Abstract!Next]_(Abstract!vars)
<1>1. CASE Receive
  BY <1>1, ReceiveImplements DEF Abstract!Next
<1>2. CASE Execute
  <2>1. /\ incoming' = incoming /\ result' = result /\ pc # "idle" /\ pc' # "idle"
        /\ Resting' = Resting
    BY <1>2 DEF Execute, bookVars, pointers, Resting, Book, InBook, AllLevels, HeadOf
  <2> QED BY <2>1, RestingIs DEF Abstract!vars
<1>3. CASE Fill
  BY <1>3, FillImplements DEF Abstract!Next
<1>4. CASE CallbackThrows
  <2>1. /\ incoming' = incoming /\ result' = "threw" /\ pc # "idle" /\ pc' = "idle"
        /\ Resting' = Resting
    BY <1>4 DEF CallbackThrows, bookVars, pointers, Resting, Book, InBook, AllLevels,
                HeadOf
  <2>2. incoming.qty > 0 /\ BestExists /\ BestCrosses
    BY <1>4 DEF CallbackThrows, Exact, Sound, CallbackReady, CanMatch
  <2>3. Abstract!Crossing # {}
    BY <2>2, MakerIsFirst DEF Exact
  <2> QED BY <2>1, <2>2, <2>3, RestingIs DEF Abstract!Next, Abstract!Abort
<1>5. CASE Rest
  BY <1>5, RestImplements DEF Abstract!Next
<1>6. CASE RejectExhausted
  <2>1. /\ incoming' = incoming /\ result' = "Rejected_PoolExhausted"
        /\ pc # "idle" /\ pc' = "idle" /\ Resting' = Resting
        /\ incoming.qty > 0 /\ ~CanMatch /\ freeHead = Nil
    BY <1>6 DEF RejectExhausted, PoolEmpty, bookVars, pointers, Resting, Book, InBook,
                AllLevels, HeadOf
  <2>2. Abstract!Crossing = {}
    BY <2>1, NothingCrosses
  <2>3. Cardinality({data[n] : n \in {m \in Nodes : InBook(m)}}) = PoolSize
    <3>1. Cardinality(Resting) = PoolSize
      BY <2>1, RestingCount, EmptyPool DEF Exact
    <3> QED BY <3>1, RestingIs
  <2>4. incoming.qty = incoming.original
    <3>1. incoming.qty \in Int
      BY DEF Exact, Sound, TypeOK
    <3> QED BY <2>1, <3>1 DEF Exact, Wholeness, RoomOnceTraded
  <2>5. /\ {data[n] : n \in {m \in Nodes : InBook(m)}}'
             = {data[n] : n \in {m \in Nodes : InBook(m)}}
        /\ (pc' # "idle") = FALSE
    BY <2>1, RestingIs
  <2>6. Abstract!Refuse
    BY <2>1, <2>2, <2>3, <2>4, <2>5, SameCount, Zenon DEF Abstract!Refuse
  <2> QED BY <2>6 DEF Abstract!Next
<1>7. CASE FullyFilled
  <2>1. /\ incoming' = incoming /\ result' = "Success" /\ pc # "idle" /\ pc' = "idle"
        /\ Resting' = Resting /\ incoming.qty <= 0
    BY <1>7 DEF FullyFilled, bookVars, pointers, Resting, Book, InBook, AllLevels,
                HeadOf
  <2> QED BY <2>1, RestingIs DEF Abstract!Next, Abstract!Complete
<1>8. CASE Clear
  <2>1. Resting' = {}
    BY <1>8, ClearThreads DEF Resting
  <2>2. pc = "idle" /\ pc' = pc /\ incoming' = incoming /\ result' = result
    BY <1>8 DEF Clear, callVars
  <2> QED BY <2>1, <2>2, RestingIs DEF Abstract!Next, Abstract!Clear
<1>9. CASE UNCHANGED vars
  <2>1. UNCHANGED <<Resting, incoming, pc, result>>
    BY <1>9 DEF vars, callVars, bookVars, pointers, Resting, Book, InBook, AllLevels,
                HeadOf
  <2> QED BY <2>1, RestingIs DEF Abstract!vars
<1> QED BY <1>1, <1>2, <1>3, <1>4, <1>5, <1>6, <1>7, <1>8, <1>9 DEF Next, Step

\* The pooled, linked and indexed book does what an order book promises: each turn
\* of the loop trades with the crossing order that has the best price and, among
\* those, came first; an order rests only when nothing crosses it, is refused only
\* when the pool is full and then untouched.  The price it goes by is that of the
\* level an order was put at, whatever price the order itself carries.
THEOREM BookImplementsPriority == Spec => ImplementsPriority
<1>1. Init => Exact /\ Abstract!Init
  <2>1. Init => Orders /\ Wholeness
    BY InitThreads DEF Init, Orders, Wholeness, NoResultWhileBusy, RoomOnceTraded,
                       RefusedWhole
  <2> QED BY <2>1, InitSound, InitThreads, InitImplements DEF Exact
<1>2. Exact /\ [Next]_vars => Exact'
  BY ExactStep
<1>3. Exact /\ [Next]_vars => [Abstract!Next]_(Abstract!vars)
  BY StepImplements
<1> QED BY <1>1, <1>2, <1>3, PTL DEF Spec, ImplementsPriority, Abstract!Spec

-----------------------------------------------------------------------------
(* The chains that OrderBook's list invariant speaks of.                     *)

\* The pool is finite.
LEMMA NodesFinite == IsFiniteSet(Nodes) /\ Cardinality(Nodes) = PoolSize
BY BookAssumption, FS_Interval DEF Nodes

\* One line of the definition of Walk, the earlier ones given.
WalkStep(w, k) ==
  [n \in Nodes \cup {Nil} |->
     IF k = 0 \/ n = Nil THEN <<>> ELSE <<n>> \o w[k - 1][next[n]]]

\* There are functions that obey the definition of Walk, by induction on how many
\* steps they cover, ...
LEMMA WalkExists ==
  \A m \in 0 .. PoolSize + 1 :
    \E w : w = [k \in 0 .. m |-> WalkStep(w, k)]
<1> DEFINE N == PoolSize + 1
           P(m) == \E w : w = [k \in 0 .. m |-> WalkStep(w, k)]
           B == {m \in 0 .. N : ~P(m)}
<1>0. N \in Nat
  BY BookAssumption
<1>1. SUFFICES ASSUME B # {} PROVE FALSE
  OBVIOUS
<1>2. PICK m \in B : \A y \in B : m <= y
  <2>1. B \in SUBSET Nat
    BY <1>0
  <2> QED BY <1>1, <2>1, LeastExists
<1>3. CASE m = 0
  <2> DEFINE w == [k \in 0 .. 0 |-> WalkStep(<<>>, 0)]
  <2>1. WalkStep(w, 0) = WalkStep(<<>>, 0)
    BY DEF WalkStep
  <2>2. w = [k \in 0 .. 0 |-> WalkStep(w, k)]
    BY <2>1
  <2> QED BY <1>2, <1>3, <2>2
<1>4. CASE m # 0
  <2>1. m - 1 \in 0 .. N /\ m - 1 \notin B /\ m \in 0 .. N
    BY <1>0, <1>2, <1>4
  <2>2. P(m - 1)
    BY <2>1
  <2>3. PICK v : v = [k \in 0 .. m - 1 |-> WalkStep(v, k)]
    BY <2>2
  <2> DEFINE w == [k \in 0 .. m |-> IF k < m THEN v[k] ELSE WalkStep(v, m)]
  <2>4. \A k \in 0 .. m : WalkStep(w, k) = WalkStep(v, k)
    <3> TAKE k \in 0 .. m
    <3>1. CASE k = 0
      BY <3>1 DEF WalkStep
    <3>2. CASE k # 0
      <4>1. w[k - 1] = v[k - 1]
        BY <2>1, <3>2
      <4> HIDE DEF w
      <4> QED BY <4>1 DEF WalkStep
    <3> QED BY <3>1, <3>2
  <2>5. \A k \in 0 .. m : w[k] = WalkStep(v, k)
    BY <2>1, <2>3
  <2>6. w = [k \in 0 .. m |-> WalkStep(w, k)]
    BY <2>4, <2>5
  <2> QED BY <1>2, <2>6
<1> QED BY <1>3, <1>4

\* ... so Walk is one, and can be unfolded.
LEMMA WalkUnfolds ==
  \A k \in 0 .. PoolSize + 1 : Walk[k] = WalkStep(Walk, k)
<1>1. PICK w : w = [k \in 0 .. PoolSize + 1 |-> WalkStep(w, k)]
  BY WalkExists, BookAssumption
<1>2. Walk = [k \in 0 .. PoolSize + 1 |-> WalkStep(Walk, k)]
  BY <1>1 DEF Walk, WalkStep
<1> HIDE DEF Walk
<1> QED BY <1>2

\* c is what a walk of at most k steps from n along `next' meets.
IsWalk(c, k, n) ==
  /\ c \in Seq(Nodes) /\ Len(c) <= k
  /\ IF k = 0 \/ n = Nil THEN Len(c) = 0 ELSE Len(c) > 0 /\ c[1] = n
  /\ \A i \in 1 .. Len(c) - 1 : c[i + 1] = next[c[i]]
  /\ 0 < Len(c) /\ Len(c) < k => next[c[Len(c)]] = Nil

\* A node in front of a walk from its next one is a walk one step longer.
LEMMA WalkOneMore ==
  ASSUME TypeOK, NEW k \in Nat \ {0}, NEW n \in Nodes, NEW d, IsWalk(d, k - 1, next[n])
  PROVE  IsWalk(<<n>> \o d, k, n)
<1> DEFINE c == <<n>> \o d
<1>1. d \in Seq(Nodes) /\ Len(d) \in Nat /\ Len(d) <= k - 1
  BY DEF IsWalk
<1>2. /\ c \in Seq(Nodes) /\ Len(c) = Len(d) + 1 /\ c[1] = n
      /\ \A i \in 1 .. Len(d) : c[i + 1] = d[i]
  BY <1>1
<1>3. IF k - 1 = 0 \/ next[n] = Nil THEN Len(d) = 0 ELSE Len(d) > 0 /\ d[1] = next[n]
  BY DEF IsWalk
<1>4. \A i \in 1 .. Len(d) - 1 : d[i + 1] = next[d[i]]
  BY DEF IsWalk
<1>5. 0 < Len(d) /\ Len(d) < k - 1 => next[d[Len(d)]] = Nil
  BY DEF IsWalk
<1> HIDE DEF c
<1>6. \A i \in 1 .. Len(c) - 1 : c[i + 1] = next[c[i]]
  <2> TAKE i \in 1 .. Len(c) - 1
  <2>1. i \in 1 .. Len(d) /\ c[i + 1] = d[i]
    BY <1>1, <1>2
  <2>2. CASE i = 1
    BY <1>1, <1>2, <1>3, <2>1, <2>2
  <2>3. CASE i # 1
    <3>1. i - 1 \in 1 .. Len(d) - 1 /\ i - 1 \in 1 .. Len(d) /\ (i - 1) + 1 = i
      BY <1>1, <2>1, <2>3
    <3>2. d[i] = next[d[i - 1]]
      BY <1>4, <3>1
    <3>3. c[i] = d[i - 1]
      BY <1>2, <3>1
    <3> QED BY <2>1, <3>2, <3>3
  <2> QED BY <2>2, <2>3
<1>7. 0 < Len(c) /\ Len(c) < k => next[c[Len(c)]] = Nil
  <2> SUFFICES ASSUME Len(c) < k PROVE next[c[Len(c)]] = Nil
    OBVIOUS
  <2>1. CASE Len(d) = 0
    BY <1>1, <1>2, <1>3, <2>1
  <2>2. CASE Len(d) # 0
    <3>1. c[Len(c)] = d[Len(d)]
      BY <1>1, <1>2, <2>2
    <3> QED BY <1>1, <1>2, <1>5, <2>2, <3>1
  <2> QED BY <2>1, <2>2
<1>8. Len(c) <= k /\ Len(c) > 0 /\ ~(k = 0 \/ n = Nil)
  BY <1>1, <1>2, BookAssumption DEF Nodes, Nil
<1>9. IsWalk(c, k, n)
  BY <1>2, <1>6, <1>7, <1>8 DEF IsWalk
<1> QED BY <1>9 DEF c

\* What Walk and so Chain compute is a walk, by induction on the steps.
LEMMA WalkIsWalk ==
  ASSUME TypeOK
  PROVE  \A k \in 0 .. PoolSize + 1 : \A n \in Nodes \cup {Nil} : IsWalk(Walk[k][n], k, n)
<1> DEFINE N == PoolSize + 1
           B == {k \in 0 .. N : \E n \in Nodes \cup {Nil} : ~IsWalk(Walk[k][n], k, n)}
<1>0. N \in Nat
  BY BookAssumption
<1>1. SUFFICES ASSUME B # {} PROVE FALSE
  OBVIOUS
<1>2. PICK k \in B : \A y \in B : k <= y
  <2>1. B \in SUBSET Nat
    BY <1>0
  <2> HIDE DEF B
  <2> QED BY <1>1, <2>1, LeastExists
<1>3. PICK n \in Nodes \cup {Nil} : ~IsWalk(Walk[k][n], k, n)
  BY <1>2
<1>4. k \in 0 .. N
  BY <1>2
<1>5. Walk[k][n] = IF k = 0 \/ n = Nil THEN <<>> ELSE <<n>> \o Walk[k - 1][next[n]]
  <2>1. Walk[k] = WalkStep(Walk, k)
    BY <1>4, WalkUnfolds
  <2> QED BY <2>1 DEF WalkStep
<1>6. CASE k = 0 \/ n = Nil
  <2>1. Walk[k][n] = <<>>
    BY <1>5, <1>6
  <2>2. IsWalk(<<>>, k, n)
    BY <1>0, <1>4, <1>6 DEF IsWalk
  <2> QED BY <1>3, <2>1, <2>2
<1>7. CASE ~(k = 0 \/ n = Nil)
  <2>1. n \in Nodes /\ next[n] \in Nodes \cup {Nil} /\ k \in Nat \ {0}
    BY <1>0, <1>4, <1>7 DEF TypeOK
  <2>2. k - 1 \in 0 .. N /\ ~(k <= k - 1)
    BY <1>0, <1>4, <1>7
  <2>3. k - 1 \notin B
    BY <1>2, <2>2
  <2>4. IsWalk(Walk[k - 1][next[n]], k - 1, next[n])
    BY <2>1, <2>2, <2>3
  <2>5. IsWalk(<<n>> \o Walk[k - 1][next[n]], k, n)
    BY <2>1, <2>4, WalkOneMore
  <2> QED BY <1>3, <1>5, <1>7, <2>5
<1> QED BY <1>6, <1>7

\* A whole chain is cut off later than at its start.
LEMMA WalkStart == PoolSize + 1 # 0
BY BookAssumption

\* A walk that meets no node twice ends at a node with no next one.
LEMMA WalkEnds ==
  ASSUME TypeOK, NEW h \in Nodes \cup {Nil},
         \A i, j \in 1 .. Len(Chain(h)) : Chain(h)[i] = Chain(h)[j] => i = j
  PROVE  /\ Len(Chain(h)) > 0 => next[Chain(h)[Len(Chain(h))]] = Nil
         /\ Cardinality(NodesOf(h)) = Len(Chain(h))
<1> DEFINE c == Chain(h)
           D == 1 .. Len(c)
           f == [i \in D |-> c[i]]
<1>1. c \in Seq(Nodes) /\ Len(c) \in Nat /\ (0 < Len(c) /\ Len(c) < PoolSize + 1 => next[c[Len(c)]] = Nil)
  BY WalkIsWalk, BookAssumption DEF Chain, IsWalk
<1> HIDE DEF c
<1>2. IsFiniteSet(D) /\ Cardinality(D) = Len(c)
  <2>1. /\ IsFiniteSet(1 .. Len(c))
        /\ Cardinality(1 .. Len(c)) = IF 1 > Len(c) THEN 0 ELSE Len(c) - 1 + 1
    BY <1>1, FS_Interval
  <2> QED BY <1>1, <2>1
<1>3. IsFiniteSet(Nodes) /\ Cardinality(Nodes) = PoolSize
  BY NodesFinite
<1>4. \A i, j \in D : f[i] = f[j] => i = j
  BY DEF c
<1>5. f \in Injection(D, Nodes)
  BY <1>1, <1>4 DEF Injection, IsInjective
<1>6. Len(c) <= PoolSize
  BY <1>2, <1>3, <1>5, FS_Injection
<1>7. NodesOf(h) = {c[i] : i \in D}
  BY DEF NodesOf, c
<1>8. f \in Bijection(D, NodesOf(h))
  BY <1>4, <1>7 DEF Bijection, Injection, Surjection, IsInjective
<1>9. Cardinality(NodesOf(h)) = Len(c)
  BY <1>2, <1>8, FS_Bijection DEF ExistsBijection
<1>10. Len(c) < PoolSize + 1
  BY <1>1, <1>6, BookAssumption
<1> QED BY <1>1, <1>9, <1>10 DEF c

\* A level's chain holds orders of that level, linked back and growing younger.
LEMMA LevelChain ==
  ASSUME TypeOK, Threads, NEW s \in Sides, NEW l \in Levels
  PROVE  LET c == Chain(head[s][l])
         IN  \A i \in 1 .. Len(c) :
               /\ c[i] \in Book /\ data[c[i]].side = s /\ LevelOf(c[i]) = l
               /\ prev[c[i]] = IF i = 1 THEN Nil ELSE c[i - 1]
               /\ i > 1 => data[c[i - 1]].id < data[c[i]].id
<1> DEFINE h == head[s][l]
           c == Chain(h)
           Good(i) == /\ c[i] \in Book /\ data[c[i]].side = s /\ LevelOf(c[i]) = l
                      /\ prev[c[i]] = IF i = 1 THEN Nil ELSE c[i - 1]
                      /\ i > 1 => data[c[i - 1]].id < data[c[i]].id
           Bad == {i \in 1 .. Len(c) : ~Good(i)}
<1>1. h \in Nodes \cup {Nil}
  BY DEF TypeOK
<1>2. IsWalk(c, PoolSize + 1, h)
  BY <1>1, WalkIsWalk, BookAssumption DEF Chain
<1>3. /\ c \in Seq(Nodes) /\ Len(c) \in Nat
      /\ IF h = Nil THEN Len(c) = 0 ELSE Len(c) > 0 /\ c[1] = h
      /\ \A i \in 1 .. Len(c) - 1 : c[i + 1] = next[c[i]]
  BY <1>2, WalkStart DEF IsWalk
<1>4. SUFFICES ASSUME Bad # {} PROVE FALSE
  OBVIOUS
<1> HIDE DEF h, c
<1>5. PICK i \in Bad : \A j \in Bad : i <= j
  <2>1. Bad \in SUBSET Nat
    BY <1>3
  <2> HIDE DEF Bad
  <2> QED BY <1>4, <2>1, LeastExists
<1>6. i \in 1 .. Len(c) /\ ~Good(i)
  BY <1>5
<1>7. CASE i = 1
  <2>1. c[1] = h /\ h \in Nodes /\ h # Nil
    BY <1>1, <1>3, <1>6, <1>7
  <2>2. h \in Book
    BY <2>1, BookIs DEF h
  <2>3. prev[h] = Nil /\ data[h].side = s /\ LevelOf(h) = l
    BY <2>1 DEF Threads, Ends, h
  <2> QED BY <1>6, <1>7, <2>1, <2>2, <2>3
<1>8. CASE i # 1
  <2> DEFINE x == c[i - 1]
             y == c[i]
  <2>1. /\ i - 1 \in 1 .. Len(c) - 1 /\ i - 1 \in 1 .. Len(c) /\ ~(i <= i - 1)
        /\ (i - 1) + 1 = i
    BY <1>3, <1>6, <1>8
  <2>2. i - 1 \notin Bad
    BY <1>5, <2>1
  <2>3. x \in Book /\ data[x].side = s /\ LevelOf(x) = l
    BY <2>1, <2>2
  <2>4. y = next[x] /\ y \in Nodes /\ y # Nil
    BY <1>3, <1>6, <2>1, NodesAreNotNil
  <2> HIDE DEF x, y
  <2>5. prev[y] = x /\ x \in Nodes /\ x # Nil
    BY <2>3, <2>4, NodesAreNotNil DEF Threads, Links, Book
  <2>6. y \in Book
    BY <2>4, <2>5, BookIs
  <2>7. data[y].side = s /\ LevelOf(y) = l /\ data[x].id < data[y].id
    BY <2>3, <2>5, <2>6 DEF Threads, Links
  <2> QED BY <1>6, <1>8, <2>5, <2>6, <2>7 DEF x, y
<1> QED BY <1>7, <1>8

\* A level's chain meets no node twice, ends at the tail and misses no order of
\* the level.
LEMMA LevelChainWhole ==
  ASSUME TypeOK, Threads, NEW s \in Sides, NEW l \in Levels
  PROVE  LET h == head[s][l]
             c == Chain(h)
         IN  /\ Cardinality(NodesOf(h)) = Len(c)
             /\ tail[s][l] = IF c = <<>> THEN Nil ELSE c[Len(c)]
             /\ NodesOf(h) = {n \in Book : data[n].side = s /\ LevelOf(n) = l}
<1> DEFINE h == head[s][l]
           c == Chain(h)
           id(i) == data[c[i]].id
<1>1. h \in Nodes \cup {Nil}
  BY DEF TypeOK
<1>2. IsWalk(c, PoolSize + 1, h)
  BY <1>1, WalkIsWalk, BookAssumption DEF Chain
<1>3. /\ c \in Seq(Nodes) /\ Len(c) \in Nat
      /\ IF h = Nil THEN Len(c) = 0 ELSE Len(c) > 0 /\ c[1] = h
      /\ \A i \in 1 .. Len(c) - 1 : c[i + 1] = next[c[i]]
  BY <1>2, WalkStart DEF IsWalk
<1>4. \A i \in 1 .. Len(c) :
        /\ c[i] \in Book /\ data[c[i]].side = s /\ LevelOf(c[i]) = l
        /\ prev[c[i]] = IF i = 1 THEN Nil ELSE c[i - 1]
        /\ i > 1 => id(i - 1) < id(i)
  BY LevelChain
<1>n. NodesOf(h) = {c[i] : i \in 1 .. Len(c)}
  BY DEF NodesOf
<1>w. (\A i, j \in 1 .. Len(c) : c[i] = c[j] => i = j) =>
        /\ Len(c) > 0 => next[c[Len(c)]] = Nil
        /\ Cardinality(NodesOf(h)) = Len(c)
  BY <1>1, WalkEnds
<1> HIDE DEF h, c
<1>5. \A i \in 1 .. Len(c) : id(i) \in Nat
  BY <1>4 DEF TypeOK, Book
<1>6. \A j \in 1 .. Len(c) : \A i \in 1 .. Len(c) : i < j => id(i) < id(j)
  <2> HIDE DEF id
  <2> DEFINE Bad == {j \in 1 .. Len(c) : \E i \in 1 .. Len(c) : i < j /\ ~(id(i) < id(j))}
  <2>1. SUFFICES ASSUME Bad # {} PROVE FALSE
    OBVIOUS
  <2>2. PICK j \in Bad : \A k \in Bad : j <= k
    <3>1. Bad \in SUBSET Nat
      BY <1>3
    <3> HIDE DEF Bad
    <3> QED BY <2>1, <3>1, LeastExists
  <2>3. PICK i \in 1 .. Len(c) : i < j /\ ~(id(i) < id(j))
    BY <2>2
  <2>4. /\ j \in 1 .. Len(c) /\ j > 1 /\ j - 1 \in 1 .. Len(c)
        /\ id(j - 1) < id(j) /\ ~(j <= j - 1)
    BY <1>3, <1>4, <2>2, <2>3 DEF id
  <2>5. j - 1 \notin Bad
    BY <2>2, <2>4
  <2>6. id(i) \in Nat /\ id(j) \in Nat /\ id(j - 1) \in Nat
    BY <1>5, <2>4
  <2>7. i = j - 1 \/ i < j - 1
    BY <2>3, <2>4
  <2>8. i < j - 1 => id(i) < id(j - 1)
    BY <2>4, <2>5
  <2> HIDE DEF Bad
  <2> QED BY <2>3, <2>4, <2>6, <2>7, <2>8
<1>7. \A i, j \in 1 .. Len(c) : c[i] = c[j] => i = j
  <2> SUFFICES ASSUME NEW i \in 1 .. Len(c), NEW j \in 1 .. Len(c), c[i] = c[j], i # j
               PROVE  FALSE
    OBVIOUS
  <2>1. id(i) = id(j) /\ id(i) \in Nat
    BY <1>5
  <2>2. i < j \/ j < i
    BY <1>3
  <2>3. id(i) < id(j) \/ id(j) < id(i)
    BY <1>6, <2>2
  <2> QED BY <2>1, <2>3
<1>8. Len(c) > 0 => next[c[Len(c)]] = Nil
  BY <1>w, <1>7
<1>9. tail[s][l] = IF c = <<>> THEN Nil ELSE c[Len(c)]
  <2>1. CASE Len(c) = 0
    <3>1. h = Nil /\ c = <<>>
      BY <1>3, <2>1
    <3> QED BY <3>1 DEF Threads, Ends, h
  <2>2. CASE Len(c) > 0
    <3>1. Len(c) \in 1 .. Len(c) /\ c # <<>>
      BY <1>3, <2>2
    <3>2. c[Len(c)] \in Book /\ data[c[Len(c)]].side = s /\ LevelOf(c[Len(c)]) = l
      BY <1>4, <3>1
    <3> QED BY <1>8, <2>2, <3>1, <3>2 DEF Threads, Links
  <2> QED BY <1>3, <2>1, <2>2
<1>10. ASSUME NEW n \in Book, data[n].side = s, LevelOf(n) = l
       PROVE  n \in NodesOf(h)
  <2> DEFINE missed == {m \in Book : data[m].side = s /\ LevelOf(m) = l /\ m \notin NodesOf(h)}
             ids == {data[m].id : m \in missed}
  <2>1. SUFFICES ASSUME missed # {} PROVE FALSE
    BY <1>10
  <2>2. ids \in SUBSET Nat /\ ids # {}
    <3>1. \A m \in missed : data[m].id \in Nat
      BY DEF TypeOK, Book
    <3> HIDE DEF missed
    <3> QED BY <2>1, <3>1
  <2>3. PICK x \in ids : \A y \in ids : x <= y
    <3> HIDE DEF ids
    <3> QED BY <2>2, LeastExists
  <2>4. PICK m \in missed : x = data[m].id
    BY <2>3
  <2>5. m \in Book /\ data[m].side = s /\ LevelOf(m) = l /\ m \notin NodesOf(h)
    BY <2>4
  <2>6. CASE prev[m] = Nil
    <3>1. h = m /\ m \in Nodes
      BY <2>5, <2>6 DEF Threads, Links, Book, h
    <3>2. Len(c) > 0 /\ c[1] = m /\ 1 \in 1 .. Len(c)
      BY <1>3, <3>1, NodesAreNotNil
    <3> QED BY <1>n, <2>5, <3>2
  <2>7. CASE prev[m] # Nil
    <3> DEFINE q == prev[m]
    <3>1. q \in Book /\ next[q] = m /\ data[q].side = s /\ LevelOf(q) = l
          /\ data[q].id < data[m].id
      BY <2>5, <2>7 DEF Threads, Links
    <3>2. data[q].id \in Nat /\ data[m].id \in Nat
      BY <2>5, <3>1 DEF TypeOK, Book
    <3> HIDE DEF q
    <3>3. q \in NodesOf(h)
      <4> SUFFICES ASSUME q \notin NodesOf(h) PROVE FALSE
        OBVIOUS
      <4>1. data[q].id \in ids
        BY <3>1
      <4> HIDE DEF ids
      <4> QED BY <2>3, <2>4, <3>1, <3>2, <4>1
    <3>4. PICK i \in 1 .. Len(c) : q = c[i]
      BY <1>n, <3>3
    <3>5. m # Nil
      BY <2>5, NodesAreNotNil DEF Book
    <3>6. i # Len(c)
      BY <1>8, <3>1, <3>4, <3>5
    <3>7. i \in 1 .. Len(c) - 1 /\ i + 1 \in 1 .. Len(c)
      BY <1>3, <3>4, <3>6
    <3>8. m = c[i + 1]
      BY <1>3, <3>1, <3>4, <3>7
    <3> QED BY <1>n, <2>5, <3>7, <3>8
  <2> QED BY <2>6, <2>7
<1>11. NodesOf(h) = {n \in Book : data[n].side = s /\ LevelOf(n) = l}
  BY <1>4, <1>n, <1>10
<1> QED BY <1>w, <1>7, <1>9, <1>11 DEF h, c

\* The chain of the free list meets every node outside the levels, once.
LEMMA FreeChainWhole ==
  ASSUME TypeOK, Threads
  PROVE  /\ NodesOf(freeHead) = Free
         /\ Cardinality(NodesOf(freeHead)) = Len(Chain(freeHead))
<1> DEFINE h == freeHead
           c == Chain(h)
<1>1. h \in Nodes \cup {Nil}
  BY DEF TypeOK
<1>2. IsWalk(c, PoolSize + 1, h)
  BY <1>1, WalkIsWalk, BookAssumption DEF Chain
<1>3. /\ c \in Seq(Nodes) /\ Len(c) \in Nat
      /\ IF h = Nil THEN Len(c) = 0 ELSE Len(c) > 0 /\ c[1] = h
      /\ \A i \in 1 .. Len(c) - 1 : c[i + 1] = next[c[i]]
  BY <1>2, WalkStart DEF IsWalk
<1>4. /\ h # Nil => h \in Free
      /\ \A n \in Free : next[n] \in Free \cup {Nil}
      /\ Free \subseteq Nodes
  BY DEF Threads, FreeList, Free
<1>n. NodesOf(h) = {c[i] : i \in 1 .. Len(c)}
  BY DEF NodesOf
<1>w. (\A i, j \in 1 .. Len(c) : c[i] = c[j] => i = j) =>
        /\ Len(c) > 0 => next[c[Len(c)]] = Nil
        /\ Cardinality(NodesOf(h)) = Len(c)
  BY <1>1, WalkEnds
<1> HIDE DEF c
<1>5. \A i \in 1 .. Len(c) : c[i] \in Free
  <2> DEFINE Bad == {i \in 1 .. Len(c) : c[i] \notin Free}
  <2>1. SUFFICES ASSUME Bad # {} PROVE FALSE
    OBVIOUS
  <2>2. PICK i \in Bad : \A j \in Bad : i <= j
    <3>1. Bad \in SUBSET Nat
      BY <1>3
    <3> HIDE DEF Bad
    <3> QED BY <2>1, <3>1, LeastExists
  <2>3. i \in 1 .. Len(c) /\ c[i] \notin Free /\ c[i] # Nil
    BY <1>3, <2>2, NodesAreNotNil
  <2>4. i # 1
    BY <1>3, <1>4, <2>3
  <2>5. /\ i - 1 \in 1 .. Len(c) - 1 /\ i - 1 \in 1 .. Len(c) /\ ~(i <= i - 1)
        /\ (i - 1) + 1 = i
    BY <1>3, <2>3, <2>4
  <2>6. c[i - 1] \in Free
    BY <2>2, <2>5
  <2> HIDE DEF Bad
  <2> QED BY <1>3, <1>4, <2>3, <2>5, <2>6
<1>6. \A i, j \in 1 .. Len(c) : i < j => c[i] # c[j]
  <2> SUFFICES ASSUME NEW i \in 1 .. Len(c), NEW j \in 1 .. Len(c), i < j, c[i] = c[j]
               PROVE  FALSE
    OBVIOUS
  <2> DEFINE S == {c[m] : m \in i .. j - 1}
  <2>1. \A m \in i .. j - 1 : m \in 1 .. Len(c) - 1 /\ m \in 1 .. Len(c)
    BY <1>3
  <2>2. S \in SUBSET Free
    BY <1>5, <2>1
  <2>3. i \in i .. j - 1 /\ S # {}
    BY <1>3
  <2>4. PICK n \in S : next[n] \notin S
    BY <2>2, <2>3 DEF Threads, FreeList
  <2>5. PICK m \in i .. j - 1 : n = c[m]
    BY <2>4
  <2>6. next[n] = c[m + 1]
    BY <1>3, <2>1, <2>5
  <2>7. m + 1 \in i .. j - 1 \/ m + 1 = j
    BY <1>3
  <2>8. c[m + 1] \in S
    BY <2>3, <2>7
  <2> QED BY <2>4, <2>6, <2>8
<1>7. \A i, j \in 1 .. Len(c) : c[i] = c[j] => i = j
  <2> SUFFICES ASSUME NEW i \in 1 .. Len(c), NEW j \in 1 .. Len(c), c[i] = c[j], i # j
               PROVE  FALSE
    OBVIOUS
  <2>1. i < j \/ j < i
    BY <1>3
  <2> QED BY <1>6, <2>1
<1>8. Len(c) > 0 => next[c[Len(c)]] = Nil
  BY <1>w, <1>7
<1>9. Free \subseteq NodesOf(h)
  <2> DEFINE S == Free \ NodesOf(h)
  <2>1. SUFFICES ASSUME S # {} PROVE FALSE
    OBVIOUS
  <2>2. h \notin S
    <3>1. CASE h = Nil
      BY <1>4, <3>1, NodesAreNotNil
    <3>2. CASE h # Nil
      <4>1. 1 \in 1 .. Len(c) /\ c[1] = h
        BY <1>3, <3>2
      <4> QED BY <1>n, <4>1
    <3> QED BY <3>1, <3>2
  <2>3. PICK m \in Free \ S : next[m] \in S
    BY <2>1, <2>2 DEF Threads, FreeList
  <2>4. PICK i \in 1 .. Len(c) : m = c[i]
    BY <1>n, <2>3
  <2>5. next[m] # Nil
    BY <1>4, <2>3, NodesAreNotNil
  <2>6. i # Len(c)
    BY <1>8, <2>4, <2>5
  <2>7. i \in 1 .. Len(c) - 1 /\ i + 1 \in 1 .. Len(c)
    BY <1>3, <2>4, <2>6
  <2>8. next[m] = c[i + 1]
    BY <1>3, <2>4, <2>7
  <2> QED BY <1>n, <2>3, <2>7, <2>8
<1>10. NodesOf(h) = Free
  BY <1>5, <1>9, <1>n
<1> QED BY <1>w, <1>7, <1>10 DEF c

\* ListsAreSound follows from the shape told node by node.
LEMMA ThreadsMakeSoundLists ==
  ASSUME TypeOK, Threads, Orders
  PROVE  ListsAreSound
<1>1. NodesOf(freeHead) = Free
      /\ Cardinality(NodesOf(freeHead)) = Len(Chain(freeHead))
  BY FreeChainWhole
<1>2. \A s \in Sides, l \in Levels :
        /\ Cardinality(NodesOf(head[s][l])) = Len(Chain(head[s][l]))
        /\ tail[s][l] = IF Chain(head[s][l]) = <<>> THEN Nil
                        ELSE Chain(head[s][l])[Len(Chain(head[s][l]))]
        /\ NodesOf(head[s][l]) = {n \in Book : data[n].side = s /\ LevelOf(n) = l}
  BY LevelChainWhole
<1>3. \A h \in ListHeads : h = freeHead \/ \E s \in Sides, l \in Levels : h = head[s][l]
  BY DEF ListHeads, AllLevels, HeadOf
<1>4. freeHead \in ListHeads /\ \A s \in Sides, l \in Levels : head[s][l] \in ListHeads
  <2>1. ASSUME NEW s \in Sides, NEW l \in Levels PROVE head[s][l] \in ListHeads
    <3>1. <<s, l>> \in AllLevels /\ HeadOf(<<s, l>>) = head[s][l]
      BY DEF AllLevels, HeadOf
    <3> QED BY <3>1 DEF ListHeads
  <2> QED BY <2>1 DEF ListHeads
<1>5. Free \subseteq Nodes /\ Book \subseteq Nodes /\ Free \cap Book = {}
      /\ Free \cup Book = Nodes
  BY DEF Free, Book
<1>6. \A n \in Book : data[n].side \in Sides /\ LevelOf(n) \in Levels
  BY <1>5 DEF TypeOK, Threads, Links
<1>7. UNION {NodesOf(h) : h \in ListHeads} = Nodes
  <2>1. ASSUME NEW h \in ListHeads PROVE NodesOf(h) \subseteq Nodes
    BY <1>1, <1>2, <1>3, <1>5
  <2>2. ASSUME NEW n \in Nodes PROVE \E h \in ListHeads : n \in NodesOf(h)
    <3>1. CASE n \in Free
      BY <1>1, <1>4, <3>1
    <3>2. CASE n \in Book
      <4>1. n \in NodesOf(head[data[n].side][LevelOf(n)])
        BY <1>2, <1>6, <3>2
      <4> QED BY <1>4, <1>6, <3>2, <4>1
    <3> QED BY <1>5, <3>1, <3>2
  <2> QED BY <2>1, <2>2
<1>8. \A h \in ListHeads : Cardinality(NodesOf(h)) = Len(Chain(h))
  BY <1>1, <1>2, <1>3
<1>9. ASSUME NEW g \in ListHeads, NEW h \in ListHeads, g # h
      PROVE  NodesOf(g) \cap NodesOf(h) = {}
  <2>1. CASE g = freeHead \/ h = freeHead
    BY <1>1, <1>2, <1>3, <1>5, <1>9, <2>1
  <2>2. CASE ~(g = freeHead \/ h = freeHead)
    <3>1. PICK s \in Sides, l \in Levels : g = head[s][l]
      BY <1>3, <2>2
    <3>2. PICK t \in Sides, k \in Levels : h = head[t][k]
      BY <1>3, <2>2
    <3>3. s # t \/ l # k
      BY <1>9, <3>1, <3>2
    <3> QED BY <1>2, <3>1, <3>2, <3>3
  <2> QED BY <2>1, <2>2
<1>10. EveryNodeInOneList
  BY <1>1, <1>5, <1>7, <1>8, <1>9 DEF EveryNodeInOneList, Book
<1>11. ASSUME NEW s \in Sides, NEW l \in Levels
       PROVE  LET c == Chain(head[s][l])
              IN  /\ \A i \in 1 .. Len(c) :
                       /\ data[c[i]].side = s /\ PriceIndex(data[c[i]].price) = l
                       /\ data[c[i]].qty > 0
                       /\ prev[c[i]] = IF i = 1 THEN Nil ELSE c[i - 1]
                       /\ i > 1 => data[c[i - 1]].id < data[c[i]].id
                  /\ tail[s][l] = IF c = <<>> THEN Nil ELSE c[Len(c)]
  <2> DEFINE c == Chain(head[s][l])
  <2>1. ASSUME NEW i \in 1 .. Len(c)
        PROVE  /\ c[i] \in Book /\ data[c[i]].side = s /\ LevelOf(c[i]) = l
               /\ prev[c[i]] = IF i = 1 THEN Nil ELSE c[i - 1]
               /\ i > 1 => data[c[i - 1]].id < data[c[i]].id
    BY LevelChain
  <2>2. tail[s][l] = IF c = <<>> THEN Nil ELSE c[Len(c)]
    BY <1>2
  <2> HIDE DEF c
  <2>3. ASSUME NEW i \in 1 .. Len(c)
        PROVE  /\ data[c[i]].side = s /\ PriceIndex(data[c[i]].price) = l
               /\ data[c[i]].qty > 0
               /\ prev[c[i]] = IF i = 1 THEN Nil ELSE c[i - 1]
               /\ i > 1 => data[c[i - 1]].id < data[c[i]].id
    <3>1. data[c[i]].qty > 0
      BY <2>1 DEF Orders
    <3> QED BY <2>1, <3>1 DEF LevelOf
  <2>4. /\ \A i \in 1 .. Len(c) :
             /\ data[c[i]].side = s /\ PriceIndex(data[c[i]].price) = l
             /\ data[c[i]].qty > 0
             /\ prev[c[i]] = IF i = 1 THEN Nil ELSE c[i - 1]
             /\ i > 1 => data[c[i - 1]].id < data[c[i]].id
        /\ tail[s][l] = IF c = <<>> THEN Nil ELSE c[Len(c)]
    BY <2>2, <2>3
  <2> QED BY <2>4 DEF c
<1>12. LevelsAreQueues
  BY <1>11, Zenon DEF LevelsAreQueues
<1> QED BY <1>10, <1>12 DEF ListsAreSound

\* The free list and the level lists together hold every node of the pool once, and
\* each level's list is its orders in order of arrival, linked both ways
\* (OrderPool.Rent and Return, AddToBook, RemoveNode).
THEOREM ListsAlwaysSound == Spec => []ListsAreSound
<1>1. Sound /\ Threads /\ Orders => ListsAreSound
  BY ThreadsMakeSoundLists DEF Sound
<1> QED BY <1>1, AlwaysThreaded, PTL
==============================================================================
