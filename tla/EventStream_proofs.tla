-------------------------- MODULE EventStream_proofs --------------------------
(***************************************************************************)
(* Proofs about EventStream for any reports, clocks, subscribers, queue    *)
(* limit, page and number of events.                                       *)
(***************************************************************************)
EXTENDS EventStream, FiniteSetTheorems, SequenceTheorems, TLAPS

-----------------------------------------------------------------------------
(* The inductive invariant.                                                *)

\* A queue lives as long as its subscription.
QueuesAreSubscribed ==
    \A s \in Streams : ~Subscribed(s) => queue[s] = <<>> /\ owed[s] = 0

\* Nobody holds an event that is not owed to it.
HeldIsOwed == \A s \in Streams : Count(queue[s]) <= owed[s]

\* Whoever is owed more than its queue holds has a marker in it.
HoldsMarker(q) == \E i \in DOMAIN q : q[i] = Lagged
GapsAreMarked == \A s \in Streams : Count(queue[s]) = owed[s] \/ HoldsMarker(queue[s])

\* Finitely many reports are on file, whatever could be.
FiniteListing == IsFiniteSet(Listed)

\* The page a poll has read lists stored reports, the newest first.
PageIsListed ==
    \A p \in Polls : \A i \in DOMAIN poll[p].page :
        /\ poll[p].page[i] \in Listed
        /\ stored[poll[p].page[i]] <= stored[poll[p].page[1]]

\* What a poll announced is no later than what the client saw last.
AnnouncedIsSeen ==
    \A r \in Reports : polled[r] > 0 => r \in Listed /\ stored[r] <= app.lastSeen

IInv ==
    /\ TypeOK
    /\ QueuesAreSubscribed /\ HeldIsOwed /\ GapsAreMarked
    /\ FiniteListing /\ PageIsListed /\ AnnouncedIsSeen /\ PolledOnce

-----------------------------------------------------------------------------
(* Facts about the helpers.                                                *)

\* created_at is a number, and 0 stands for a report that is not stored.
LEMMA TimesAreNumbers == \A t \in Times \cup {0} : t \in Nat
  BY StreamConstants DEF StreamConstants

\* The marker is no event.
LEMMA MarkerIsNoEvent == Lagged \notin Events
  BY DEF Lagged, Events

\* An item at the end of a queue counts if it is an event.
LEMMA CountAppend ==
  ASSUME NEW q \in Seq(Events \cup {Lagged}), NEW x \in Events \cup {Lagged}
  PROVE  /\ Count(q) \in Nat
         /\ Count(Append(q, x)) = IF x = Lagged THEN Count(q) ELSE Count(q) + 1
<1> DEFINE I == {i \in DOMAIN q : q[i] # Lagged}
           J == {i \in DOMAIN Append(q, x) : Append(q, x)[i] # Lagged}
<1>1. /\ Len(q) \in Nat /\ DOMAIN q = 1 .. Len(q)
      /\ Append(q, x) \in Seq(Events \cup {Lagged}) /\ Len(Append(q, x)) = Len(q) + 1
      /\ \A i \in 1 .. Len(q) : Append(q, x)[i] = q[i]
      /\ Append(q, x)[Len(q) + 1] = x
  BY AppendProperties, LenProperties
<1>2. DOMAIN Append(q, x) = 1 .. Len(q) + 1
  BY <1>1, LenProperties
<1>3. IsFiniteSet(I)
  <2>1. IsFiniteSet(1 .. Len(q)) /\ I \in SUBSET (1 .. Len(q))
    BY <1>1, FS_Interval
  <2>. QED
    BY <2>1, FS_Subset
<1>4. J = IF x = Lagged THEN I ELSE I \cup {Len(q) + 1}
  BY <1>1, <1>2
<1>5. Len(q) + 1 \notin I
  BY <1>1
<1>6. Cardinality(I) \in Nat
  BY <1>3, FS_CardinalityType
<1>7. Cardinality(J) = IF x = Lagged THEN Cardinality(I) ELSE Cardinality(I) + 1
  <2>1. Cardinality(I \cup {Len(q) + 1}) = Cardinality(I) + 1
    BY <1>3, <1>5, FS_AddElement
  <2>. QED
    BY <1>4, <2>1
<1>. QED
  BY <1>6, <1>7 DEF Count

\* The item taken from a queue counted if it was an event.
LEMMA CountTail ==
  ASSUME NEW q \in Seq(Events \cup {Lagged}), q # <<>>
  PROVE  /\ Count(q) \in Nat /\ Count(Tail(q)) \in Nat
         /\ Count(q) = IF Head(q) = Lagged THEN Count(Tail(q)) ELSE Count(Tail(q)) + 1
<1> DEFINE n == Len(q)
           I == {i \in DOMAIN q : q[i] # Lagged}
           J == {i \in DOMAIN Tail(q) : Tail(q)[i] # Lagged}
           K == {i \in 2 .. n : q[i] # Lagged}
           f == [j \in J |-> j + 1]
<1>1. /\ n \in Nat \ {0} /\ DOMAIN q = 1 .. n
      /\ Tail(q) \in Seq(Events \cup {Lagged}) /\ Len(Tail(q)) = n - 1
      /\ \A i \in 1 .. n - 1 : Tail(q)[i] = q[i + 1]
      /\ Head(q) = q[1]
  <2>1. n \in Nat \ {0} /\ DOMAIN q = 1 .. n
    BY EmptySeq, LenProperties
  <2>2. /\ Tail(q) \in Seq(Events \cup {Lagged}) /\ Len(Tail(q)) = n - 1
        /\ \A i \in 1 .. Len(Tail(q)) : Tail(q)[i] = q[i + 1]
    BY HeadTailProperties
  <2>. QED
    BY <2>1, <2>2
<1>2. DOMAIN Tail(q) = 1 .. n - 1
  BY <1>1, LenProperties
<1>3. IsFiniteSet(J) /\ IsFiniteSet(K)
  <2>1. IsFiniteSet(1 .. n - 1) /\ IsFiniteSet(2 .. n)
    BY <1>1, FS_Interval
  <2>2. J \in SUBSET (1 .. n - 1) /\ K \in SUBSET (2 .. n)
    BY <1>2
  <2>. QED
    BY <2>1, <2>2, FS_Subset
<1>4. ExistsBijection(J, K)
  <2>1. f \in [J -> K]
    BY <1>1, <1>2
  <2>2. f \in Injection(J, K)
    BY <1>1, <1>2, <2>1 DEF Injection, IsInjective
  <2>3. f \in Surjection(J, K)
    <3>1. ASSUME NEW k \in K PROVE k - 1 \in J /\ f[k - 1] = k
      BY <1>1, <1>2
    <3>. QED
      BY <2>1, <3>1 DEF Surjection
  <2>. QED
    BY <2>2, <2>3 DEF ExistsBijection, Bijection
<1>5. Cardinality(K) = Cardinality(J) /\ Cardinality(J) \in Nat
  BY <1>3, <1>4, FS_Bijection, FS_CardinalityType
<1>6. I = IF Head(q) = Lagged THEN K ELSE K \cup {1}
  BY <1>1
<1>7. Cardinality(K \cup {1}) = Cardinality(K) + 1
  <2>1. 1 \notin K
    BY <1>1
  <2>. QED
    BY <1>3, <2>1, FS_AddElement
<1>8. Count(q) = Cardinality(I) /\ Count(Tail(q)) = Cardinality(J)
  BY DEF Count
<1>9. Cardinality(I) = IF Head(q) = Lagged THEN Cardinality(K) ELSE Cardinality(K) + 1
  BY <1>6, <1>7
<1> HIDE DEF n, I, J, K
<1>. QED
  BY <1>5, <1>8, <1>9

\* Every place of the listing has its report: the newest is first.
LEMMA RankIsPosition ==
  ASSUME StreamConstants, stored \in [Reports -> Times \cup {0}], IsFiniteSet(Listed)
  PROVE  /\ Cardinality(Listed) \in Nat
         /\ \A i \in 1 .. Cardinality(Listed) : \E r \in Listed : Rank(r) = i - 1
<1> DEFINE n == Cardinality(Listed)
           Before(r) == {x \in Listed : Newer(x, r)}
           f == [r \in Listed |-> Rank(r)]
<1>1. n \in Nat
  BY FS_CardinalityType
<1>2. \A r \in Listed : r \in Nat /\ stored[r] \in Nat
  BY DEF Listed, StreamConstants
<1>3. \A r \in Listed : /\ IsFiniteSet(Before(r)) /\ Rank(r) \in Nat
                       /\ Rank(r) = Cardinality(Before(r))
  <2> SUFFICES ASSUME NEW r \in Listed
               PROVE  /\ IsFiniteSet(Before(r)) /\ Rank(r) \in Nat
                      /\ Rank(r) = Cardinality(Before(r))
    OBVIOUS
  <2>1. Before(r) \in SUBSET Listed
    OBVIOUS
  <2>2. IsFiniteSet(Before(r))
    BY <2>1, FS_Subset
  <2>. QED
    BY <2>2, FS_CardinalityType DEF Rank
<1>4. \A r \in Listed : Rank(r) \in 0 .. n - 1
  <2> SUFFICES ASSUME NEW r \in Listed PROVE Rank(r) \in 0 .. n - 1
    OBVIOUS
  <2>1. IsFiniteSet(Listed \ {r}) /\ Cardinality(Listed \ {r}) = n - 1
    BY FS_RemoveElement
  <2>2. Before(r) \in SUBSET (Listed \ {r})
    BY <1>2 DEF Newer
  <2>3. Cardinality(Before(r)) <= n - 1
    BY <2>1, <2>2, FS_Subset
  <2>. QED
    BY <1>1, <1>3, <2>3
<1>5. \A a, b \in Listed : Newer(a, b) => Rank(a) # Rank(b)
  <2> SUFFICES ASSUME NEW a \in Listed, NEW b \in Listed, Newer(a, b), Rank(a) = Rank(b)
               PROVE  FALSE
    OBVIOUS
  <2>1. Before(a) \in SUBSET Before(b) /\ a \in Before(b) /\ a \notin Before(a)
    BY <1>2 DEF Newer
  <2>2. IsFiniteSet(Before(b)) /\ Cardinality(Before(b)) = Cardinality(Before(a))
    BY <1>3
  <2>3. Before(b) = Before(a)
    BY <2>1, <2>2, FS_Subset
  <2>. QED
    BY <2>1, <2>3
<1>6. f \in Injection(Listed, 0 .. n - 1)
  <2>1. f \in [Listed -> 0 .. n - 1]
    BY <1>4
  <2>2. \A a, b \in Listed : f[a] = f[b] => a = b
    BY <1>2, <1>5 DEF Newer
  <2>. QED
    BY <2>1, <2>2 DEF Injection, IsInjective
<1>7. IsFiniteSet(0 .. n - 1) /\ Cardinality(0 .. n - 1) = n
  BY <1>1, FS_Interval
<1>8. f \in Surjection(Listed, 0 .. n - 1)
  BY <1>6, <1>7, FS_Injection
<1>9. \A k \in 0 .. n - 1 : \E r \in Listed : f[r] = k
  BY <1>8 DEF Surjection
<1>. QED
  BY <1>1, <1>9

\* A page lists stored reports and begins with one that none is newer than.
LEMMA PageFacts ==
  ASSUME StreamConstants, stored \in [Reports -> Times \cup {0}], IsFiniteSet(Listed)
  PROVE  /\ FirstPage \in Seq(Reports)
         /\ \A i \in DOMAIN FirstPage :
               FirstPage[i] \in Listed /\ stored[FirstPage[i]] <= stored[FirstPage[1]]
<1> DEFINE n == Cardinality(Listed)
           m == IF n < PageLimit THEN n ELSE PageLimit
<1>1. /\ n \in Nat
      /\ \A i \in 1 .. n : \E r \in Listed : Rank(r) = i - 1
  BY RankIsPosition
<1>2. \A i \in 1 .. n : NewestFirst[i] \in Listed /\ Rank(NewestFirst[i]) = i - 1
  <2> SUFFICES ASSUME NEW i \in 1 .. n
               PROVE  NewestFirst[i] \in Listed /\ Rank(NewestFirst[i]) = i - 1
    OBVIOUS
  <2>1. NewestFirst[i] = CHOOSE r \in Listed : Rank(r) = i - 1
    BY DEF NewestFirst
  <2>. QED
    BY <1>1, <2>1
<1>3. NewestFirst \in Seq(Listed) /\ Len(NewestFirst) = n
  <2>1. NewestFirst \in [1 .. n -> Listed]
    BY <1>2 DEF NewestFirst
  <2>. QED
    BY <1>1, <2>1, SeqDef, LenProperties
<1>4. m \in Nat /\ m <= n /\ (m >= 1 => n >= 1) /\ FirstPage = SubSeq(NewestFirst, 1, m)
  BY <1>1, <1>3 DEF FirstPage, StreamConstants
<1> HIDE DEF m, n
<1>5. /\ FirstPage \in Seq(Listed)
      /\ Len(FirstPage) = m
      /\ \A i \in 1 .. m : FirstPage[i] = NewestFirst[i]
  <2>1. \A i \in 1 .. m : NewestFirst[i] \in Listed
    BY <1>1, <1>2, <1>4
  <2>. QED
    BY <1>4, <2>1, SubSeqProperties
<1>6. DOMAIN FirstPage = 1 .. m
  BY <1>5, LenProperties
<1>7. FirstPage \in Seq(Reports)
  BY <1>5, SeqMonotonic DEF Listed
<1>8. ASSUME NEW i \in 1 .. m
      PROVE  FirstPage[i] \in Listed /\ stored[FirstPage[i]] <= stored[FirstPage[1]]
  <2>1. 1 \in 1 .. m /\ 1 \in 1 .. n /\ i \in 1 .. n
    BY <1>1, <1>4
  <2>2. FirstPage[i] \in Listed /\ FirstPage[1] \in Listed /\ Rank(FirstPage[1]) = 0
    BY <1>2, <1>5, <2>1
  <2>3. {x \in Listed : Newer(x, FirstPage[1])} = {}
    <3>1. {x \in Listed : Newer(x, FirstPage[1])} \in SUBSET Listed
      OBVIOUS
    <3>2. IsFiniteSet({x \in Listed : Newer(x, FirstPage[1])})
      BY <3>1, FS_Subset
    <3>. QED
      BY <2>2, <3>2, FS_EmptySet DEF Rank
  <2>4. \A r \in Listed : stored[r] \in Nat
    BY DEF Listed, StreamConstants
  <2>5. ~Newer(FirstPage[i], FirstPage[1])
    BY <2>2, <2>3
  <2>. QED
    BY <2>2, <2>4, <2>5 DEF Newer
<1>. QED
  BY <1>6, <1>7, <1>8

-----------------------------------------------------------------------------
(* The feed: what one item does to one queue.                              *)

\* An offer keeps the queue within its limit, and what is dropped is announced.
LEMMA OfferKeepsCount ==
  ASSUME StreamConstants, NEW q \in Seq(Events \cup {Lagged}), NEW e \in Events, NEW o \in Nat,
         Len(q) <= QueueMax, Count(q) <= o, Count(q) = o \/ HoldsMarker(q)
  PROVE  /\ Offered(q, e) \in Seq(Events \cup {Lagged})
         /\ Len(Offered(q, e)) <= QueueMax
         /\ Count(Offered(q, e)) <= o + 1
         /\ Count(Offered(q, e)) = o + 1 \/ HoldsMarker(Offered(q, e))
<1> Len(q) \in Nat /\ QueueMax \in Nat \ {0} /\ DOMAIN q = 1 .. Len(q)
  BY LenProperties DEF StreamConstants
<1>1. CASE Len(q) < QueueMax
  <2>1. /\ Append(q, e) \in Seq(Events \cup {Lagged}) /\ Len(Append(q, e)) = Len(q) + 1
        /\ \A i \in 1 .. Len(q) : Append(q, e)[i] = q[i]
    BY AppendProperties
  <2>2. DOMAIN Append(q, e) = 1 .. Len(q) + 1
    BY <2>1, LenProperties
  <2>3. Count(Append(q, e)) = Count(q) + 1 /\ Count(q) \in Nat
    BY CountAppend, MarkerIsNoEvent
  <2>4. HoldsMarker(q) => HoldsMarker(Append(q, e))
    BY <2>1, <2>2 DEF HoldsMarker
  <2>5. Offered(q, e) = Append(q, e)
    BY <1>1 DEF Offered
  <2>. QED
    BY <1>1, <2>1, <2>3, <2>4, <2>5
<1>2. CASE ~(Len(q) < QueueMax)
  <2>1. q # <<>>
    BY <1>2, EmptySeq
  <2>2. Tail(q) \in Seq(Events \cup {Lagged}) /\ Len(Tail(q)) = Len(q) - 1
    BY <2>1, HeadTailProperties
  <2>3. Count(Tail(q)) <= Count(q) /\ Count(q) \in Nat /\ Count(Tail(q)) \in Nat
    BY <2>1, CountTail
  <2>4. /\ Append(Tail(q), Lagged) \in Seq(Events \cup {Lagged})
        /\ Len(Append(Tail(q), Lagged)) = Len(q)
        /\ Append(Tail(q), Lagged)[Len(q)] = Lagged
    BY <2>2, AppendProperties
  <2>5. Count(Append(Tail(q), Lagged)) = Count(Tail(q))
    BY <2>2, CountAppend
  <2>6. HoldsMarker(Append(Tail(q), Lagged))
    <3>1. DOMAIN Append(Tail(q), Lagged) = 1 .. Len(q) /\ Len(q) \in 1 .. Len(q)
      BY <1>2, <2>4, LenProperties
    <3>. QED
      BY <2>4, <3>1 DEF HoldsMarker
  <2>7. Offered(q, e) = Append(Tail(q), Lagged)
    BY <1>2 DEF Offered
  <2>. QED
    BY <2>3, <2>4, <2>5, <2>6, <2>7
<1>. QED
  BY <1>1, <1>2

\* Whoever takes the marker is told; whoever takes an event is owed one less.
LEMMA TakeKeepsCount ==
  ASSUME NEW s, NEW q \in Seq(Events \cup {Lagged}), q = queue[s], q # <<>>, owed[s] \in Nat,
         Count(q) <= owed[s], Count(q) = owed[s] \/ HoldsMarker(q)
  PROVE  /\ Tail(q) \in Seq(Events \cup {Lagged})
         /\ Len(Tail(q)) <= Len(q)
         /\ OwedAfter(s, Head(q)) \in Nat
         /\ Count(Tail(q)) <= OwedAfter(s, Head(q))
         /\ Count(Tail(q)) = OwedAfter(s, Head(q)) \/ HoldsMarker(Tail(q))
<1>1. /\ Len(q) \in Nat \ {0} /\ DOMAIN q = 1 .. Len(q)
      /\ Tail(q) \in Seq(Events \cup {Lagged}) /\ Len(Tail(q)) = Len(q) - 1
      /\ \A i \in 1 .. Len(Tail(q)) : Tail(q)[i] = q[i + 1]
      /\ Head(q) = q[1]
  BY EmptySeq, LenProperties, HeadTailProperties
<1>2. DOMAIN Tail(q) = 1 .. Len(q) - 1
  BY <1>1, LenProperties
<1>3. /\ Count(q) \in Nat /\ Count(Tail(q)) \in Nat
      /\ Count(q) = IF Head(q) = Lagged THEN Count(Tail(q)) ELSE Count(Tail(q)) + 1
  BY CountTail
<1>4. CASE Head(q) = Lagged
  <2>1. OwedAfter(s, Head(q)) = Count(Tail(q))
    BY <1>4 DEF OwedAfter
  <2>. QED
    BY <1>1, <1>3, <2>1
<1>5. CASE Head(q) # Lagged
  <2>1. OwedAfter(s, Head(q)) = owed[s] - 1
    BY <1>5 DEF OwedAfter
  <2>2. HoldsMarker(q) => HoldsMarker(Tail(q))
    <3>1. ASSUME NEW i \in 1 .. Len(q), q[i] = Lagged PROVE HoldsMarker(Tail(q))
      <4>1. i - 1 \in 1 .. Len(q) - 1
        BY <1>1, <1>5, <3>1
      <4>2. Tail(q)[i - 1] = Lagged
        BY <1>1, <3>1, <4>1
      <4>. QED
        BY <1>2, <4>1, <4>2 DEF HoldsMarker
    <3>. QED
      BY <1>1, <3>1 DEF HoldsMarker
  <2>. QED
    BY <1>1, <1>3, <1>5, <2>1, <2>2
<1>. QED
  BY <1>4, <1>5

\* The empty queue of a new subscriber owes nothing.
LEMMA EmptyCount == Count(<<>>) = 0
<1>1. {i \in DOMAIN <<>> : <<>>[i] # Lagged} = {}
  OBVIOUS
<1>. QED
  BY <1>1, FS_EmptySet DEF Count

-----------------------------------------------------------------------------
(* The invariant holds at the start and survives every step.               *)

\* Nothing is stored, queued or shown at first.
LEMMA InvInit == Init => IInv
<1> SUFFICES ASSUME Init PROVE IInv
  OBVIOUS
<1>1. <<>> \in Seq(Events \cup {Lagged}) /\ Len(<<>>) = 0 /\ <<>> \in Seq(Reports)
  BY EmptySeq
<1>2. app \in AppType
  BY <1>1 DEF Init, NewApp, AppType
<1>3. TypeOK
  BY <1>1, <1>2, StreamConstants DEF Init, TypeOK, NoPoll
<1>4. Listed = {}
  BY DEF Init, Listed
<1>5. FiniteListing
  BY <1>4, FS_EmptySet DEF FiniteListing
<1>. QED
  BY <1>3, <1>5, EmptyCount DEF Init, IInv, QueuesAreSubscribed, HeldIsOwed, GapsAreMarked,
     PageIsListed, AnnouncedIsSeen, PolledOnce, NewApp, NoPoll

\* What the queues need of a step, stream by stream.
FeedAt(s) ==
    /\ queue[s] \in Seq(Events \cup {Lagged}) /\ Len(queue[s]) <= QueueMax
    /\ owed[s] \in Nat
    /\ ~Subscribed(s) => queue[s] = <<>> /\ owed[s] = 0
    /\ Count(queue[s]) <= owed[s]
    /\ Count(queue[s]) = owed[s] \/ HoldsMarker(queue[s])

FeedOK ==
    /\ link \in [Streams -> {"none", "headers", "open", "severed"}]
    /\ queue \in [Streams -> Seq(Events \cup {Lagged})]
    /\ owed \in [Streams -> Nat]
    /\ \A s \in Streams : FeedAt(s)

\* No publish, read, break or goodbye loses an event without a marker.
LEMMA FeedStep ==
  ASSUME FeedOK, app \in AppType, Next
  PROVE  FeedOK'
<1>1. ASSUME NEW r \in Reports, NEW kind \in {"submitted", "enriched"}, Publish(r, kind) PROVE FeedOK'
  <2> DEFINE e == [kind |-> kind, id |-> r]
  <2>1. e \in Events
    BY DEF Events
  <2>2. /\ queue' = [s \in Streams |-> IF Subscribed(s) THEN Offered(queue[s], e) ELSE queue[s]]
        /\ owed' = [s \in Streams |-> IF Subscribed(s) THEN owed[s] + 1 ELSE owed[s]]
        /\ link' = link
    BY <1>1 DEF Publish
  <2> HIDE DEF e
  <2>3. ASSUME NEW s \in Streams PROVE FeedAt(s)'
    <3>1. CASE Subscribed(s)
      <4>1. queue'[s] = Offered(queue[s], e) /\ owed'[s] = owed[s] + 1 /\ Subscribed(s)'
        BY <2>2, <3>1 DEF Subscribed
      <4>2. /\ queue[s] \in Seq(Events \cup {Lagged}) /\ Len(queue[s]) <= QueueMax
            /\ owed[s] \in Nat /\ Count(queue[s]) <= owed[s]
            /\ Count(queue[s]) = owed[s] \/ HoldsMarker(queue[s])
        BY DEF FeedOK, FeedAt
      <4>3. /\ Offered(queue[s], e) \in Seq(Events \cup {Lagged})
            /\ Len(Offered(queue[s], e)) <= QueueMax
            /\ Count(Offered(queue[s], e)) <= owed[s] + 1
            /\ Count(Offered(queue[s], e)) = owed[s] + 1 \/ HoldsMarker(Offered(queue[s], e))
        BY <2>1, <4>2, OfferKeepsCount, StreamConstants
      <4>. QED
        BY <4>1, <4>2, <4>3 DEF FeedAt
    <3>2. CASE ~Subscribed(s)
      <4>1. queue'[s] = queue[s] /\ owed'[s] = owed[s] /\ (Subscribed(s)' <=> Subscribed(s))
        BY <2>2, <3>2 DEF Subscribed
      <4>. QED
        BY <4>1 DEF FeedOK, FeedAt
    <3>. QED
      BY <3>1, <3>2
  <2>4. /\ queue' \in [Streams -> Seq(Events \cup {Lagged})]
        /\ owed' \in [Streams -> Nat]
    <3>1. \A s \in Streams : queue'[s] \in Seq(Events \cup {Lagged}) /\ owed'[s] \in Nat
      BY <2>3 DEF FeedAt
    <3>. QED
      BY <2>2, <3>1
  <2>. QED
    BY <2>2, <2>3, <2>4 DEF FeedOK
<1>2. ASSUME NEW s \in Streams, NextItem(s) PROVE FeedOK'
  <2> DEFINE q == queue[s]
             o == OwedAfter(s, Head(q))
  <2>1. /\ q # <<>> /\ link' = link
        /\ queue' = [queue EXCEPT ![s] = Tail(q)] /\ owed' = [owed EXCEPT ![s] = o]
    BY <1>2 DEF NextItem
  <2>2. /\ q \in Seq(Events \cup {Lagged}) /\ Len(q) <= QueueMax
        /\ owed[s] \in Nat /\ Count(q) <= owed[s]
        /\ Count(q) = owed[s] \/ HoldsMarker(q)
    BY <1>2 DEF FeedOK, FeedAt, NextItem
  <2> HIDE DEF q
  <2>3. /\ Tail(q) \in Seq(Events \cup {Lagged}) /\ Len(Tail(q)) <= Len(q)
        /\ o \in Nat /\ Count(Tail(q)) <= o
        /\ Count(Tail(q)) = o \/ HoldsMarker(Tail(q))
    BY <2>1, <2>2, TakeKeepsCount DEF q
  <2> HIDE DEF o
  <2>4. FeedAt(s)'
    <3>1. queue'[s] = Tail(q) /\ owed'[s] = o /\ Subscribed(s)'
      BY <1>2, <2>1 DEF FeedOK, NextItem, Subscribed
    <3>2. Len(Tail(q)) <= QueueMax
      <4>1. Len(q) \in Nat /\ Len(Tail(q)) \in Nat
        BY <2>2, <2>3, LenProperties
      <4>. QED
        BY <2>2, <2>3, <4>1, StreamConstants DEF StreamConstants
    <3>. QED
      BY <2>3, <3>1, <3>2 DEF FeedAt
  <2>5. \A x \in Streams : x # s => FeedAt(x)'
    BY <2>1 DEF FeedOK, FeedAt, Subscribed
  <2>. QED
    BY <2>1, <2>3, <2>4, <2>5 DEF FeedOK
<1>3. ASSUME NEW s \in Streams, Leave(s) PROVE FeedOK'
  <2>1. /\ link' = [link EXCEPT ![s] = "none"] /\ queue' = [queue EXCEPT ![s] = <<>>]
        /\ owed' = [owed EXCEPT ![s] = 0]
    BY <1>3 DEF Leave
  <2>2. <<>> \in Seq(Events \cup {Lagged}) /\ Len(<<>>) = 0
    BY EmptySeq
  <2>3. FeedAt(s)'
    <3>1. queue'[s] = <<>> /\ owed'[s] = 0
      BY <2>1 DEF FeedOK
    <3>. QED
      BY <2>2, <3>1, EmptyCount, StreamConstants DEF FeedAt, StreamConstants
  <2>4. \A x \in Streams : x # s => FeedAt(x)'
    BY <2>1 DEF FeedOK, FeedAt, Subscribed
  <2>. QED
    BY <2>1, <2>2, <2>3, <2>4 DEF FeedOK
<1>4. ASSUME link' \in [Streams -> {"none", "headers", "open", "severed"}],
             queue' = queue, owed' = owed,
             \A s \in Streams : Subscribed(s) => Subscribed(s)'
      PROVE  FeedOK'
  BY <1>4 DEF FeedOK, FeedAt
<1>5. ASSUME NEW s \in Streams, Subscribe(s) \/ Connected(s) PROVE FeedOK'
  BY <1>4, <1>5 DEF Subscribe, Connected, FeedOK, Subscribed
<1>6. CASE Break
  <2>1. link[app.stream] \in {"headers", "open"} /\ UNCHANGED <<queue, owed>>
    BY <1>6 DEF Break
  <2>2. \/ link' = [link EXCEPT ![app.stream] = "none"] /\ link[app.stream] = "headers"
        \/ link' = [link EXCEPT ![app.stream] = "severed"]
    BY <1>6 DEF Break
  <2>. QED
    BY <1>4, <2>1, <2>2 DEF FeedOK, Subscribed
<1>7. CASE UNCHANGED server
  BY <1>4, <1>7 DEF server, FeedOK, Subscribed
<1>. QED
  BY <1>1, <1>2, <1>3, <1>5, <1>6, <1>7
     DEF Next, Submit, Refused, Reconnect, PollAsks, PollReads, PollFails, PollAnswers

\* What the client shows and asks keeps its types: an event of a known kind never
\* parses, so it is shown by a poll only.
LEMMA FrameKeepsApp ==
  ASSUME app \in AppType, NEW x \in Events \cup {Lagged}
  PROVE  /\ AfterFrame(app, x) \in AppType
         /\ AfterFrame(app, x).lastSeen = app.lastSeen
<1>1. x # Lagged => ~Parses(x.kind)
  BY DEF Parses, Required, PayloadKeys
<1>2. AfterFrame(app, x) \in {[app EXCEPT !.told = TRUE, !.leftover = FALSE],
                              [app EXCEPT !.leftover = FALSE],
                              [app EXCEPT !.leftover = TRUE]}
  <2>1. CASE x = Lagged
    BY <2>1 DEF AfterFrame
  <2>2. CASE x # Lagged /\ app.leftover
    BY <2>2 DEF AfterFrame
  <2>3. CASE x # Lagged /\ ~app.leftover
    BY <1>1, <2>3 DEF AfterFrame
  <2>. QED
    BY <2>1, <2>2, <2>3
<1>. QED
  BY <1>2 DEF AppType

\* What is read and announced of a page is a set of reports, and the position a time.
LEMMA AnswerTypes ==
  ASSUME TypeOK, NEW p \in Polls
  PROVE  /\ Fresh(app.lastSeen, poll[p].page) \subseteq Reports
         /\ Position(app.lastSeen, poll[p].page) \in Times \cup {0}
<1> DEFINE page == poll[p].page
<1>1. page \in Seq(Reports) /\ app.lastSeen \in Times \cup {0}
  BY DEF TypeOK, AppType
<1> HIDE DEF page
<1>2. /\ DOMAIN page = 1 .. Len(page) /\ Len(page) \in Nat
      /\ \A i \in 1 .. Len(page) : page[i] \in Reports
  BY <1>1, LenProperties
<1>3. Fresh(app.lastSeen, page) \subseteq Reports
  BY <1>2 DEF Fresh
<1>4. Fresh(app.lastSeen, page) # {} => stored[page[1]] \in Times \cup {0}
  BY <1>2 DEF Fresh, TypeOK
<1>. QED
  BY <1>1, <1>3, <1>4 DEF Position, page

\* Each step leaves the app well typed; only a poll's answer moves what it has seen.
LEMMA AppStep ==
  ASSUME IInv, Next
  PROVE  /\ app' \in AppType
         /\ app'.lastSeen = app.lastSeen \/ \E p \in Polls : PollAnswers(p)
<1> TypeOK /\ app \in AppType
  BY DEF IInv, TypeOK
<1>1. ASSUME NEW s \in Streams, NextItem(s)
      PROVE  app' \in AppType /\ app'.lastSeen = app.lastSeen
  <2>1. Head(queue[s]) \in Events \cup {Lagged}
    BY <1>1, HeadTailProperties DEF NextItem, TypeOK
  <2>2. app' = app \/ app' = AfterFrame(app, Head(queue[s]))
    BY <1>1 DEF NextItem
  <2>. QED
    BY <2>1, <2>2, FrameKeepsApp
<1>2. ASSUME NEW s \in Streams, Connected(s)
      PROVE  app' \in AppType /\ app'.lastSeen = app.lastSeen
  BY <1>2 DEF Connected, AppType
<1>3. CASE Refused \/ Break \/ Reconnect
  <2>1. CASE Refused
    BY <2>1 DEF Refused, AppType
  <2>2. CASE Break
    BY <2>2 DEF Break, AppType
  <2>3. CASE Reconnect
    BY <2>3 DEF Reconnect, AppType
  <2>. QED
    BY <1>3, <2>1, <2>2, <2>3
<1>4. ASSUME NEW p \in Polls, PollAnswers(p) PROVE app' \in AppType
  <2> DEFINE fresh == Fresh(app.lastSeen, poll[p].page)
             position == Position(app.lastSeen, poll[p].page)
  <2>1. fresh \subseteq Reports /\ position \in Times \cup {0}
    BY AnswerTypes
  <2>2. app' = [app EXCEPT !.shown = app.shown \cup fresh, !.lastSeen = position]
    BY <1>4 DEF PollAnswers, AppType
  <2> HIDE DEF fresh, position
  <2>. QED
    BY <2>1, <2>2 DEF AppType
<1>5. CASE app' = app
  BY <1>5
<1>. QED
  BY <1>1, <1>2, <1>3, <1>4, <1>5
     DEF Next, Submit, Publish, Subscribe, Leave, PollAsks, PollReads, PollFails

\* A poll holds a page of reports, or none.
LEMMA PollTypes ==
  ASSUME IInv, Next
  PROVE  /\ poll' \in [Polls -> [at : {"idle", "asked", "read"}, page : Seq(Reports)]]
         /\ \/ poll' = poll
            \/ \E p \in Polls : PollAsks(p) \/ PollReads(p) \/ PollFails(p) \/ PollAnswers(p)
<1> TypeOK
  BY DEF IInv
<1>1. NoPoll \in [at : {"idle", "asked", "read"}, page : Seq(Reports)]
  BY EmptySeq DEF NoPoll
<1>2. FirstPage \in Seq(Reports)
  BY PageFacts, StreamConstants DEF IInv, TypeOK, FiniteListing
<1>3. ASSUME NEW p \in Polls, PollAsks(p) \/ PollReads(p) \/ PollFails(p) \/ PollAnswers(p)
      PROVE  poll' \in [Polls -> [at : {"idle", "asked", "read"}, page : Seq(Reports)]]
  <2>1. CASE PollAsks(p)
    BY <2>1 DEF PollAsks, TypeOK
  <2>2. CASE PollReads(p)
    BY <1>2, <2>2 DEF PollReads, TypeOK
  <2>3. CASE PollFails(p) \/ PollAnswers(p)
    <3>1. poll' = [poll EXCEPT ![p] = NoPoll]
      BY <2>3 DEF PollFails, PollAnswers
    <3>. QED
      BY <1>1, <3>1 DEF TypeOK
  <2>. QED
    BY <1>3, <2>1, <2>2, <2>3
<1>4. CASE poll' = poll
  BY <1>4 DEF TypeOK
<1>. QED
  BY <1>3, <1>4
     DEF Next, Submit, Publish, Subscribe, Leave, NextItem, Connected, Refused, Break, Reconnect

\* The counters and the table keep their types.
LEMMA CountersStep ==
  ASSUME IInv, Next
  PROVE  /\ stored' \in [Reports -> Times \cup {0}]
         /\ polled' \in [Reports -> Nat]
         /\ events' \in Nat /\ breaks' \in Nat
<1> TypeOK
  BY DEF IInv
<1>1. polled' = polled \/ polled' \in [Reports -> Nat]
  <2>1. ASSUME NEW p \in Polls, PollAnswers(p) PROVE polled' \in [Reports -> Nat]
    <3>1. PICK F : polled' = [r \in Reports |-> polled[r] + IF r \in F THEN 1 ELSE 0]
      BY <2>1 DEF PollAnswers
    <3>. QED
      BY <3>1 DEF TypeOK
  <2>. QED
    BY <2>1 DEF Next, Submit, Publish, Subscribe, Leave, NextItem, Connected, Refused,
       Break, Reconnect, PollAsks, PollReads, PollFails
<1>2. events' \in {events, events + 1} /\ breaks' \in {breaks, breaks + 1}
  BY DEF Next, Submit, Publish, Subscribe, Leave, NextItem, Connected, Refused, Break,
     Reconnect, PollAsks, PollReads, PollFails, PollAnswers
<1>3. stored' = stored \/ \E r \in Reports, at \in Times : stored' = [stored EXCEPT ![r] = at]
  BY DEF Next, Submit, Publish, Subscribe, Leave, NextItem, Connected, Refused, Break,
     Reconnect, PollAsks, PollReads, PollFails, PollAnswers
<1>4. stored' \in [Reports -> Times \cup {0}]
  BY <1>3 DEF TypeOK
<1>5. events' \in Nat /\ breaks' \in Nat
  BY <1>2 DEF TypeOK
<1>6. polled' \in [Reports -> Nat]
  BY <1>1 DEF TypeOK
<1>. QED
  BY <1>4, <1>5, <1>6

\* A report announced once is never later than what the client saw last, so no later
\* page announces it again, and no page read earlier is still to be applied.
LEMMA PollStep ==
  ASSUME IInv, Next
  PROVE  FiniteListing' /\ PageIsListed' /\ AnnouncedIsSeen' /\ PolledOnce'
<1> TypeOK /\ app \in AppType
  BY DEF IInv, TypeOK
<1> \A r \in Reports : stored[r] \in Nat
  BY TimesAreNumbers DEF TypeOK
<1>0. app.lastSeen \in Nat
  BY TimesAreNumbers DEF AppType
<1>1. ASSUME NEW r \in Reports, NEW at \in Times, Submit(r, at)
      PROVE  FiniteListing' /\ PageIsListed' /\ AnnouncedIsSeen' /\ PolledOnce'
  <2>1. /\ stored' = [stored EXCEPT ![r] = at] /\ stored[r] = 0 /\ at # 0
        /\ app' = app /\ poll' = poll /\ polled' = polled
    BY <1>1, StreamConstants DEF Submit, StreamConstants
  <2>2. Listed' = Listed \cup {r} /\ r \notin Listed
    BY <2>1 DEF Listed, TypeOK
  <2>3. FiniteListing'
    BY <2>2, FS_AddElement DEF IInv, FiniteListing
  <2>4. \A x \in Listed : stored'[x] = stored[x]
    BY <2>1, <2>2 DEF Listed, TypeOK
  <2>5. PageIsListed'
    <3> SUFFICES ASSUME NEW p \in Polls, NEW i \in DOMAIN poll[p].page
                 PROVE  /\ poll[p].page[i] \in Listed'
                        /\ stored'[poll[p].page[i]] <= stored'[poll[p].page[1]]
      BY <2>1 DEF PageIsListed
    <3>1. poll[p].page \in Seq(Reports)
      BY DEF TypeOK
    <3>2. 1 \in DOMAIN poll[p].page
      BY <3>1, LenProperties
    <3>. QED
      BY <2>2, <2>4, <3>2 DEF IInv, PageIsListed
  <2>6. AnnouncedIsSeen' /\ PolledOnce'
    BY <2>1, <2>2, <2>4 DEF IInv, AnnouncedIsSeen, PolledOnce
  <2>. QED
    BY <2>3, <2>5, <2>6
<1>2. ASSUME NEW p \in Polls, PollAsks(p) \/ PollReads(p) \/ PollFails(p)
      PROVE  FiniteListing' /\ PageIsListed' /\ AnnouncedIsSeen' /\ PolledOnce'
  <2>1. /\ stored' = stored /\ polled' = polled /\ app' = app
        /\ \A q \in Polls \ {p} : poll'[q] = poll[q]
        /\ poll'[p].page \in {poll[p].page, FirstPage, <<>>}
    BY <1>2 DEF PollAsks, PollReads, PollFails, NoPoll, TypeOK
  <2>2. Listed' = Listed
    BY <2>1 DEF Listed
  <2>3. PageIsListed'
    <3>1. \A i \in DOMAIN FirstPage :
             FirstPage[i] \in Listed /\ stored[FirstPage[i]] <= stored[FirstPage[1]]
      BY PageFacts, StreamConstants DEF IInv, TypeOK, FiniteListing
    <3>2. \A q \in Polls : poll'[q].page \in {poll[q].page, FirstPage, <<>>}
      BY <2>1
    <3>3. \A q \in Polls : \A i \in DOMAIN poll'[q].page :
             /\ poll'[q].page[i] \in Listed
             /\ stored[poll'[q].page[i]] <= stored[poll'[q].page[1]]
      BY <3>1, <3>2 DEF IInv, PageIsListed
    <3>. QED
      BY <2>1, <2>2, <3>3 DEF PageIsListed
  <2>. QED
    BY <2>1, <2>2, <2>3 DEF IInv, FiniteListing, AnnouncedIsSeen, PolledOnce
<1>3. ASSUME NEW p \in Polls, PollAnswers(p)
      PROVE  FiniteListing' /\ PageIsListed' /\ AnnouncedIsSeen' /\ PolledOnce'
  <2> DEFINE page == poll[p].page
             fresh == Fresh(app.lastSeen, page)
  <2>1. /\ stored' = stored
        /\ polled' = [r \in Reports |-> polled[r] + IF r \in fresh THEN 1 ELSE 0]
        /\ \A q \in Polls : poll'[q] = poll[q] \/ poll'[q].page = <<>>
        /\ app'.lastSeen = IF fresh = {} THEN app.lastSeen ELSE stored[page[1]]
    BY <1>3 DEF PollAnswers, Position, NoPoll, TypeOK, AppType
  <2>2. Listed' = Listed
    BY <2>1 DEF Listed
  <2>3. /\ page \in Seq(Reports)
        /\ \A i \in DOMAIN page : page[i] \in Listed /\ stored[page[i]] <= stored[page[1]]
    BY DEF TypeOK, IInv, PageIsListed
  <2>4. \A r \in fresh : /\ r \in Listed /\ stored[r] > app.lastSeen
                        /\ stored[r] <= stored[page[1]]
    BY <2>3 DEF Fresh
  <2>5. fresh # {} => page[1] \in Reports
    <3>1. fresh # {} => 1 \in DOMAIN page
      BY <2>3, LenProperties DEF Fresh
    <3>. QED
      BY <2>3, <3>1 DEF Listed
  <2> HIDE DEF fresh, page
  <2>6. app'.lastSeen >= app.lastSeen /\ app'.lastSeen \in Nat
    <3>1. CASE fresh = {}
      BY <1>0, <2>1, <3>1
    <3>2. CASE fresh # {}
      <4>1. PICK r \in fresh : TRUE
        BY <3>2
      <4>2. r \in Reports /\ stored[r] \in Nat /\ stored[page[1]] \in Nat
        BY <2>4, <2>5, <3>2 DEF Listed
      <4>. QED
        BY <1>0, <2>1, <2>4, <3>2, <4>2
    <3>. QED
      BY <3>1, <3>2
  <2>7. ASSUME NEW r \in Reports
        PROVE  /\ polled'[r] > 0 => r \in Listed /\ stored[r] <= app'.lastSeen
               /\ polled'[r] <= 1
    <3>0. polled[r] \in Nat /\ polled[r] <= 1 /\ stored[r] \in Nat
      BY DEF TypeOK, IInv, PolledOnce
    <3>1. CASE r \in fresh
      <4>1. app'.lastSeen = stored[page[1]]
        BY <2>1, <3>1
      <4>2. ~(polled[r] > 0)
        BY <1>0, <2>4, <3>0, <3>1 DEF IInv, AnnouncedIsSeen
      <4>3. polled'[r] = polled[r] + 1
        BY <2>1, <3>1
      <4>. QED
        BY <2>4, <3>0, <3>1, <4>1, <4>2, <4>3
    <3>2. CASE r \notin fresh
      <4>1. polled'[r] = polled[r]
        BY <2>1, <3>0, <3>2
      <4>. QED
        BY <1>0, <2>6, <3>0, <4>1 DEF IInv, AnnouncedIsSeen
    <3>. QED
      BY <3>1, <3>2
  <2>8. PageIsListed'
    BY <2>1, <2>2 DEF IInv, PageIsListed
  <2>. QED
    BY <2>1, <2>2, <2>7, <2>8 DEF IInv, FiniteListing, AnnouncedIsSeen, PolledOnce
<1>4. CASE /\ stored' = stored /\ polled' = polled
           /\ app'.lastSeen = app.lastSeen /\ poll' = poll
  <2>1. Listed' = Listed
    BY <1>4 DEF Listed
  <2>. QED
    BY <1>4, <2>1 DEF IInv, FiniteListing, PageIsListed, AnnouncedIsSeen, PolledOnce
<1>. QED
  BY <1>1, <1>2, <1>3, <1>4, AppStep, PollTypes
     DEF Next, Publish, Subscribe, Leave, NextItem, Connected, Refused, Break, Reconnect

-----------------------------------------------------------------------------
(* What the feed and the fallback promise.                                 *)

\* Every step keeps the invariant.
LEMMA InvStep == IInv /\ [Next]_vars => IInv'
<1> SUFFICES ASSUME IInv, [Next]_vars PROVE IInv'
  OBVIOUS
<1>1. CASE UNCHANGED vars
  BY <1>1 DEF vars, IInv, TypeOK, QueuesAreSubscribed, Subscribed, HeldIsOwed, GapsAreMarked,
     FiniteListing, Listed, PageIsListed, AnnouncedIsSeen, PolledOnce
<1>2. CASE Next
  <2>1. FeedOK
    BY DEF IInv, TypeOK, FeedOK, FeedAt, QueuesAreSubscribed, HeldIsOwed, GapsAreMarked
  <2>2. FeedOK'
    BY <1>2, <2>1, FeedStep DEF IInv, TypeOK
  <2>3. TypeOK'
    BY <1>2, <2>2, AppStep, PollTypes, CountersStep DEF TypeOK, FeedOK, FeedAt
  <2>4. QueuesAreSubscribed' /\ HeldIsOwed' /\ GapsAreMarked'
    BY <2>2 DEF FeedOK, FeedAt, QueuesAreSubscribed, HeldIsOwed, GapsAreMarked
  <2>. QED
    BY <1>2, <2>3, <2>4, PollStep DEF IInv
<1>. QED
  BY <1>1, <1>2

\* The invariant holds in every state of every behaviour.
THEOREM StreamInvariant == Spec => []IInv
  BY InvInit, InvStep, PTL DEF Spec

\* For every queue limit and any number of subscribers: whoever is owed more than its
\* queue holds will read of it (broker.py:60-76).
THEOREM GapsAreAnnounced == Spec => []GapIsAnnounced
<1>1. IInv => GapIsAnnounced
  BY DEF IInv, GapsAreMarked, HoldsMarker, GapIsAnnounced
<1>. QED
  BY <1>1, StreamInvariant, PTL

\* For every page size, any clocks, also equal ones, and any number of polls whose pages
\* overtake each other: the fallback announces a report once
\* (voice_reports_sse.dart:193-228).
THEOREM PollsAnnounceOnce == Spec => []PolledOnce
<1>1. IInv => PolledOnce
  BY DEF IInv
<1>. QED
  BY <1>1, StreamInvariant, PTL
=============================================================================
