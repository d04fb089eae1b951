---------------------------- MODULE Feeds_proofs ----------------------------
(***************************************************************************)
(* Feeds for every set of symbols, every book age, deadline, backoff limit *)
(* and period: the types of both feeds, that connection ids are new, and   *)
(* that either feed implements BookSource.                                 *)
(***************************************************************************)
EXTENDS Feeds, TLAPS

\* A feed that reads has a connection, so no book is stored under the id 0 that
\* stands for no book: without it a received book could not be told from none.
ReadsFromAConnection == venue = "binance" /\ run = "read" => connSeq > 0

IInv == /\ venue \in {"binance", "kucoin"}
        /\ TypeOK
        /\ ReadsFromAConnection

LEMMA InitIInv == Init => IInv
<1> SUFFICES ASSUME Init
             PROVE  B!TypeOK /\ K!TypeOK
  BY DEF Init, IInv, TypeOK, ReadsFromAConnection, B!Init
<1> USE FeedsAssumption DEF Init
<1>1. cache \in [Symbols -> [conn : {0}, age : 0 .. MaxBookAge + 1]]
  BY DEF B!Init, B!NoBook
<1>2. B!TypeOK
  <2>1. cache \in [Symbols -> [conn : 0 .. connSeq, age : 0 .. B!Old]]
    BY <1>1 DEF B!Init, B!Old
  <2>2. /\ backoff \in 1 .. 2 * BackoffLimit - 1
        /\ waitLeft \in 0 .. backoff
        /\ idleLeft \in 0 .. IdleLimit
    BY DEF B!Init
  <2>3. QED BY <2>1, <2>2 DEF B!Init, B!TypeOK
<1>3. K!TypeOK
  BY <1>1 DEF K!Init, K!TypeOK, K!Old
<1>4. QED BY <1>2, <1>3

\* A book that grows older keeps its connection and stays a book.
LEMMA AgedTypes ==
    ASSUME NEW C, NEW b \in [conn : C, age : 0 .. B!Old]
    PROVE  /\ B!Aged(b) \in [conn : C, age : 0 .. B!Old]
           /\ B!Aged(b).conn = b.conn
           /\ B!Aged(b).age = IF b.conn = 0 \/ b.age = B!Old THEN b.age ELSE b.age + 1
<1>1. CASE b.conn = 0 \/ b.age = B!Old
  BY <1>1 DEF B!Aged
<1>2. CASE ~(b.conn = 0 \/ b.age = B!Old)
  <2>1. B!Aged(b) = [conn |-> b.conn, age |-> b.age + 1]
    BY <1>2 DEF B!Aged
  <2>2. b.age + 1 \in 0 .. B!Old
    BY <1>2, FeedsAssumption DEF B!Old
  <2>3. QED BY <1>2, <2>1, <2>2
<1>3. QED BY <1>1, <1>2

\* What follows a stream: the end or the backoff.
LEMMA AfterStreamTypes ==
    ASSUME B!TypeOK, B!AfterStream, UNCHANGED backoff
    PROVE  /\ run' \in {"ended", "backoff"}
           /\ waitLeft' \in 0 .. backoff
  BY FeedsAssumption DEF B!TypeOK, B!AfterStream

LEMMA StreamKeeps ==
    ASSUME B!TypeOK, B!Next
    PROVE  B!TypeOK'
<1> USE FeedsAssumption DEF B!TypeOK
<1>1. CASE B!Dial
  <2>1. connSeq' = connSeq + 1 /\ watchers' = watchers \cup {connSeq + 1}
    BY <1>1 DEF B!Dial, B!NextConnID
  <2>2. watchers' \subseteq 1 .. connSeq'
    BY <2>1
  <2>3. cache' = cache /\ 0 .. connSeq \subseteq 0 .. connSeq'
    BY <1>1, <2>1 DEF B!Dial
  <2>4. cache' \in [Symbols -> [conn : 0 .. connSeq', age : 0 .. B!Old]]
    BY <2>3
  <2>5. connSeq' \in Nat /\ idleLeft' \in 0 .. IdleLimit /\ waitLeft' \in 0 .. backoff'
    BY <1>1, <2>1 DEF B!Dial
  <2>6. QED BY <1>1, <2>2, <2>4, <2>5 DEF B!Dial
<1>2. CASE B!DialFails
  BY <1>2, AfterStreamTypes DEF B!DialFails
<1>3. CASE B!StreamEnds
  <2>1. run' \in {"ended", "backoff"} /\ waitLeft' \in 0 .. backoff
    BY <1>3, AfterStreamTypes DEF B!StreamEnds
  <2>2. /\ idleLeft' = 0 /\ alive' = FALSE /\ 0 \in 0 .. IdleLimit
        /\ UNCHANGED <<link, cancelled, connSeq, closed, backoff, watchers, cache>>
    BY <1>3 DEF B!StreamEnds
  <2>3. QED BY <2>1, <2>2
<1>4. CASE B!BackoffOver
  BY <1>4 DEF B!BackoffOver, B!LongerBackoff
<1>5. CASE B!BackoffCancelled
  BY <1>5 DEF B!BackoffCancelled
<1>6. ASSUME NEW s \in Symbols, B!BookReceived(s)
      PROVE  B!TypeOK'
  <2>1. [conn |-> connSeq, age |-> 0] \in [conn : 0 .. connSeq, age : 0 .. B!Old]
    BY DEF B!Old
  <2>2. QED BY <1>6, <2>1 DEF B!BookReceived
<1>7. CASE B!MessageSkipped
  BY <1>7 DEF B!MessageSkipped
<1>8. ASSUME NEW w \in watchers, B!WatcherCloses(w) \/ B!WatcherDone(w)
      PROVE  B!TypeOK'
  <2>1. closed' \in BOOLEAN
    BY <1>8 DEF B!WatcherCloses, B!WatcherDone
  <2>2. QED BY <1>8, <2>1 DEF B!WatcherCloses, B!WatcherDone
<1>9. CASE B!Elapse
  <2>1. cache' \in [Symbols -> [conn : 0 .. connSeq, age : 0 .. B!Old]]
    BY <1>9, AgedTypes DEF B!Elapse
  <2>2. idleLeft' \in 0 .. IdleLimit /\ waitLeft' \in 0 .. backoff
    BY <1>9 DEF B!Elapse, B!Less
  <2>3. QED BY <1>9, <2>1, <2>2 DEF B!Elapse
<1>10. CASE B!LinkBreaks \/ B!LinkHeals \/ B!ConnectionDies \/ B!Cancel
  BY <1>10 DEF B!LinkBreaks, B!LinkHeals, B!ConnectionDies, B!Cancel
<1>11. QED
  BY <1>1, <1>2, <1>3, <1>4, <1>5, <1>6, <1>7, <1>8, <1>9, <1>10
     DEF B!Next, B!Goroutine, B!Message, B!Watcher, B!World, B!ReadFails, B!ServerCloses

LEMMA PollKeeps ==
    ASSUME K!TypeOK, K!Next
    PROVE  K!TypeOK'
<1> USE FeedsAssumption DEF K!TypeOK
<1>1. ASSUME NEW s \in Symbols, K!FetchAnswers(s)
      PROVE  K!TypeOK'
  <2>1. K!Fresh \in [conn : {0, 1}, age : 0 .. K!Old]
    BY DEF K!Fresh, K!Old
  <2>2. QED BY <1>1, <2>1 DEF K!FetchAnswers, K!Fetched, K!StampOfAnswer
<1>2. ASSUME NEW s \in Symbols, K!FetchFails(s) \/ K!FetchCancelled(s)
      PROVE  K!TypeOK'
  <2>1. PICK place \in {"select", "ended"} : K!Fetched(s, place)
    BY <1>2 DEF K!FetchFails, K!FetchCancelled
  <2>2. cache' = cache
    BY <1>2 DEF K!FetchFails, K!FetchCancelled
  <2>3. QED BY <2>1, <2>2 DEF K!Fetched
<1>3. ASSUME NEW s \in Symbols, K!NextPoll(s)
      PROVE  K!TypeOK'
  BY <1>3 DEF K!NextPoll
<1>4. ASSUME NEW s \in Symbols, K!PollStops(s)
      PROVE  K!TypeOK'
  BY <1>4 DEF K!PollStops
<1>5. CASE K!Elapse
  <2>1. \A s \in Symbols : K!Aged(cache[s]) = B!Aged(cache[s])
    BY DEF K!Aged, B!Aged, K!Old, B!Old
  <2>2. cache' \in [Symbols -> [conn : {0, 1}, age : 0 .. K!Old]]
    <3>1. K!Old = B!Old
      BY DEF K!Old, B!Old
    <3>2. ASSUME NEW s \in Symbols
          PROVE  B!Aged(cache[s]) \in [conn : {0, 1}, age : 0 .. B!Old]
      BY <3>1, AgedTypes
    <3>3. QED BY <1>5, <2>1, <3>1, <3>2 DEF K!Elapse
  <2>3. fetchLeft' \in [Symbols -> 0 .. FetchTimeout]
    BY <1>5 DEF K!Elapse, K!Less
  <2>4. tickLeft' \in [Symbols -> 1 .. PollInterval]
    BY <1>5 DEF K!Elapse
  <2>5. ticked' \in [Symbols -> BOOLEAN]
    BY <1>5 DEF K!Elapse
  <2>6. QED BY <1>5, <2>2, <2>3, <2>4, <2>5 DEF K!Elapse
<1>6. CASE K!LinkBreaks \/ K!LinkHeals \/ K!Cancel
  BY <1>6 DEF K!LinkBreaks, K!LinkHeals, K!Cancel, K!pollVars
<1>7. QED
  BY <1>1, <1>2, <1>3, <1>4, <1>5, <1>6 DEF K!Next, K!Poller

LEMMA NextSplits ==
    Next => \/ venue = "binance" /\ B!Next /\ UNCHANGED <<venue, pollVars>>
            \/ venue = "kucoin" /\ K!Next /\ UNCHANGED <<venue, streamVars>>
  BY DEF Next, Streams, Polls, B!Next, B!Goroutine, B!Message, B!Watcher, B!World,
         B!ReadFails, B!ServerCloses, K!Next, K!Poller

\* Only Dial opens a connection, and it alone counts it.
LEMMA OnlyDialConnects ==
    ASSUME B!Next, ~B!Dial
    PROVE  connSeq' = connSeq /\ (run' = "read" => run = "read")
  BY DEF B!Next, B!Goroutine, B!Message, B!Watcher, B!World, B!DialFails,
         B!ReadFails, B!ServerCloses, B!StreamEnds, B!AfterStream, B!BackoffOver,
         B!BackoffCancelled, B!BookReceived, B!MessageSkipped, B!WatcherCloses,
         B!WatcherDone, B!Elapse, B!LinkBreaks, B!LinkHeals, B!ConnectionDies, B!Cancel

LEMMA StepIInv == IInv /\ [Next]_vars => IInv'
<1>1. IInv /\ UNCHANGED vars => IInv'
  BY DEF IInv, TypeOK, ReadsFromAConnection, vars, streamVars, pollVars, B!TypeOK, K!TypeOK
<1>2. ASSUME IInv, Next
      PROVE  IInv'
  <2>1. venue' = venue /\ TypeOK'
    BY <1>2, NextSplits, StreamKeeps, PollKeeps DEF IInv, TypeOK
  <2>2. ReadsFromAConnection'
    <3>1. CASE venue = "binance" /\ B!Next
      <4>1. CASE B!Dial
        BY <1>2, <3>1, <4>1 DEF B!Dial, B!NextConnID, ReadsFromAConnection, IInv,
                                TypeOK, B!TypeOK
      <4>2. CASE ~B!Dial
        BY <1>2, <2>1, <3>1, <4>2, OnlyDialConnects DEF ReadsFromAConnection, IInv
      <4>3. QED BY <4>1, <4>2
    <3>2. CASE venue = "kucoin"
      BY <2>1, <3>2 DEF ReadsFromAConnection
    <3>3. QED BY <1>2, <3>1, <3>2, NextSplits
  <2>3. QED BY <1>2, <2>1, <2>2 DEF IInv
<1>3. QED BY <1>1, <1>2

LEMMA Invariance == Spec => []IInv
  BY InitIInv, StepIInv, PTL DEF Spec

\* The types of either feed (binance.go:51-66, kucoin.go:18-40).
THEOREM FeedTypes == Spec => []TypeOK
  BY Invariance, PTL DEF IInv

\* The one step that opens a connection gives it an id that is on no cached book,
\* for any number of reconnects (binance.go:59, 166, 197-200).
THEOREM FeedConnIDsAreNew == Spec => ConnIDsAreNew
<1> DEFINE New == run = "dial" /\ run' = "read" => \A s \in Symbols : cache[s].conn < connSeq'
<1>1. ASSUME IInv, Next
      PROVE  New
  <2>1. CASE venue = "binance" /\ B!Next
    <3>1. CASE B!Dial
      BY <1>1, <2>1, <3>1 DEF B!Dial, B!NextConnID, IInv, TypeOK, B!TypeOK
    <3>2. CASE ~B!Dial
      BY <2>1, <3>2, OnlyDialConnects
    <3>3. QED BY <3>1, <3>2
  <2>2. CASE UNCHANGED streamVars
    BY <2>2 DEF streamVars
  <2>3. QED BY <1>1, <2>1, <2>2, NextSplits
<1>2. ASSUME UNCHANGED vars
      PROVE  New
  BY <1>2 DEF vars, streamVars
<1>3. IInv /\ [Next]_vars => [New]_(B!feedVars)
  BY <1>1, <1>2
<1>4. QED BY <1>3, Invariance, PTL DEF Spec, ConnIDsAreNew, B!ConnIDsAreNew

\* The two variables of BookSource, as Source reads them off the feeds.
AgeSeen == [s \in Symbols |-> IF cache[s].conn = 0 THEN -1 ELSE cache[s].age]
EndSeen == IF venue = "binance" THEN run = "ended" ELSE PollersOver

\* A received book is seen at age 0, and the others as they were.
LEMMA BookSeen ==
    ASSUME NEW s \in Symbols, NEW c \in Nat \ {0},
           cache' = [cache EXCEPT ![s] = [conn |-> c, age |-> 0]],
           DOMAIN cache = Symbols
    PROVE  AgeSeen' = [AgeSeen EXCEPT ![s] = 0]
  BY DEF AgeSeen

\* Time makes every book that is there a unit older, up to Old.
LEMMA BooksGrowOld ==
    ASSUME cache' = [s \in Symbols |-> B!Aged(cache[s])],
           \A s \in Symbols : cache[s] \in [conn : Nat, age : 0 .. B!Old],
           UNCHANGED EndSeen
    PROVE  Source!GrowOld
<1>1. ASSUME NEW s \in Symbols
      PROVE  AgeSeen'[s] = IF AgeSeen[s] \in {-1, MaxBookAge + 1} THEN AgeSeen[s]
                           ELSE AgeSeen[s] + 1
  <2>1. /\ cache'[s].conn = cache[s].conn
        /\ cache'[s].age = IF cache[s].conn = 0 \/ cache[s].age = B!Old THEN cache[s].age
                           ELSE cache[s].age + 1
    BY AgedTypes
  <2>2. QED BY <2>1 DEF AgeSeen, B!Old
<1>2. AgeSeen' = [s \in Symbols |-> IF AgeSeen[s] \in {-1, MaxBookAge + 1} THEN AgeSeen[s]
                                    ELSE AgeSeen[s] + 1]
  BY <1>1 DEF AgeSeen
<1>3. QED BY <1>2 DEF Source!GrowOld, Source!None, AgeSeen, EndSeen

\* What a step of the streaming feed is to the runners.
LEMMA StreamStep ==
    ASSUME IInv, B!Next, venue = "binance", venue' = venue
    PROVE  Source!Next \/ UNCHANGED <<AgeSeen, EndSeen>>
<1> USE DEF IInv, TypeOK, B!TypeOK
<1>1. ASSUME NEW s \in Symbols, B!BookReceived(s)
      PROVE  Source!Receive(s)
  <2>1. /\ connSeq \in Nat \ {0}
        /\ cache' = [cache EXCEPT ![s] = [conn |-> connSeq, age |-> 0]]
        /\ run = "read" /\ run' = run
    BY <1>1 DEF B!BookReceived, B!Delivers, ReadsFromAConnection
  <2>2. AgeSeen' = [AgeSeen EXCEPT ![s] = 0]
    BY <2>1, BookSeen
  <2>3. QED BY <2>1, <2>2 DEF Source!Receive, AgeSeen, EndSeen
<1>2. CASE B!Elapse
  <2>1. UNCHANGED EndSeen
    BY <1>2 DEF B!Elapse, EndSeen
  <2>2. \A s \in Symbols : cache[s] \in [conn : Nat, age : 0 .. B!Old]
    OBVIOUS
  <2>3. QED BY <1>2, <2>1, <2>2, BooksGrowOld DEF B!Elapse, Source!Next
<1>3. CASE ~B!Elapse /\ \A s \in Symbols : ~B!BookReceived(s)
  <2>1. cache' = cache /\ (run = "ended" => run' = "ended")
    BY <1>3 DEF B!Next, B!Goroutine, B!Message, B!Watcher, B!World, B!Dial, B!DialFails,
                B!ReadFails, B!ServerCloses, B!StreamEnds, B!AfterStream, B!BackoffOver,
                B!BackoffCancelled, B!MessageSkipped, B!WatcherCloses, B!WatcherDone,
                B!LinkBreaks, B!LinkHeals, B!ConnectionDies, B!Cancel
  <2>2. UNCHANGED AgeSeen
    BY <2>1 DEF AgeSeen
  <2>3. EndSeen' = TRUE \/ UNCHANGED EndSeen
    BY <2>1 DEF EndSeen
  <2>4. QED BY <2>2, <2>3 DEF Source!Next, Source!End, AgeSeen, EndSeen
<1>4. QED BY <1>1, <1>2, <1>3 DEF Source!Next

\* What a step of the polling feed is to them.
LEMMA PollStep ==
    ASSUME IInv, K!Next, venue = "kucoin", venue' = venue
    PROVE  Source!Next \/ UNCHANGED <<AgeSeen, EndSeen>>
<1> USE DEF IInv, TypeOK, K!TypeOK
<1>1. ASSUME NEW s \in Symbols, K!FetchAnswers(s)
      PROVE  Source!Receive(s)
  <2>1. cache' = [cache EXCEPT ![s] = [conn |-> 1, age |-> 0]]
    BY <1>1 DEF K!FetchAnswers, K!StampOfAnswer, K!Fresh
  <2>2. poller[s] = "fetch" /\ poller'[s] = "select"
    BY <1>1 DEF K!FetchAnswers, K!Fetched
  <2>3. AgeSeen' = [AgeSeen EXCEPT ![s] = 0]
    <3>1. DOMAIN cache = Symbols /\ 1 \in Nat \ {0}
      OBVIOUS
    <3>2. QED BY <2>1, <3>1, BookSeen
  <2>4. EndSeen = FALSE /\ EndSeen' = FALSE
    BY <2>2 DEF EndSeen, PollersOver
  <2>5. QED BY <2>3, <2>4 DEF Source!Receive, AgeSeen, EndSeen
<1>2. CASE K!Elapse
  <2>1. UNCHANGED EndSeen
    BY <1>2 DEF K!Elapse, EndSeen, PollersOver
  <2>2. \A s \in Symbols : cache[s] \in [conn : Nat, age : 0 .. B!Old]
    BY DEF K!Old, B!Old
  <2>3. cache' = [s \in Symbols |-> B!Aged(cache[s])]
    BY <1>2 DEF K!Elapse, K!Aged, B!Aged, K!Old, B!Old
  <2>4. QED BY <2>1, <2>2, <2>3, BooksGrowOld DEF Source!Next
<1>3. CASE ~K!Elapse /\ \A s \in Symbols : ~K!FetchAnswers(s)
  <2>1. cache' = cache
    BY <1>3 DEF K!Next, K!Poller, K!FetchFails, K!FetchCancelled, K!NextPoll, K!PollStops,
                K!LinkBreaks, K!LinkHeals, K!Cancel
  <2>2. \A s \in Symbols : poller[s] = "ended" => poller'[s] = "ended"
    BY <1>3 DEF K!Next, K!Poller, K!FetchFails, K!FetchCancelled, K!Fetched, K!NextPoll,
                K!PollStops, K!LinkBreaks, K!LinkHeals, K!Cancel, K!pollVars
  <2>3. UNCHANGED AgeSeen
    BY <2>1 DEF AgeSeen
  <2>4. EndSeen' = TRUE \/ UNCHANGED EndSeen
    BY <2>2 DEF EndSeen, PollersOver
  <2>5. QED BY <2>3, <2>4 DEF Source!Next, Source!End, AgeSeen, EndSeen
<1>4. QED BY <1>1, <1>2, <1>3 DEF K!Next, K!Poller, Source!Next

\* Either feed implements BookSource, whatever the link, the timers and the
\* context do (binance.go:125-202, kucoin.go:81-117; cex.go:50-54).
THEOREM FeedBooks == Spec => BookSpec
<1>1. ASSUME Init
      PROVE  Source!Init
  <2>1. \A s \in Symbols : cache[s].conn = 0
    BY <1>1 DEF Init, B!Init, B!NoBook
  <2>2. ~EndSeen
    BY <1>1, FeedsAssumption DEF Init, B!Init, K!Init, EndSeen, PollersOver
  <2>3. QED BY <2>1, <2>2 DEF Source!Init, Source!None, EndSeen
<1>2. ASSUME IInv, [Next]_vars
      PROVE  [Source!Next]_<<AgeSeen, EndSeen>>
  <2>1. CASE Next
    BY <1>2, <2>1, NextSplits, StreamStep, PollStep
  <2>2. CASE UNCHANGED vars
    BY <2>2 DEF vars, streamVars, pollVars, AgeSeen, EndSeen, PollersOver
  <2>3. QED BY <1>2, <2>1, <2>2
<1>3. QED
  BY <1>1, <1>2, Invariance, PTL DEF Spec, BookSpec, Source!Spec, AgeSeen, EndSeen
===============================================================================
