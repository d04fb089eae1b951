-------------------------------- MODULE Feeds --------------------------------
(***************************************************************************)
(* The two cex.Feed implementations under the process context, against     *)
(* what the runners expect of either.  The feeds share nothing but the     *)
(* context and the network, so a behaviour is about one of them.           *)
(***************************************************************************)
EXTENDS Integers

CONSTANTS Symbols, MaxBookAge,
          IdleLimit, BackoffLimit, MaxConns,   \* BinanceFeed
          PollInterval, FetchTimeout           \* KucoinFeed

\* A feed that is started has the symbols of the pairs it was made for; one
\* without symbols only probes listings, and is never started (main.go:158-193).
ASSUME FeedsAssumption ==
    /\ Symbols # {}
    /\ {MaxBookAge, MaxConns} \subseteq Nat
    /\ {IdleLimit, BackoffLimit, PollInterval, FetchTimeout} \subseteq Nat \ {0}

VARIABLES venue,         \* the feed this behaviour is about
          link, cancelled, cache,
          run, connSeq, alive, closed, idleLeft, backoff, waitLeft, watchers,
          poller, fetchLeft, tickLeft, ticked

B == INSTANCE BinanceFeed
K == INSTANCE KucoinFeed

streamVars == <<run, connSeq, alive, closed, idleLeft, backoff, waitLeft, watchers>>
pollVars == <<poller, fetchLeft, tickLeft, ticked>>
vars == <<venue, link, cancelled, cache, streamVars, pollVars>>

Init == venue \in {"binance", "kucoin"} /\ B!Init /\ K!Init

Streams(A) == venue = "binance" /\ A /\ UNCHANGED <<venue, pollVars>>
Polls(A) == venue = "kucoin" /\ A /\ UNCHANGED <<venue, streamVars>>

Next ==
    \/ Streams(B!Dial) \/ Streams(B!DialFails)
    \/ Streams(B!ReadFails) \/ Streams(B!ServerCloses)
    \/ Streams(B!BackoffOver) \/ Streams(B!BackoffCancelled)
    \/ \E s \in Symbols : Streams(B!BookReceived(s))
    \/ Streams(B!MessageSkipped)
    \/ \E w \in watchers : Streams(B!WatcherCloses(w)) \/ Streams(B!WatcherDone(w))
    \/ Streams(B!Elapse)
    \/ Streams(B!LinkBreaks) \/ Streams(B!LinkHeals) \/ Streams(B!ConnectionDies)
    \/ Streams(B!Cancel)
    \/ \E s \in Symbols :
           \/ Polls(K!FetchAnswers(s)) \/ Polls(K!FetchFails(s)) \/ Polls(K!FetchCancelled(s))
           \/ Polls(K!NextPoll(s)) \/ Polls(K!PollStops(s))
    \/ Polls(K!Elapse)
    \/ Polls(K!LinkBreaks) \/ Polls(K!LinkHeals) \/ Polls(K!Cancel)

Spec == Init /\ [][Next]_vars

\* Time goes on, the goroutines are scheduled, a stream that delivers sends
\* the book of every symbol, and an exchange within reach does not refuse every
\* request.  The network need never heal,
\* and a connection that died stays dead.
FairSpec ==
    /\ Spec
    /\ WF_vars(Streams(B!Elapse))
    /\ \A s \in Symbols : WF_vars(Streams(B!BookReceived(s)))
    /\ WF_vars(Streams(B!Goroutine))
    /\ WF_vars(Streams(B!Watcher))
    /\ WF_vars(Polls(K!Elapse))
    /\ \A s \in Symbols : WF_vars(Polls(K!Poller(s)))
    /\ \A s \in Symbols : SF_vars(Polls(K!FetchAnswers(s)))

(***************************************************************************)
(* Properties.                                                             *)
(***************************************************************************)
TypeOK == IF venue = "binance" THEN B!TypeOK ELSE K!TypeOK

ConnIDsAreNew == B!ConnIDsAreNew
SilenceNoticed == B!SilenceNoticed

StreamOver == run = "ended" /\ watchers = {}
PollersOver == \A s \in Symbols : poller[s] = "ended"

\* Either feed gives the runners what PairRunner assumes of a feed: every book
\* that appears was received at the time of its stamp, it stays and ages until
\* the next, across reconnects, failed polls and late answers, and none appears
\* after the feed has ended (binance.go:197-200, kucoin.go:81, 105; cex.go:50-54).
Source == INSTANCE BookSource WITH
              age <- [s \in Symbols |-> IF cache[s].conn = 0 THEN -1 ELSE cache[s].age],
              ended <- IF venue = "binance" THEN run = "ended" ELSE PollersOver,
              Old <- MaxBookAge + 1
BookSpec == Source!Spec

\* Once the exchange stays reachable, new books of every symbol keep coming,
\* however often and long it was not reachable before, however many connections
\* died without a word, before or since, and however many requests failed or
\* timed out (binance.go:132-149, 180-202, kucoin.go:96-117).
BooksKeepComing ==
    \A s \in Symbols :
        <>[](link = "up" /\ ~cancelled) => []<>(cache[s].conn # 0 /\ cache[s].age = 0)

\* The end of the process context ends every goroutine of the feed, even one
\* that is blocked in a read or waiting for an answer, and even if a tick is
\* always ready (binance.go:132-149, 169-178, kucoin.go:101-116).
AllStop ==
    cancelled ~> IF venue = "binance" THEN StreamOver ELSE PollersOver
===============================================================================
