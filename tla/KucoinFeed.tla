------------------------------ MODULE KucoinFeed ------------------------------
(***************************************************************************)
(* cex.KucoinFeed: one goroutine per symbol that asks for its book over    *)
(* REST, then waits for its ticker, for as long as the process context     *)
(* lasts.  Time is relative, as in BinanceFeed: countdowns and ages.       *)
(***************************************************************************)
EXTENDS Integers

CONSTANTS Symbols,       \* f.symbols
          MaxBookAge,    \* cfg.MaxBookAge, up to which a runner uses a book
          PollInterval,  \* f.interval, at least 2 s
          FetchTimeout   \* of the HTTP client, 10 s

VARIABLES link,          \* the exchange can be reached
          cancelled,     \* the process context is done
          cache,         \* f.cache: by symbol, [conn, age]; conn 0: no book yet
          poller,        \* where the goroutine of a symbol is
          fetchLeft,     \* until its request times out
          tickLeft,      \* until its ticker fires
          ticked         \* a tick waits in the ticker's channel, which holds one

pollVars == <<poller, fetchLeft, tickLeft, ticked>>
kucoinVars == <<link, cancelled, cache, pollVars>>

NoBook == [conn |-> 0, age |-> 0]
Old == MaxBookAge + 1    \* ages from here on are all the same

\* Every book of this feed names the same connection, "kucoin-rest".
Fresh == [conn |-> 1, age |-> 0]

\* Start: the ticker runs from the moment the first request leaves.
Init ==
    /\ link = "up"
    /\ cancelled = FALSE
    /\ cache = [s \in Symbols |-> NoBook]
    /\ poller = [s \in Symbols |-> "fetch"]
    /\ fetchLeft = [s \in Symbols |-> FetchTimeout]
    /\ tickLeft = [s \in Symbols |-> PollInterval]
    /\ ticked = [s \in Symbols |-> FALSE]

Less(n) == IF n > 0 THEN n - 1 ELSE 0
Aged(b) == IF b.conn = 0 \/ b.age = Old THEN b ELSE [b EXCEPT !.age = @ + 1]

Elapse ==
    /\ cache' = [s \in Symbols |-> Aged(cache[s])]
    /\ fetchLeft' = [s \in Symbols |-> Less(fetchLeft[s])]
    /\ tickLeft' = [s \in Symbols |-> IF poller[s] = "ended" THEN tickLeft[s]
                                      ELSE IF tickLeft[s] = 1 THEN PollInterval
                                      ELSE tickLeft[s] - 1]
    /\ ticked' = [s \in Symbols |-> ticked[s] \/ (poller[s] # "ended" /\ tickLeft[s] = 1)]
    /\ UNCHANGED <<link, cancelled, poller>>

LinkBreaks == link = "up" /\ link' = "down" /\ UNCHANGED <<cancelled, cache, pollVars>>
LinkHeals == link = "down" /\ link' = "up" /\ UNCHANGED <<cancelled, cache, pollVars>>
Cancel == ~cancelled /\ cancelled' = TRUE /\ UNCHANGED <<link, cache, pollVars>>

(***************************************************************************)
(* fetch.                                                                  *)
(***************************************************************************)
Fetched(s, place) ==
    /\ poller' = [poller EXCEPT ![s] = place]
    /\ fetchLeft' = [fetchLeft EXCEPT ![s] = 0]
    /\ UNCHANGED <<link, cancelled, tickLeft, ticked>>

\* The stamp is the time of the answer, however long it took.
StampOfRequest(s) == [conn |-> 1, age |-> FetchTimeout - fetchLeft[s]]
StampOfAnswer(s) == Fresh

\* Also when the context ends while the answer is on its way.
FetchAnswers(s) ==
    /\ poller[s] = "fetch"
    /\ link = "up"
    /\ fetchLeft[s] > 0
    /\ cache' = [cache EXCEPT ![s] = StampOfAnswer(s)]
    /\ Fetched(s, "select")

\* Out of reach, refused, not a book, or timed out.
FetchFails(s) ==
    /\ poller[s] = "fetch"
    /\ ~cancelled
    /\ Fetched(s, "select")
    /\ UNCHANGED cache

FetchCancelled(s) ==
    /\ poller[s] = "fetch"
    /\ cancelled
    /\ Fetched(s, "ended")
    /\ UNCHANGED cache

(***************************************************************************)
(* select on ctx.Done and the ticker: either, when both are ready.  A      *)
(* request under a context that is done fails before it is sent.           *)
(***************************************************************************)
NextPoll(s) ==
    /\ poller[s] = "select"
    /\ ticked[s]
    /\ ticked' = [ticked EXCEPT ![s] = FALSE]
    /\ poller' = [poller EXCEPT ![s] = "fetch"]
    /\ fetchLeft' = [fetchLeft EXCEPT ![s] = IF cancelled THEN 0 ELSE FetchTimeout]
    /\ UNCHANGED <<link, cancelled, cache, tickLeft>>

PollStops(s) ==
    /\ poller[s] = "select"
    /\ cancelled
    /\ poller' = [poller EXCEPT ![s] = "ended"]
    /\ UNCHANGED <<link, cancelled, cache, fetchLeft, tickLeft, ticked>>

Poller(s) == FetchAnswers(s) \/ FetchFails(s) \/ FetchCancelled(s)
                 \/ NextPoll(s) \/ PollStops(s)

Next == (\E s \in Symbols : Poller(s)) \/ Elapse \/ LinkBreaks \/ LinkHeals \/ Cancel

Spec == Init /\ [][Next]_kucoinVars

TypeOK ==
    /\ poller \in [Symbols -> {"fetch", "select", "ended"}]
    /\ fetchLeft \in [Symbols -> 0 .. FetchTimeout]
    /\ tickLeft \in [Symbols -> 1 .. PollInterval]
    /\ ticked \in [Symbols -> BOOLEAN]
    /\ cache \in [Symbols -> [conn : {0, 1}, age : 0 .. Old]]
===============================================================================
