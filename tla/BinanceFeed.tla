------------------------------ MODULE BinanceFeed ------------------------------
(***************************************************************************)
(* cex.BinanceFeed: one goroutine that dials, reads and backs off for      *)
(* ever, a watcher goroutine per connection that closes it when the        *)
(* process context ends, and the book cache the runners read.              *)
(*                                                                         *)
(* Time is relative: countdowns for the timers, ages for the books, so     *)
(* that runs need no end.  A timer fires when its countdown is over or     *)
(* later.                                                                  *)
(***************************************************************************)
EXTENDS Integers

CONSTANTS Symbols,       \* f.symbols
          MaxBookAge,    \* cfg.MaxBookAge, up to which a runner uses a book
          IdleLimit,     \* the read deadline, 2 min
          BackoffLimit,  \* no more doubling from here on, 30 s
          MaxConns       \* bound: the last connection, which nothing breaks

VARIABLES link,          \* the exchange can be reached
          cancelled,     \* the process context is done
          run,           \* where the run goroutine is
          connSeq,       \* f.connSeq
          alive,         \* the exchange still sends on the current connection
          closed,        \* the watcher has closed the current connection
          idleLeft,      \* until the read deadline
          backoff,       \* run's local backoff
          waitLeft,      \* what is left of the backoff
          watchers,      \* connections whose watcher goroutine is alive
          cache          \* f.cache: by symbol, [conn, age]; conn 0: no book yet

feedVars == <<link, cancelled, run, connSeq, alive, closed, idleLeft, backoff, waitLeft,
              watchers, cache>>

NoBook == [conn |-> 0, age |-> 0]
Old == MaxBookAge + 1    \* ages from here on are all the same

Init ==
    /\ link = "up"
    /\ cancelled = FALSE
    /\ run = "dial"
    /\ connSeq = 0
    /\ alive = FALSE
    /\ closed = FALSE
    /\ idleLeft = 0
    /\ backoff = 1
    /\ waitLeft = 0
    /\ watchers = {}
    /\ cache = [s \in Symbols |-> NoBook]

(***************************************************************************)
(* The world.                                                              *)
(***************************************************************************)
Less(n) == IF n > 0 THEN n - 1 ELSE 0
Aged(b) == IF b.conn = 0 \/ b.age = Old THEN b ELSE [b EXCEPT !.age = @ + 1]

\* What the exchange sends on this connection arrives.
Delivers == run = "read" /\ alive /\ link = "up"

\* A book stream that delivers does so far more often than the read deadline.
Silent == ~Delivers \/ closed

Elapse ==
    /\ Silent \/ idleLeft > 1
    /\ idleLeft' = Less(idleLeft)
    /\ waitLeft' = Less(waitLeft)
    /\ cache' = [s \in Symbols |-> Aged(cache[s])]
    /\ UNCHANGED <<link, cancelled, run, connSeq, alive, closed, backoff, watchers>>

LinkBreaks ==
    /\ link = "up"
    /\ connSeq < MaxConns
    /\ link' = "down"
    /\ UNCHANGED <<cancelled, run, connSeq, alive, closed, idleLeft, backoff, waitLeft,
                   watchers, cache>>

\* A connection lasts through the outage, or has died of it.
LinkHeals ==
    /\ link = "down"
    /\ link' = "up"
    /\ UNCHANGED <<cancelled, run, connSeq, alive, closed, idleLeft, backoff, waitLeft,
                   watchers, cache>>

\* Without a word, whether the exchange is within reach or not: nothing more
\* will ever come on this connection, and its end will not either.
ConnectionDies ==
    /\ alive
    /\ connSeq < MaxConns
    /\ alive' = FALSE
    /\ UNCHANGED <<link, cancelled, run, connSeq, closed, idleLeft, backoff, waitLeft,
                   watchers, cache>>

Cancel ==
    /\ ~cancelled
    /\ cancelled' = TRUE
    /\ UNCHANGED <<link, run, connSeq, alive, closed, idleLeft, backoff, waitLeft, watchers, cache>>

(***************************************************************************)
(* streamOnce.                                                             *)
(***************************************************************************)
ReuseConnID == 1
NextConnID == connSeq + 1

Dial ==
    /\ run = "dial"
    /\ link = "up"
    /\ ~cancelled
    /\ run' = "read"
    /\ connSeq' = NextConnID
    /\ watchers' = watchers \cup {NextConnID}
    /\ alive' = TRUE
    /\ closed' = FALSE
    /\ idleLeft' = IdleLimit
    /\ UNCHANGED <<link, cancelled, backoff, waitLeft, cache>>

\* The loop after a stream: over, or asleep.
AfterStream ==
    IF cancelled
    THEN run' = "ended" /\ UNCHANGED waitLeft
    ELSE run' = "backoff" /\ waitLeft' = backoff

DialFails ==
    /\ run = "dial"
    /\ link = "down" \/ cancelled
    /\ AfterStream
    /\ UNCHANGED <<link, cancelled, connSeq, alive, closed, idleLeft, backoff, watchers, cache>>

\* ReadMessage returns a book; the next turn moves the deadline.  What was read
\* or buffered before the watcher closed the connection still comes.
BookReceived(s) ==
    /\ Delivers
    /\ cache' = [cache EXCEPT ![s] = [conn |-> connSeq, age |-> 0]]
    /\ idleLeft' = IdleLimit
    /\ UNCHANGED <<link, cancelled, run, connSeq, alive, closed, backoff, waitLeft, watchers>>

\* One that does not parse, names no symbol or has no positive prices.
MessageSkipped ==
    /\ Delivers
    /\ idleLeft' = IdleLimit
    /\ UNCHANGED <<link, cancelled, run, connSeq, alive, closed, backoff, waitLeft, watchers, cache>>

DeadlineUnset == FALSE
DeadlinePassed == idleLeft = 0

StreamEnds ==
    /\ run = "read"
    /\ AfterStream
    /\ alive' = FALSE
    /\ idleLeft' = 0
    /\ UNCHANGED <<link, cancelled, connSeq, closed, backoff, watchers, cache>>

\* After the deadline, or after the watcher has closed the connection.
ReadFails == StreamEnds /\ (DeadlinePassed \/ closed)

\* The exchange closes streams too, every 24 h at least.
ServerCloses == StreamEnds /\ connSeq < MaxConns

(***************************************************************************)
(* The watcher: select on ctx.Done and done.                               *)
(***************************************************************************)
StreamOver(w) == w # connSeq \/ run # "read"

CtxDoneUnheard == FALSE
CtxDone == cancelled

WatcherCloses(w) ==
    /\ w \in watchers
    /\ CtxDone
    /\ closed' = (closed \/ ~StreamOver(w))
    /\ watchers' = watchers \ {w}
    /\ UNCHANGED <<link, cancelled, run, connSeq, alive, idleLeft, backoff, waitLeft, cache>>

WatcherDone(w) ==
    /\ w \in watchers
    /\ StreamOver(w)
    /\ watchers' = watchers \ {w}
    /\ UNCHANGED <<link, cancelled, run, connSeq, alive, closed, idleLeft, backoff, waitLeft, cache>>

(***************************************************************************)
(* run.                                                                    *)
(***************************************************************************)
DoubledForEver == 2 * backoff
LongerBackoff == IF backoff < BackoffLimit THEN 2 * backoff ELSE backoff

\* The backoff is never reset, not even by a connection that lasted.
BackoffOver ==
    /\ run = "backoff"
    /\ waitLeft = 0
    /\ backoff' = LongerBackoff
    /\ run' = IF cancelled THEN "ended" ELSE "dial"
    /\ UNCHANGED <<link, cancelled, connSeq, alive, closed, idleLeft, waitLeft, watchers, cache>>

BackoffCancelled ==
    /\ run = "backoff"
    /\ cancelled
    /\ run' = "ended"
    /\ waitLeft' = 0
    /\ UNCHANGED <<link, cancelled, connSeq, alive, closed, idleLeft, backoff, watchers, cache>>

Goroutine == \/ Dial \/ DialFails
             \/ ReadFails
             \/ BackoffOver \/ BackoffCancelled

Message == (\E s \in Symbols : BookReceived(s)) \/ MessageSkipped

Watcher == \E w \in watchers : WatcherCloses(w) \/ WatcherDone(w)

World == Elapse \/ ServerCloses \/ LinkBreaks \/ LinkHeals \/ ConnectionDies \/ Cancel

Next == Goroutine \/ Message \/ Watcher \/ World

Spec == Init /\ [][Next]_feedVars

(***************************************************************************)
(* Properties.                                                             *)
(***************************************************************************)
TypeOK ==
    /\ link \in {"up", "down"}
    /\ cancelled \in BOOLEAN /\ alive \in BOOLEAN /\ closed \in BOOLEAN
    /\ run \in {"dial", "read", "backoff", "ended"}
    /\ connSeq \in Nat
    /\ idleLeft \in 0 .. IdleLimit
    /\ backoff \in 1 .. 2 * BackoffLimit - 1
    /\ waitLeft \in 0 .. backoff
    /\ watchers \subseteq 1 .. connSeq
    /\ cache \in [Symbols -> [conn : 0 .. connSeq, age : 0 .. Old]]

\* The id of a connection is on no book when it opens, so the provenance of a
\* sample names one connection, across any number of reconnects and whatever
\* the cache still holds from earlier ones (binance.go:59, 166, 197-200; README
\* "incremented on every reconnect").
ConnIDsAreNew ==
    [][run = "dial" /\ run' = "read" =>
           \A s \in Symbols : cache[s].conn < connSeq']_feedVars

\* A connection on which nothing comes any more is given up, whether it died or
\* the exchange is out of reach, and unless the exchange is heard on that very
\* connection again (binance.go:180-187).
SilenceNoticed == run = "read" /\ ~Delivers ~> run # "read" \/ Delivers
===============================================================================
