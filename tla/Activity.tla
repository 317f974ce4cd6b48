------------------------------ MODULE Activity -------------------------------
(***************************************************************************)
(* What a server remembers of its requests: the bounded log that all       *)
(* providers share (internal/logstore/logstore.go) and a key's history of  *)
(* the last minute (requestHistory in internal/keypool/keypool.go), with   *)
(* the handlers that write them (the end of executeProxy, /clear) and      *)
(* read them (/api/keys, /api/stats), in internal/server/handlers.go.      *)
(*                                                                         *)
(* The log is used under its own lock.  The history is used by requests    *)
(* that end under the lock of the pool, and by GET /api/keys, which trims  *)
(* it, under none.  A slice is two words, the array and the length, and    *)
(* whoever uses the history loads and stores them one by one, in an order  *)
(* that is the compiler's.  Keys have separate histories; this is the one  *)
(* of one key, in one pool.  The third word of a slice, its capacity, is   *)
(* left out, and so is the array that an append may find room in.          *)
(***************************************************************************)
EXTENDS Naturals, Sequences, FiniteSets

CONSTANTS Requests,         \* requests that are sent with the key
          Listings,         \* the GETs of /api/keys
          MaxLen,           \* what the log holds; 10000 in the program
          Window,           \* the minute, in ticks
          MaxTime           \* bound: ticks in a behaviour

Users == Requests \cup Listings

ASSUME ActivityAssumption ==
  Requests \cap Listings = {} /\ MaxLen \in Nat \ {0} /\ Window \in Nat \ {0} /\ MaxTime \in Nat \ {0}

VARIABLES logs,             \* the log
          history,          \* the slice: its array, empty if it is nil, and its length
          work,             \* who uses the history: the step, the words to do, what
                            \* is at hand and the time that was taken
          phase,            \* a request: "open", "counted", "logged"; "lost" if it
                            \* has panicked
          clock,            \* the time
          stats,            \* the total that /api/stats has taken, if it is at work
          \* history variables:
          countedAt,        \* when a request was counted
          logged,           \* all that was logged since the last clear
          suspect,          \* requests counted when a listing overlapped, or before
          overlapped,       \* a listing has overlapped with another user
          changed           \* what became of the log while /api/stats is at work

logVars == <<logs, logged, changed>>
windowVars == <<history, countedAt, suspect, overlapped>>
vars == <<logVars, windowVars, work, phase, clock, stats>>

Slice(s) == [array |-> s, length |-> Len(s)]
Nil == Slice(<<>>)
Words == {"array", "length"}
Idle == [step |-> "idle", todo |-> {}, slice |-> Nil, time |-> 0]

NoTotal == MaxLen + 1

Init ==
  /\ logs = <<>> /\ logged = <<>>
  /\ history = Nil
  /\ work = [u \in Users |-> Idle]
  /\ phase = [r \in Requests |-> "open"]
  /\ clock = 1
  /\ stats = NoTotal
  /\ countedAt = [r \in Requests |-> 0]
  /\ suspect = {} /\ overlapped = FALSE
  /\ changed = {}

------------------------------------------------------------------------------
(* The log.                                                                *)

Changed(how) == IF stats # NoTotal THEN changed \cup how ELSE changed

\* Mutant: one entry more is kept.
AppendCuttingLate(entry) ==
  /\ logs' = IF Len(logs) > MaxLen THEN Append(Tail(logs), entry) ELSE Append(logs, entry)
  /\ logged' = Append(logged, entry)
  /\ changed' = Changed(IF Len(logs) < MaxLen THEN {"grown"} ELSE {})

AppendLog(entry) ==
  /\ logs' = LET all == Append(logs, entry)
             IN IF Len(all) > MaxLen
                THEN SubSeq(all, Len(all) - MaxLen + 1, Len(all)) ELSE all
  /\ logged' = Append(logged, entry)
  /\ changed' = Changed(IF Len(logs) < MaxLen THEN {"grown"} ELSE {})

\* POST /clear.
Clear ==
  /\ logs' = <<>> /\ logged' = <<>>
  /\ changed' = Changed({"cleared"})
  /\ UNCHANGED <<windowVars, work, phase, clock, stats>>

\* Mutant: it takes the capacity.
StatsCap ==
  /\ stats = NoTotal
  /\ stats' = MaxLen
  /\ UNCHANGED <<logVars, windowVars, work, phase, clock>>

\* statsHandler takes the length, and then, with the lock taken again, a copy
\* of the entries, of which it reports the successes and the failures.
StatsLen ==
  /\ stats = NoTotal
  /\ stats' = Len(logs)
  /\ UNCHANGED <<logVars, windowVars, work, phase, clock>>

StatsSnapshot ==
  /\ stats # NoTotal
  /\ stats' = NoTotal /\ changed' = {}
  /\ UNCHANGED <<logs, logged, windowVars, work, phase, clock>>

------------------------------------------------------------------------------
(* The history.                                                            *)

\* The length of another slice, and no array: the first entry is at address 0.
Panics(slice) == slice.array = <<>> /\ slice.length > 0

\* The entries of a slice that does not panic.  Where the length is another
\* array's there is memory behind the array, which may read as young or as old.
Entries(slice, noise) ==
  [i \in 1 .. slice.length |->
     IF i <= Len(slice.array) THEN slice.array[i]
     ELSE [request |-> "none", time |-> IF noise THEN MaxTime + 1 ELSE 0]]

\* Times are in ticks after the zero time; a cutoff before the start is 0.
CutoffAt(time) == IF time > Window THEN time - Window ELSE 0
Cutoff == CutoffAt(clock)

\* The k-th of some indices, and the entries at some indices in their order.
Nth(S, k) == CHOOSE i \in S : Cardinality({j \in S : j <= i}) = k
Picked(s, S) == [k \in 1 .. Cardinality(S) |-> s[Nth(S, k)]]

\* CleanupOldRequests, on the slice that it has loaded; nil if nothing is kept.
\* Mutant: what is old is kept, and nothing else.
CleanedOfNew(slice, cutoff, noise) ==
  LET es == Entries(slice, noise)
  IN  Picked(es, {i \in DOMAIN es : es[i].time <= cutoff})

Cleaned(slice, cutoff, noise) ==
  LET es == Entries(slice, noise)
  IN  Picked(es, {i \in DOMAIN es : es[i].time > cutoff})

\* RequestsInLastMinute, and which they are.
RequestsInLastMinute ==
  {r \in Requests : \E i \in 1 .. history.length :
     i <= Len(history.array) /\ history.array[i].request = r
                             /\ history.array[i].time > Cutoff}

Busy == {u \in Users : work[u].step # "idle"}

\* A user that begins takes the time.
Start(u) ==
  /\ work' = [work EXCEPT ![u] = [Idle EXCEPT !.step = "load", !.todo = Words, !.time = clock]]
  /\ suspect' = IF Busy # {}
                THEN suspect \cup {r \in Requests : countedAt[r] > 0 \/ r \in Busy \cup {u}}
                ELSE suspect
  /\ overlapped' = (overlapped \/ (Busy # {} /\ (Busy \cup {u}) \cap Listings # {}))
  /\ UNCHANGED <<logVars, history, countedAt, phase, clock, stats>>

\* GET /api/keys reaches the key.  What it counts afterwards changes nothing.
BeginListing(l) == work[l].step = "idle" /\ Start(l)

\* Mutant: the lock is not taken.
CountUnlocked(r) == phase[r] = "open" /\ work[r].step = "idle" /\ Start(r)

\* A success, when its body has been passed on: IncrementRequestCount takes the
\* lock, and begins to clean up.
Count(r) == phase[r] = "open" /\ Busy \cap Requests = {} /\ Start(r)

\* The handler ends; a lock that it holds is released.
Panic(u) ==
  /\ work' = [work EXCEPT ![u] = Idle]
  /\ phase' = IF u \in Requests THEN [phase EXCEPT ![u] = "lost"] ELSE phase
  /\ UNCHANGED <<windowVars>>

\* What was loaded is cleaned up.
CleanUp(u, slice) ==
  /\ \E noise \in BOOLEAN :
       work' = [work EXCEPT ![u].step = "store", ![u].todo = Words,
                  ![u].slice = Slice(Cleaned(slice, CutoffAt(work[u].time), noise))]
  /\ UNCHANGED <<windowVars, phase>>

\* A request has cleaned up, loaded the slice again, and appends to it.
AppendTo(r, slice) ==
  /\ \E noise \in BOOLEAN :
       work' = [work EXCEPT ![r].step = "append", ![r].todo = Words,
                  ![r].slice = Slice(Append(Entries(slice, noise),
                                            [request |-> r, time |-> work[r].time]))]
  /\ countedAt' = [countedAt EXCEPT ![r] = work[r].time]
  /\ UNCHANGED <<history, suspect, overlapped, phase>>

\* A word of the slice is loaded; with both, the entries can be read.
Load(u, w) ==
  /\ work[u].step \in {"load", "reload"} /\ w \in work[u].todo
  /\ LET loaded == [work[u].slice EXCEPT ![w] = history[w]] IN
     \/ /\ work[u].todo # {w}
        /\ work' = [work EXCEPT ![u].todo = @ \ {w}, ![u].slice = loaded]
        /\ UNCHANGED <<windowVars, phase>>
     \/ work[u].todo = {w} /\ Panics(loaded) /\ Panic(u)
     \/ /\ work[u].todo = {w} /\ ~Panics(loaded)
        /\ IF work[u].step = "load" THEN CleanUp(u, loaded) ELSE AppendTo(u, loaded)
  /\ UNCHANGED <<logVars, clock, stats>>

\* Mutant: it is done when one word is stored.
StoreHalf(u, w) ==
  /\ work[u].step \in {"store", "append"} /\ w \in work[u].todo
  /\ history' = [history EXCEPT ![w] = work[u].slice[w]]
  /\ work' = [work EXCEPT ![u].todo = @ \ {w}]
  /\ UNCHANGED <<logVars, countedAt, suspect, overlapped, phase, clock, stats>>

\* A word is stored.  With the last one a listing is done, and a request goes on
\* to append, at the time it takes now, or is counted.
Store(u, w) ==
  /\ work[u].step \in {"store", "append"} /\ w \in work[u].todo
  /\ history' = [history EXCEPT ![w] = work[u].slice[w]]
  /\ work' = [work EXCEPT ![u] =
       IF work[u].todo # {w} THEN [work[u] EXCEPT !.todo = @ \ {w}]
       ELSE IF u \in Requests /\ work[u].step = "store"
            THEN [Idle EXCEPT !.step = "reload", !.todo = Words, !.time = clock]
            ELSE Idle]
  /\ phase' = IF work[u].step = "append" /\ work[u].todo = {w}
              THEN [phase EXCEPT ![u] = "counted"] ELSE phase
  /\ UNCHANGED <<logVars, countedAt, suspect, overlapped, clock, stats>>

------------------------------------------------------------------------------
(* The end of a request.                                                   *)

\* A client's error is passed on: it is logged and not counted.
EndRejected(r) ==
  /\ phase[r] = "open" /\ r \notin Busy
  /\ AppendLog([request |-> r, ok |-> FALSE])
  /\ phase' = [phase EXCEPT ![r] = "logged"]
  /\ UNCHANGED <<windowVars, work, clock, stats>>

\* A success is logged after it is counted.
LogSuccess(r) ==
  /\ phase[r] = "counted"
  /\ AppendLog([request |-> r, ok |-> TRUE])
  /\ phase' = [phase EXCEPT ![r] = "logged"]
  /\ UNCHANGED <<windowVars, work, clock, stats>>

\* MaxTime bounds the run.
Tick ==
  /\ clock < MaxTime
  /\ clock' = clock + 1
  /\ UNCHANGED <<logVars, windowVars, work, phase, stats>>

Next ==
  \/ \E r \in Requests : EndRejected(r) \/ Count(r) \/ LogSuccess(r)
  \/ \E l \in Listings : BeginListing(l)
  \/ \E u \in Users : \E w \in Words : Load(u, w) \/ Store(u, w)
  \/ Clear \/ StatsLen \/ StatsSnapshot \/ Tick

Spec == Init /\ [][Next]_vars

------------------------------------------------------------------------------
(* Properties.                                                             *)

Entry == [request : Requests, ok : BOOLEAN]
Times == 0 .. MaxTime + 1
Mark   == [request : Requests \cup {"none"}, time : Times]
Slices == [array : Seq(Mark), length : Nat]

Progress == [step : {"idle", "load", "store", "reload", "append"}, todo : SUBSET Words,
             slice : Slices, time : 0 .. MaxTime]

LogTypeOK ==
  /\ logs \in Seq(Entry) /\ logged \in Seq(Entry)
  /\ stats \in 0 .. MaxLen \cup {NoTotal}
  /\ changed \subseteq {"grown", "cleared"}

WindowTypeOK ==
  /\ history \in Slices
  /\ work \in [Users -> Progress]
  /\ \A u \in Busy : work[u].todo # {}
  /\ \A l \in Listings : work[l].step \in {"idle", "load", "store"}
  /\ \A r, q \in Busy \cap Requests : r = q /\ phase[r] = "open"
  /\ phase \in [Requests -> {"open", "counted", "logged", "lost"}]
  /\ clock \in 1 .. MaxTime
  /\ countedAt \in [Requests -> 0 .. MaxTime]
  /\ suspect \subseteq Requests /\ overlapped \in BOOLEAN

\* The fields have their types; who uses the history has words left to load or to
\* store until it is done, one request at a time does, and the total of /api/stats
\* is within the log's size.
TypeOK == LogTypeOK /\ WindowTypeOK

\* The log is the latest MaxLen entries of all that was logged since it was last
\* cleared, in the order they were logged, whoever logs, reads and clears
\* (logstore.go:27-35, 53-57).
LogIsRecent ==
  logs = SubSeq(logged, (IF Len(logged) > MaxLen THEN Len(logged) - MaxLen ELSE 0) + 1,
                Len(logged))

\* /api/stats takes the total and the entries one after the other
\* (handlers.go:615-616).  Its successes and failures add up to more than the
\* total, and its success rate may exceed 100 %, only when a log that was not
\* full has grown in between, and to less only when it was cleared.
StatsDiffer ==
  [][StatsSnapshot =>
       /\ Len(logs) > stats => "grown" \in changed
       /\ Len(logs) < stats => "cleared" \in changed]_vars

\* A success that is in the log is in its key's requests of the last minute until
\* it is that old (handlers.go:354-355), unless a listing overlapped its end or,
\* later, another listing or end (handlers.go:461).  A request whose end nobody
\* overlaps is counted, whatever earlier overlaps have left behind, if it gets
\* into the log at all.
LoggedIsCounted ==
  Busy = {} =>
    \A i \in DOMAIN logged :
      LET r == logged[i].request IN
        logged[i].ok /\ r \notin suspect /\ countedAt[r] > Cutoff
          => r \in RequestsInLastMinute

\* A success gets neither counted nor logged, because its handler panics
\* (keypool.go:120), only if a listing has overlapped with another or with the
\* end of a request: the words of two slices, one of them nil (keypool.go:119), are
\* never mixed by requests alone, nor by listings one after the other.
LostOnlyToOverlap == \A r \in Requests : phase[r] = "lost" => overlapped
==============================================================================
