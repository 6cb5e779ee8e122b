---------------------------- MODULE RateLimiter ----------------------------
(***************************************************************************)
(* The HTTP gateway's rate limiter (src/forge/src/gateway/http.rs): a      *)
(* fixed window per client address, opened by the first call that finds    *)
(* none or an old one, and a sweeper that forgets old windows.             *)
(*                                                                         *)
(* Both take the map's mutex for their whole body, so each is one action.  *)
(* A window is kept with its age in ticks; from the age of Window on, all  *)
(* the code asks is whether it is over, so the age stops there.            *)
(***************************************************************************)
EXTENDS Naturals

CONSTANTS
    Clients,        \* client addresses
    NoEntry,        \* the map has no entry for the client
    MaxPerMinute,   \* rate_limit_per_minute; 0 means no limiter
    Window          \* sixty seconds, in ticks

VARIABLE entries    \* client -> its RateLimitEntry

\* The count goes one past the limit and, for all that is decided, stops there.
RateLimitEntries == [ count : 1 .. MaxPerMinute + 1, age : 0 .. Window ]

ASSUME RateLimiterAssumption ==
    /\ MaxPerMinute \in Nat
    /\ Window \in Nat \ { 0 }
    /\ NoEntry \notin RateLimitEntries

RateLimiterTypeOK == entries \in [ Clients -> RateLimitEntries \cup { NoEntry } ]

NewRateLimiter == entries = [ ip \in Clients |-> NoEntry ]

\* Mutant: the window is over behind its length, not at it.
IsOverLate(e) == e.age > Window
IsOver(e) == e.age >= Window
Raised(e) == [ e EXCEPT !.count = IF @ <= MaxPerMinute THEN @ + 1 ELSE @ ]

\* The entry `check` leaves: inserted, or restarted when its window is over,
\* and counted in either case, an admitted call and a refused one alike.
Checked(ip) ==
    IF entries[ip] = NoEntry \/ IsOver(entries[ip])
    THEN [ count |-> 1, age |-> 0 ]
    ELSE Raised(entries[ip])

Admits(ip) == MaxPerMinute = 0 \/ Checked(ip).count <= MaxPerMinute

Check(ip) ==
    entries' = IF MaxPerMinute = 0 THEN entries ELSE [ entries EXCEPT ![ip] = Checked(ip) ]

\* Mutant: the sweeper forgets every entry.
SweptAll(e) == NoEntry

\* One round of the sweeper's task.
Swept(e) == IF e # NoEntry /\ IsOver(e) THEN NoEntry ELSE e
Sweep == entries' = [ ip \in Clients |-> Swept(entries[ip]) ]

Older(e) == IF e # NoEntry /\ ~IsOver(e) THEN [ e EXCEPT !.age = @ + 1 ] ELSE e
Ages == entries' = [ ip \in Clients |-> Older(entries[ip]) ]
=============================================================================
