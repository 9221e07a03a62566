--------------------------- MODULE LoginThrottle ---------------------------
(***************************************************************************)
(* The failed-login throttle of internal/browserauth/security.go: a table  *)
(* of failure counters kept in process memory, one entry per case-folded   *)
(* username.  Every operation runs under the table's mutex, so each is one *)
(* function of the table and of the time the request captured when it      *)
(* began.  Times are positive; 0 is Go's zero time.                        *)
(***************************************************************************)
EXTENDS Integers, FiniteSets

CONSTANTS Keys,          \* case-folded usernames
          Window,        \* LockoutConfig.Window
          MaxFailures,   \* LockoutConfig.MaxFailures
          Lockout,       \* LockoutConfig.Lockout
          Minute,        \* time.Minute, the longest pause between two cleanups
          MaxEntries     \* maxLoginFailureEntries

\* LockoutConfig.validate refuses bounds that are not positive.
ASSUME LockoutAssumption ==
    /\ {Window, MaxFailures, Lockout, Minute} \subseteq Nat \ {0}
    /\ MaxEntries \in Nat
    /\ IsFiniteSet(Keys)

Never == 0

Entry == [count : Nat, first : Nat, lockedUntil : Nat]

\* A missing map entry reads as the zero value; a stored one has a count.
NoEntry == [count |-> 0, first |-> Never, lockedUntil |-> Never]
Failures == [entries : [Keys -> Entry], lastCleanup : Nat]
Known(f) == {k \in Keys : f.entries[k] # NoEntry}

NewFailures == [entries |-> [k \in Keys |-> NoEntry], lastCleanup |-> Never]

CleanupPause == CHOOSE p \in {Minute, Window, Lockout} :
                    \A q \in {Minute, Window, Lockout} : p <= q

\* Past its lock, or unlocked and past its window, an entry is stale.
Stale(e, now) == IF e.lockedUntil # Never THEN e.lockedUntil <= now
                                          ELSE e.first + Window <= now

Cleanup(f, now) ==
    IF f.lastCleanup # Never /\ now - f.lastCleanup < CleanupPause
    THEN f
    ELSE [entries |-> [k \in Keys |-> IF Stale(f.entries[k], now) THEN NoEntry ELSE f.entries[k]],
          lastCleanup |-> now]

\* What blocked answers, and the table it leaves behind.
IsBlocked(f, k, now) == Cleanup(f, now).entries[k].lockedUntil > now
AfterBlocked(f, k, now) ==
    LET g == Cleanup(f, now)
    IN  [g EXCEPT !.entries[k] = IF @.lockedUntil # Never /\ @.lockedUntil <= now
                                 THEN NoEntry ELSE @]

\* A failure opens a new window when there is none, when the last one is
\* over, or when the entry is a lock that has run out.
Opened(e, now) ==
    IF e.first = Never \/ e.first + Window <= now \/ e.lockedUntil # Never
    THEN [NoEntry EXCEPT !.first = now] ELSE e
\* Mutant: one failure more than allowed before the lock.
Bug_Counted(e, now) ==
    [e EXCEPT !.count = @ + 1,
              !.lockedUntil = IF e.count >= MaxFailures THEN now + Lockout ELSE @]
Counted(e, now) ==
    [e EXCEPT !.count = @ + 1,
              !.lockedUntil = IF e.count + 1 >= MaxFailures THEN now + Lockout ELSE @]

\* A full table takes no new name: the failures of further names go uncounted.
Full(f, k, now) ==
    LET known == Known(Cleanup(f, now))
    IN  k \notin known /\ Cardinality(known) >= MaxEntries
AfterFail(f, k, now) ==
    LET g == Cleanup(f, now)
    IN  IF g.entries[k].lockedUntil > now \/ Full(f, k, now)
        THEN g
        ELSE [g EXCEPT !.entries[k] = Counted(Opened(@, now), now)]

AfterClear(f, k) == [f EXCEPT !.entries[k] = NoEntry]
=============================================================================
