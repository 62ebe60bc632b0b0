----------------------------- MODULE AttemptBook ----------------------------
(***************************************************************************)
(* The in-memory attempt book (token_service) and the verbs that ride it:  *)
(* login checks the identity's key and the address's before it asks the    *)
(* database and the credential port, and registers a failure on both or    *)
(* resets both afterwards; signup of a new email does the same but resets  *)
(* nothing; rotate checks and registers the address's key; redeem          *)
(* registers on both and checks neither.                                   *)
(*                                                                         *)
(* The book's mutex is held for one call of check, register_failure or     *)
(* reset: each is one action.  Between check and the outcome a call awaits,*)
(* so any number of calls may be past the check when a lock is set.  The   *)
(* clock is read where the method is called, before the mutex is taken, so *)
(* a call may enter the mutex with a reading that others have overtaken.   *)
(***************************************************************************)
EXTENDS Integers, FiniteSets

CONSTANTS
    Identity,     \* the keys portal|id:<email>
    Ip,           \* the keys portal|ip:<address>
    Request,      \* calls in flight
    ATTEMPT_MAX_FAILURES,
    ATTEMPT_LOCK_BASE,   \* in ticks, like the two below
    ATTEMPT_LOCK_CAP,
    ATTEMPT_SPACING,
    MaxDelay,     \* the longest a call holds a reading before it registers with it
    MaxTime,      \* the last tick of a run (a bound of the model)
    MaxCount,     \* the most failures of one key (a bound of the model)
    None

Key == Identity \cup Ip

ASSUME BookAssumption ==
    /\ {ATTEMPT_MAX_FAILURES, ATTEMPT_LOCK_BASE, ATTEMPT_LOCK_CAP} \subseteq Nat \ {0}
    /\ ATTEMPT_SPACING \in Nat
    /\ MaxTime \in Nat /\ MaxCount \in Nat
    /\ ATTEMPT_LOCK_BASE <= ATTEMPT_LOCK_CAP
    /\ MaxDelay \in Nat /\ MaxDelay < ATTEMPT_LOCK_BASE
    /\ None \notin Key
    /\ Identity \cap Ip = {}   \* the prefixes differ
    /\ IsFiniteSet(Request)

VARIABLES
    now,      \* Utc::now()
    entries,  \* the map; a key with no failures has no entry
    call,     \* what each request is doing
    (* history, read by properties only *)
    guesses   \* per identity, logins and signups refused since its last reset

vars == <<now, entries, call, guesses>>

-----------------------------------------------------------------------------
NoEntry == [failures |-> 0, locked_until |-> 0, last_attempt |-> 0]

(* locked_until = 0 stands for None: a lock always ends after tick 0. *)
Entry == [failures : Nat, locked_until : Nat, last_attempt : 0..MaxTime]

NoCall == [pc |-> "idle", verb |-> None, id |-> None, ip |-> None, stamp |-> 0]

(* stamp: the reading a check goes by; past the checks, the earliest the   *)
(* next reading can be.                                                    *)
Call == [pc : {"idle", "check_id", "check_ip", "verdict", "register_ip", "reset_ip"},
         verb : {"login", "signup", "rotate", "redeem", None},
         id : Identity \cup {None}, ip : Ip \cup {None}, stamp : 0..MaxTime]

TypeOK ==
    /\ now \in 0..MaxTime
    /\ entries \in [Key -> Entry]
    /\ call \in [Request -> Call]
    /\ guesses \in [Identity -> Nat]

Least(a, b) == IF a < b THEN a ELSE b
Most(a, b) == IF a > b THEN a ELSE b

(* lockout_until, the pure curve: how long the lock lasts.  The shift's    *)
(* exponent is cut at 16; the multiplication saturates far above the cap.  *)
LockSeconds(failures) ==
    Least(ATTEMPT_LOCK_BASE * 2 ^ Least(failures - ATTEMPT_MAX_FAILURES, 16), ATTEMPT_LOCK_CAP)

lockout_until(failures, t) ==
    IF failures < ATTEMPT_MAX_FAILURES THEN 0 ELSE t + LockSeconds(failures)

-----------------------------------------------------------------------------
(* The book's operations.                                                  *)

(* Slip: the lock kept in the book and not looked at. *)
LockedNever(k, t) == FALSE
Locked(k, t) == t < entries[k].locked_until

Spaced(k, t) == entries[k].failures > 0 /\ t - entries[k].last_attempt < ATTEMPT_SPACING

Refuses(k, t) == Locked(k, t) \/ Spaced(k, t)

(* t is the caller's reading.  Slips: the end of the spacing kept in place *)
(* of the attempt; the count begun anew with each lock.                    *)
BumpedAhead(k, t) ==
    LET n == entries[k].failures + 1 IN
    [failures |-> n, locked_until |-> lockout_until(n, t), last_attempt |-> t + 1]
BumpedAnew(k, t) ==
    LET n == entries[k].failures + 1 IN
    [failures |-> n % ATTEMPT_MAX_FAILURES, locked_until |-> lockout_until(n, t),
     last_attempt |-> t]
Bumped(k, t) ==
    LET n == entries[k].failures + 1 IN
    [failures |-> n, locked_until |-> lockout_until(n, t), last_attempt |-> t]

register_failure(k, t) ==
    /\ entries[k].failures < MaxCount
    /\ entries' = [entries EXCEPT ![k] = Bumped(k, t)]

reset(k) == entries' = [entries EXCEPT ![k] = NoEntry]

Init ==
    /\ now = 0
    /\ entries = [k \in Key |-> NoEntry]
    /\ call = [r \in Request |-> NoCall]
    /\ guesses = [i \in Identity |-> 0]

-----------------------------------------------------------------------------
At(r, pc) == call[r].pc = pc
Goto(r, pc) == call' = [call EXCEPT ![r].pc = pc, ![r].stamp = now]
Return(r) == call' = [call EXCEPT ![r] = NoCall]

Begin(r, pc, verb, i, a) ==
    /\ At(r, "idle")
    /\ call' = [call EXCEPT ![r] = [pc |-> pc, verb |-> verb, id |-> i, ip |-> a, stamp |-> now]]
    /\ UNCHANGED <<now, entries, guesses>>

(* verify_and_mint, and signup for an email nobody holds: the identity's   *)
(* check first.                                                            *)
BeginSignIn(r) ==
    \E i \in Identity, a \in Ip, verb \in {"login", "signup"} : Begin(r, "check_id", verb, i, a)

(* The route of rotate looks at the address only; a refusal of             *)
(* rotate_bearer is registered on it, a success resets nothing.            *)
BeginRotate(r) == \E a \in Ip : Begin(r, "check_ip", "rotate", None, a)

(* The route of redeem looks at neither key.                               *)
BeginRedeem(r) == \E i \in Identity, a \in Ip : Begin(r, "verdict", "redeem", i, a)

CheckId(r) ==
    LET i == call[r].id
        t == call[r].stamp IN
    /\ At(r, "check_id")
    /\ \/ Refuses(i, t) /\ Return(r)
       \/ ~Refuses(i, t) /\ call' = [call EXCEPT ![r].pc = "check_ip"]
    /\ UNCHANGED <<now, entries, guesses>>

(* Login checks the address by the reading it took for the identity,       *)
(* signup reads the clock again.                                           *)
CheckIp(r) ==
    LET a == call[r].ip IN
    /\ At(r, "check_ip")
    /\ \E t \in IF call[r].verb = "signup" THEN call[r].stamp..now ELSE {call[r].stamp} :
        \/ Refuses(a, t) /\ Return(r)
        \/ ~Refuses(a, t) /\ Goto(r, "verdict")
    /\ UNCHANGED <<now, entries, guesses>>

(* The readings of the clock a call may be registering with. *)
Readings(r) == Most(call[r].stamp, now - MaxDelay)..now

(* Refused: the failure is registered on the identity, then the address.   *)
Refused(r) ==
    /\ At(r, "verdict")
    /\ \E t \in Readings(r) :
        \/ /\ call[r].verb \in {"login", "signup"}
           /\ register_failure(call[r].id, t)
           /\ guesses' = [guesses EXCEPT ![call[r].id] = @ + 1]
           /\ Goto(r, "register_ip")
        \/ /\ call[r].verb = "redeem"
           /\ register_failure(call[r].id, t)
           /\ Goto(r, "register_ip")
           /\ UNCHANGED guesses
        \/ /\ call[r].verb = "rotate"
           /\ register_failure(call[r].ip, t)
           /\ Return(r)
           /\ UNCHANGED guesses
    /\ UNCHANGED now

RegisterIp(r) ==
    /\ At(r, "register_ip")
    /\ \E t \in Readings(r) : register_failure(call[r].ip, t)
    /\ Return(r)
    /\ UNCHANGED <<now, guesses>>

(* Accepted: login resets the identity's key, then the address's; signup   *)
(* resets nothing (NoVerdict).                                             *)
Accepted(r) ==
    /\ At(r, "verdict") /\ call[r].verb = "login"
    /\ reset(call[r].id)
    /\ guesses' = [guesses EXCEPT ![call[r].id] = 0]
    /\ Goto(r, "reset_ip")
    /\ UNCHANGED now

ResetIp(r) ==
    /\ At(r, "reset_ip")
    /\ reset(call[r].ip)
    /\ Return(r)
    /\ UNCHANGED <<now, guesses>>

(* No verdict: the port or the database failed, the client left; or      *)
(* signup, rotate or redeem succeeded, which touches no counter.           *)
NoVerdict(r) ==
    /\ At(r, "verdict")
    /\ Return(r)
    /\ UNCHANGED <<now, entries, guesses>>

Tick ==
    /\ now < MaxTime
    /\ now' = now + 1
    /\ UNCHANGED <<entries, call, guesses>>

Next ==
    \/ Tick
    \/ \E r \in Request :
        \/ BeginSignIn(r) \/ BeginRotate(r) \/ BeginRedeem(r) \/ CheckId(r) \/ CheckIp(r)
        \/ Refused(r) \/ RegisterIp(r) \/ Accepted(r) \/ ResetIp(r) \/ NoVerdict(r)

Spec == Init /\ [][Next]_vars

-----------------------------------------------------------------------------
(* Safety.                                                                 *)

(* The most that may be refused by now: the free attempts, and as many as  *)
(* calls can be in flight for each lock that has run out.  A lock is       *)
(* shorter than the base by what its reading was overtaken.                *)
Allowance ==
    ATTEMPT_MAX_FAILURES - 1
        + Cardinality(Request) * (1 + now \div (ATTEMPT_LOCK_BASE - MaxDelay))

(* Logins and signups, the verbs that check the identity's key: however    *)
(* many of them are past the check when a lock falls, with whatever        *)
(* readings they register, and whatever redeem registers meanwhile, those  *)
(* refused of one identity since its last success stay within the          *)
(* allowance.                                                              *)
GuessBudget == \A i \in Identity : guesses[i] <= Allowance

(* What is registered under a lock moves its end to the reading plus a     *)
(* lock no shorter than the last: it is cut, if at all, by what the        *)
(* reading was overtaken.  A success lifts it.                             *)
LockKept ==
    [][\A k \in Key : \/ entries'[k] = NoEntry
                      \/ entries'[k].locked_until >= entries[k].locked_until - MaxDelay]_vars

-----------------------------------------------------------------------------
(* "Tier B (ADR-0018): every verification endpoint is throttled per        *)
(* identity AND per IP with an escalating lockout": the failures on one    *)
(* identity's key, whichever verb registered them, within the allowance.   *)
(* Redeem registers and never checks, so they are not.                     *)
EveryVerbThrottled == \A i \in Identity : entries[i].failures <= Allowance

=============================================================================
