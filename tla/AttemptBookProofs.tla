--------------------------- MODULE AttemptBookProofs ---------------------------
(***************************************************************************)
(* Proofs about AttemptBook, for every choice of its constants: any number *)
(* of calls, keys and ticks, and any lockout curve of its shape.           *)
(***************************************************************************)
EXTENDS AttemptBook, FiniteSetTheorems, TLAPS

-----------------------------------------------------------------------------
(* The lockout curve.  Its exponent never leaves 0..16.                    *)

LEMMA PowersOfTwo ==
    /\ 2^0 = 1 /\ 2^1 = 2 /\ 2^2 = 4 /\ 2^3 = 8 /\ 2^4 = 16 /\ 2^5 = 32 /\ 2^6 = 64
    /\ 2^7 = 128 /\ 2^8 = 256 /\ 2^9 = 512 /\ 2^10 = 1024 /\ 2^11 = 2048 /\ 2^12 = 4096
    /\ 2^13 = 8192 /\ 2^14 = 16384 /\ 2^15 = 32768 /\ 2^16 = 65536
  OBVIOUS

LEMMA PowerRises ==
    ASSUME NEW n \in 0..15 PROVE 2^n \in Nat \ {0} /\ 2^(n + 1) \in Nat \ {0} /\ 2^n <= 2^(n + 1)
<1>0. CASE n = 0    BY <1>0, PowersOfTwo
<1>1. CASE n = 1    BY <1>1, PowersOfTwo
<1>2. CASE n = 2    BY <1>2, PowersOfTwo
<1>3. CASE n = 3    BY <1>3, PowersOfTwo
<1>4. CASE n = 4    BY <1>4, PowersOfTwo
<1>5. CASE n = 5    BY <1>5, PowersOfTwo
<1>6. CASE n = 6    BY <1>6, PowersOfTwo
<1>7. CASE n = 7    BY <1>7, PowersOfTwo
<1>8. CASE n = 8    BY <1>8, PowersOfTwo
<1>9. CASE n = 9    BY <1>9, PowersOfTwo
<1>10. CASE n = 10  BY <1>10, PowersOfTwo
<1>11. CASE n = 11  BY <1>11, PowersOfTwo
<1>12. CASE n = 12  BY <1>12, PowersOfTwo
<1>13. CASE n = 13  BY <1>13, PowersOfTwo
<1>14. CASE n = 14  BY <1>14, PowersOfTwo
<1>15. CASE n = 15  BY <1>15, PowersOfTwo
<1>16. n \in {0, 1, 2, 3, 4, 5, 6, 7, 8, 9, 10, 11, 12, 13, 14, 15}
  OBVIOUS
<1>. QED
  BY <1>16, <1>0, <1>1, <1>2, <1>3, <1>4, <1>5, <1>6, <1>7, <1>8, <1>9, <1>10, <1>11,
     <1>12, <1>13, <1>14, <1>15

LEMMA PowerType ==
    ASSUME NEW n \in 0..16 PROVE 2^n \in Nat \ {0}
<1>1. CASE n \in 0..15
  BY <1>1, PowerRises
<1>2. CASE n = 16
  BY <1>2, PowersOfTwo
<1>. QED
  BY <1>1, <1>2

LEMMA Constants ==
    /\ ATTEMPT_MAX_FAILURES \in Nat \ {0}
    /\ ATTEMPT_LOCK_BASE \in Nat \ {0} /\ ATTEMPT_LOCK_CAP \in Nat \ {0}
    /\ ATTEMPT_LOCK_BASE <= ATTEMPT_LOCK_CAP
    /\ MaxDelay \in Nat /\ MaxDelay < ATTEMPT_LOCK_BASE
    /\ ATTEMPT_SPACING \in Nat /\ MaxTime \in Nat /\ MaxCount \in Nat
  BY BookAssumption

LEMMA Multiplied ==
    ASSUME NEW a \in Nat, NEW b \in Nat, a <= b, NEW c \in Nat
    PROVE  c * a \in Nat /\ c * b \in Nat /\ c * a <= c * b
  OBVIOUS

(* A lock lasts the base at least, and never less for one failure more.    *)
LEMMA LockLasts ==
    ASSUME NEW n \in Nat, ATTEMPT_MAX_FAILURES <= n
    PROVE  /\ LockSeconds(n) \in Nat /\ ATTEMPT_LOCK_BASE <= LockSeconds(n)
           /\ LockSeconds(n) <= LockSeconds(n + 1)
<1>1. PICK d \in Nat : d = n - ATTEMPT_MAX_FAILURES /\ n + 1 - ATTEMPT_MAX_FAILURES = d + 1
  BY Constants
<1>2. PICK e \in 0..16, f \in 0..16 : e = Least(d, 16) /\ f = Least(d + 1, 16)
  BY DEF Least
<1>3. f = e \/ (e \in 0..15 /\ f = e + 1)
  BY <1>2 DEF Least
<1>4. PICK p \in Nat \ {0}, q \in Nat \ {0} : p = 2^e /\ q = 2^f /\ p <= q
  <2>1. 2^e \in Nat \ {0} /\ 2^f \in Nat \ {0}
    BY PowerType
  <2>2. 2^e <= 2^f
    <3>1. CASE f = e
      BY <2>1, <3>1
    <3>2. CASE e \in 0..15 /\ f = e + 1
      BY <3>2, PowerRises
    <3>. QED
      BY <1>3, <3>1, <3>2
  <2>. QED
    BY <2>1, <2>2
<1>5. PICK x \in Nat, y \in Nat :
         /\ x = ATTEMPT_LOCK_BASE * p /\ y = ATTEMPT_LOCK_BASE * q
         /\ ATTEMPT_LOCK_BASE <= x /\ x <= y
  <2>1. ATTEMPT_LOCK_BASE * 1 <= ATTEMPT_LOCK_BASE * p
    BY Constants, Multiplied
  <2>. QED
    BY <1>4, <2>1, Constants, Multiplied
<1>6. LockSeconds(n) = Least(x, ATTEMPT_LOCK_CAP)
  BY <1>1, <1>2, <1>4, <1>5 DEF LockSeconds
<1>7. LockSeconds(n + 1) = Least(y, ATTEMPT_LOCK_CAP)
  <2>1. PICK m \in Nat : m = n + 1 /\ m - ATTEMPT_MAX_FAILURES = d + 1
    BY <1>1, Constants
  <2>2. LockSeconds(m) = Least(y, ATTEMPT_LOCK_CAP)
    BY <1>2, <1>4, <1>5, <2>1 DEF LockSeconds
  <2>. QED
    BY <2>1, <2>2
<1>. QED
  BY <1>5, <1>6, <1>7, Constants DEF Least

-----------------------------------------------------------------------------
(* The book.  Besides its types: a call between its check and its outcome  *)
(* knows the keys it is going to touch and holds no reading of the future, *)
(* and an entry's lock is the one its last failure set.                    *)

Sound(c) ==
    /\ c.pc # "idle" => c.ip \in Ip
    /\ c.pc = "check_id" => c.verb \in {"login", "signup"}
    /\ c.pc = "check_ip" => c.verb \in {"login", "signup", "rotate"}
    /\ c.pc = "verdict" => c.verb \in {"login", "signup", "rotate", "redeem"}
    /\ c.pc \in {"check_id", "check_ip", "verdict"} /\ c.verb # "rotate" => c.id \in Identity

Kept(e, t) ==
    /\ e.locked_until = lockout_until(e.failures, e.last_attempt)
    /\ e.last_attempt <= t

BookInv ==
    /\ TypeOK
    /\ \A r \in Request : Sound(call[r]) /\ call[r].stamp <= now
    /\ \A k \in Key : Kept(entries[k], now)

LEMMA LockType ==
    ASSUME NEW n \in Nat, NEW t \in Nat
    PROVE  /\ lockout_until(n, t) \in Nat
           /\ n < ATTEMPT_MAX_FAILURES => lockout_until(n, t) = 0
           /\ ATTEMPT_MAX_FAILURES <= n =>
                /\ lockout_until(n, t) = t + LockSeconds(n)
                /\ t + ATTEMPT_LOCK_BASE <= lockout_until(n, t)
<1>1. CASE n < ATTEMPT_MAX_FAILURES
  BY <1>1, Constants DEF lockout_until
<1>2. CASE ATTEMPT_MAX_FAILURES <= n
  BY <1>2, LockLasts, Constants DEF lockout_until
<1>. QED
  BY <1>1, <1>2, Constants

LEMMA EmptyEntry ==
    ASSUME NEW t \in Nat PROVE NoEntry \in Entry /\ Kept(NoEntry, t)
  BY LockType, Constants DEF NoEntry, Entry, Kept

LEMMA BumpType ==
    ASSUME TypeOK, NEW k \in Key, NEW t \in 0..now
    PROVE  /\ Bumped(k, t) \in Entry
           /\ Bumped(k, t).failures = entries[k].failures + 1
           /\ Bumped(k, t).last_attempt = t
           /\ Bumped(k, t).locked_until = lockout_until(Bumped(k, t).failures, t)
<1>1. PICK n \in Nat : n = entries[k].failures + 1
  BY DEF TypeOK, Entry
<1>2. lockout_until(n, t) \in Nat /\ t \in 0..MaxTime
  BY LockType, Constants DEF TypeOK
<1>3. Bumped(k, t) = [failures |-> n, locked_until |-> lockout_until(n, t), last_attempt |-> t]
  BY <1>1 DEF Bumped
<1>. QED
  BY <1>1, <1>2, <1>3 DEF Entry

(* A reading a failure is registered with is at most MaxDelay old.         *)
LEMMA ReadingsRecent ==
    ASSUME BookInv, NEW r \in Request, NEW t \in Readings(r)
    PROVE  t \in 0..now /\ now \in Nat /\ now - MaxDelay <= t
<1>1. call[r].stamp \in Nat /\ now \in Nat
  BY Constants DEF BookInv, TypeOK, Call
<1>. QED
  BY <1>1, Constants DEF Readings, Most

(* What each step does to the map.                                         *)
LEMMA EntrySteps ==
    ASSUME BookInv, [Next]_vars, NEW k \in Key
    PROVE  \/ entries'[k] = entries[k]
           \/ entries'[k] = NoEntry /\ now' = now
           \/ /\ now' = now
              /\ \E t \in 0..now : entries'[k] = Bumped(k, t) /\ now - MaxDelay <= t
<1>1. entries \in [Key -> Entry]
  BY DEF BookInv, TypeOK
<1>2. ASSUME NEW j \in Key, NEW t \in 0..now, register_failure(j, t)
      PROVE  entries'[k] = entries[k] \/ entries'[k] = Bumped(k, t)
  BY <1>1, <1>2 DEF register_failure
<1>3. ASSUME NEW j \in Key, reset(j), now' = now
      PROVE  entries'[k] = entries[k] \/ (entries'[k] = NoEntry /\ now' = now)
  BY <1>1, <1>3 DEF reset
<1>4. ASSUME NEW r \in Request, Refused(r) \/ RegisterIp(r)
      PROVE  /\ now' = now
             /\ \E j \in Key, t \in 0..now : register_failure(j, t) /\ now - MaxDelay <= t
  <2>1. now' = now /\ \E j \in Key, t \in Readings(r) : register_failure(j, t)
    BY <1>4 DEF Refused, RegisterIp, At, BookInv, Sound, Key
  <2>. QED
    BY <2>1, ReadingsRecent
<1>5. ASSUME NEW r \in Request, Accepted(r) \/ ResetIp(r)
      PROVE  now' = now /\ \E j \in Key : reset(j)
  BY <1>5 DEF Accepted, ResetIp, At, BookInv, Sound, Key
<1>6. ASSUME NEW r \in Request,
             BeginSignIn(r) \/ BeginRotate(r) \/ BeginRedeem(r) \/ CheckId(r) \/ CheckIp(r) \/ NoVerdict(r)
      PROVE  entries' = entries
  BY <1>6 DEF BeginSignIn, BeginRotate, BeginRedeem, Begin, CheckId, CheckIp, NoVerdict
<1>7. Tick \/ UNCHANGED vars => entries' = entries
  BY DEF Tick, vars
<1>. QED
  BY <1>2, <1>3, <1>4, <1>5, <1>6, <1>7 DEF Next

-----------------------------------------------------------------------------
(* The invariant of the book.                                              *)

LEMMA BookInit == Init => BookInv
<1>. SUFFICES ASSUME Init PROVE BookInv
  OBVIOUS
<1>1. TypeOK
  BY EmptyEntry, Constants DEF Init, TypeOK, NoCall, Call
<1>2. \A r \in Request : Sound(call[r]) /\ call[r].stamp <= now
  BY DEF Init, NoCall, Sound
<1>3. \A k \in Key : Kept(entries[k], now)
  BY EmptyEntry DEF Init
<1>. QED
  BY <1>1, <1>2, <1>3 DEF BookInv

LEMMA TimeSteps ==
    ASSUME BookInv, [Next]_vars
    PROVE  now' = now \/ (now' = now + 1 /\ now' \in 0..MaxTime)
<1>1. ASSUME NEW r \in Request,
             \/ BeginSignIn(r) \/ BeginRotate(r) \/ BeginRedeem(r) \/ CheckId(r) \/ CheckIp(r)
             \/ Refused(r) \/ RegisterIp(r) \/ Accepted(r) \/ ResetIp(r) \/ NoVerdict(r)
      PROVE  now' = now
  BY <1>1 DEF BeginSignIn, BeginRotate, BeginRedeem, Begin, CheckId, CheckIp, Refused,
              RegisterIp, Accepted, ResetIp, NoVerdict
<1>2. Tick => now' = now + 1 /\ now' \in 0..MaxTime
  BY Constants DEF Tick, BookInv, TypeOK
<1>. QED
  BY <1>1, <1>2 DEF Next, vars

(* A call's own steps leave every call typed, sound and punctual.          *)
Proper(c, t) == c \in Call /\ Sound(c) /\ c.stamp <= t

LEMMA CallSteps ==
    ASSUME BookInv, [Next]_vars
    PROVE  call' \in [Request -> Call] /\ \A r \in Request : Proper(call'[r], now')
<1>. DEFINE Sane == call' \in [Request -> Call] /\ \A s \in Request : Proper(call'[s], now)
<1>0. /\ call \in [Request -> Call] /\ \A r \in Request : Proper(call[r], now)
      /\ now \in 0..MaxTime /\ now \in Nat
  BY Constants DEF BookInv, TypeOK, Proper
<1>1. ASSUME NEW r \in Request, NEW c, Proper(c, now), call' = [call EXCEPT ![r] = c]
      PROVE  Sane
  BY <1>0, <1>1 DEF Proper
<1>2. Proper(NoCall, now)
  BY <1>0, Constants DEF NoCall, Call, Sound, Proper
<1>3. ASSUME NEW r \in Request, Return(r) PROVE Sane
  BY <1>1, <1>2, <1>3 DEF Return
<1>4. ASSUME NEW r \in Request, NEW pc \in {"check_ip", "verdict", "register_ip", "reset_ip"},
             NEW t \in {now, call[r].stamp}, ~At(r, "idle"),
             pc = "check_ip" => At(r, "check_id"), pc = "verdict" => At(r, "check_ip"),
             call' = [call EXCEPT ![r].pc = pc, ![r].stamp = t]
      PROVE  Sane
  <2>1. PICK c : c = [call[r] EXCEPT !.pc = pc, !.stamp = t]
    OBVIOUS
  <2>2. call[r] \in Call /\ call[r].stamp \in 0..MaxTime /\ call[r].stamp <= now /\ Sound(call[r])
    BY <1>0 DEF Proper, Call
  <2>3. t \in 0..MaxTime /\ t <= now
    BY <1>0, <2>2, Constants
  <2>4. /\ c \in Call /\ c.pc = pc /\ c.stamp = t /\ c.verb = call[r].verb
        /\ c.id = call[r].id /\ c.ip = call[r].ip
    BY <2>1, <2>2, <2>3 DEF Call
  <2>5. Sound(c)
    BY <1>4, <2>2, <2>4 DEF Sound, At
  <2>6. call' = [call EXCEPT ![r] = c]
    BY <1>0, <1>4, <2>1, <2>2
  <2>. QED
    BY <1>1, <2>3, <2>4, <2>5, <2>6 DEF Proper
<1>5. ASSUME NEW r \in Request, BeginSignIn(r) \/ BeginRotate(r) \/ BeginRedeem(r) PROVE Sane
  <2>1. PICK c : \E a \in Ip :
           /\ \/ \E i \in Identity, verb \in {"login", "signup"} :
                    c = [pc |-> "check_id", verb |-> verb, id |-> i, ip |-> a, stamp |-> now]
              \/ c = [pc |-> "check_ip", verb |-> "rotate", id |-> None, ip |-> a, stamp |-> now]
              \/ \E i \in Identity :
                    c = [pc |-> "verdict", verb |-> "redeem", id |-> i, ip |-> a, stamp |-> now]
           /\ call' = [call EXCEPT ![r] = c]
    BY <1>5 DEF BeginSignIn, BeginRotate, BeginRedeem, Begin
  <2>2. Proper(c, now)
    BY <1>0, <2>1 DEF Proper, Call, Sound
  <2>. QED
    BY <1>1, <2>1, <2>2
<1>6. ASSUME NEW r \in Request, CheckId(r) PROVE Sane
  <2>1. CASE Return(r)
    BY <1>3, <2>1
  <2>2. CASE call' = [call EXCEPT ![r].pc = "check_ip"]
    <3>1. call' = [call EXCEPT ![r].pc = "check_ip", ![r].stamp = call[r].stamp]
      BY <1>0, <2>2 DEF Call
    <3>. QED
      BY <1>4, <1>6, <3>1 DEF CheckId, At
  <2>. QED
    BY <1>6, <2>1, <2>2 DEF CheckId
<1>7. ASSUME NEW r \in Request, CheckIp(r) PROVE Sane
  <2>1. Return(r) \/ Goto(r, "verdict")
    BY <1>7 DEF CheckIp
  <2>. QED
    BY <1>3, <1>4, <1>7, <2>1 DEF CheckIp, Goto, At
<1>8. ASSUME NEW r \in Request,
             Refused(r) \/ RegisterIp(r) \/ Accepted(r) \/ ResetIp(r) \/ NoVerdict(r)
      PROVE  Sane
  <2>1. \/ Return(r)
        \/ At(r, "verdict") /\ \E pc \in {"register_ip", "reset_ip"} : Goto(r, pc)
    BY <1>8 DEF Refused, RegisterIp, Accepted, ResetIp, NoVerdict
  <2>. QED
    BY <1>3, <1>4, <2>1 DEF Goto, At
<1>9. Tick \/ UNCHANGED vars => Sane
  BY <1>0 DEF Tick, vars
<1>10. Sane
  BY <1>5, <1>6, <1>7, <1>8, <1>9 DEF Next
<1>11. now <= now' /\ now' \in Nat
  BY <1>0, TimeSteps
<1>12. ASSUME NEW s \in Request PROVE Proper(call'[s], now')
  <2>1. call'[s] \in Call /\ call'[s].stamp \in Nat /\ Proper(call'[s], now)
    BY <1>10, Constants DEF Call
  <2>. QED
    BY <1>0, <1>11, <2>1 DEF Proper
<1>. QED
  BY <1>10, <1>12

LEMMA GuessType ==
    ASSUME BookInv, [Next]_vars
    PROVE  guesses' \in [Identity -> Nat]
<1>0. guesses \in [Identity -> Nat]
  BY DEF BookInv, TypeOK
<1>1. ASSUME NEW r \in Request, Refused(r) \/ Accepted(r)
      PROVE  guesses' \in [Identity -> Nat]
  BY <1>0, <1>1 DEF Refused, Accepted
<1>2. ASSUME NEW r \in Request, \/ BeginSignIn(r) \/ BeginRotate(r) \/ BeginRedeem(r) \/ CheckId(r) \/ CheckIp(r)
                                \/ RegisterIp(r) \/ ResetIp(r) \/ NoVerdict(r)
      PROVE  guesses' = guesses
  BY <1>2 DEF BeginSignIn, BeginRotate, BeginRedeem, Begin, CheckId, CheckIp, RegisterIp, ResetIp, NoVerdict
<1>3. Tick \/ UNCHANGED vars => guesses' = guesses
  BY DEF Tick, vars
<1>. QED
  BY <1>0, <1>1, <1>2, <1>3 DEF Next

LEMMA EntriesHeld ==
    ASSUME BookInv, [Next]_vars
    PROVE  entries' = [k \in Key |-> entries'[k]]
<1>1. entries = [k \in Key |-> entries[k]]
  BY DEF BookInv, TypeOK
<1>2. ASSUME NEW r \in Request, Refused(r) \/ RegisterIp(r) \/ Accepted(r) \/ ResetIp(r)
      PROVE  \E k, e : entries' = [entries EXCEPT ![k] = e]
  BY <1>2 DEF Refused, RegisterIp, Accepted, ResetIp, register_failure, reset
<1>3. ASSUME NEW r \in Request,
             BeginSignIn(r) \/ BeginRotate(r) \/ BeginRedeem(r) \/ CheckId(r) \/ CheckIp(r) \/ NoVerdict(r)
      PROVE  entries' = entries
  BY <1>3 DEF BeginSignIn, BeginRotate, BeginRedeem, Begin, CheckId, CheckIp, NoVerdict
<1>4. Tick \/ UNCHANGED vars => entries' = entries
  BY DEF Tick, vars
<1>. QED
  BY <1>1, <1>2, <1>3, <1>4 DEF Next

LEMMA BookStep == ASSUME BookInv, [Next]_vars PROVE BookInv'
<1>1. now' \in 0..MaxTime /\ now <= now'
  BY TimeSteps, Constants DEF BookInv, TypeOK
<1>2. ASSUME NEW k \in Key PROVE entries'[k] \in Entry /\ Kept(entries'[k], now')
  <2>1. CASE entries'[k] = entries[k]
    BY <1>1, <2>1, Constants DEF BookInv, TypeOK, Kept, Entry
  <2>2. CASE entries'[k] = NoEntry
    BY <1>1, <2>2, EmptyEntry, Constants
  <2>3. ASSUME NEW t \in 0..now, entries'[k] = Bumped(k, t), now' = now
        PROVE  entries'[k] \in Entry /\ Kept(entries'[k], now')
    BY <2>3, BumpType, Constants DEF BookInv, Kept, TypeOK
  <2>. QED
    BY <2>1, <2>2, <2>3, EntrySteps
<1>3. entries' \in [Key -> Entry]
  BY <1>2, EntriesHeld
<1>4. TypeOK'
  BY <1>1, <1>3, CallSteps, GuessType DEF TypeOK
<1>. QED
  BY <1>2, <1>4, CallSteps DEF BookInv, Proper

(* The book keeps its invariant.                                           *)
LEMMA BookInvariant == Spec => []BookInv
<1>1. BookInv /\ [Next]_vars => BookInv'
  BY BookStep
<1>. QED
  BY BookInit, <1>1, PTL DEF Spec

(* The book and the calls in flight stay well formed: the clock, every     *)
(* entry and every call.                                                   *)
THEOREM AttemptsTyped == Spec => []TypeOK
<1>1. BookInv => TypeOK
  BY DEF BookInv
<1>. QED
  BY <1>1, BookInvariant, PTL

-----------------------------------------------------------------------------
(* Locks.  A failure registered under a lock sets an end by its reading    *)
(* and by a curve that rises: short of the old end by what the reading is  *)
(* behind, at most.                                                        *)

LEMMA LockMoves ==
    ASSUME BookInv, [Next]_vars, NEW k \in Key
    PROVE  \/ entries'[k] = NoEntry
           \/ entries'[k].locked_until >= entries[k].locked_until - MaxDelay
<1>0. PICK n \in Nat, last \in Nat, lock \in Nat :
         /\ n = entries[k].failures /\ last = entries[k].last_attempt
         /\ lock = entries[k].locked_until /\ now \in Nat
         /\ lock = lockout_until(n, last) /\ last <= now
  BY Constants DEF BookInv, TypeOK, Entry, Kept
<1>1. PICK m \in Nat : m = n + 1
  OBVIOUS
<1>2. ASSUME NEW t \in 0..now, now - MaxDelay <= t
      PROVE  lockout_until(m, t) \in Nat /\ lock - MaxDelay <= lockout_until(m, t)
  <2>0. t \in Nat
    BY <1>0
  <2>1. CASE n < ATTEMPT_MAX_FAILURES
    <3>1. lock = 0
      BY <1>0, <2>1, LockType
    <3>. QED
      BY <2>0, <3>1, LockType, Constants
  <2>2. CASE ATTEMPT_MAX_FAILURES <= n
    <3>1. ATTEMPT_MAX_FAILURES <= m
      BY <1>1, <2>2, Constants
    <3>2. LockSeconds(n) \in Nat /\ LockSeconds(m) \in Nat /\ LockSeconds(n) <= LockSeconds(m)
      BY <1>1, <2>2, <3>1, LockLasts
    <3>3. lock = last + LockSeconds(n)
      BY <1>0, <2>2, LockType
    <3>4. lockout_until(m, t) = t + LockSeconds(m)
      BY <2>0, <3>1, LockType
    <3>. QED
      BY <1>0, <1>2, <2>0, <3>2, <3>3, <3>4, Constants
  <2>. QED
    BY <1>0, <2>1, <2>2, Constants
<1>3. CASE entries'[k] = entries[k]
  <2>1. entries'[k].locked_until = lock
    BY <1>0, <1>3
  <2>. QED
    BY <1>0, <2>1, Constants
<1>4. ASSUME NEW t \in 0..now, now - MaxDelay <= t, entries'[k] = Bumped(k, t)
      PROVE  entries'[k].locked_until >= entries[k].locked_until - MaxDelay
  <2>1. entries'[k].locked_until = lockout_until(m, t)
    BY <1>0, <1>1, <1>4, BumpType DEF BookInv
  <2>2. lockout_until(m, t) \in Nat /\ lock - MaxDelay <= lockout_until(m, t)
    BY <1>2, <1>4
  <2>. QED
    BY <1>0, <2>1, <2>2, Constants
<1>. QED
  BY <1>3, <1>4, EntrySteps

(* register_failure recomputes locked_until from the count and the reading *)
(* its caller took before the mutex.  Registered out of order, failures    *)
(* may cut a lock; never by more than the delay between a reading and its  *)
(* registration, because the count, and with it the length of the lock,    *)
(* only grows until a success resets the key.                              *)
THEOREM LocksKept == Spec => LockKept
<1>1. BookInv /\ [Next]_vars =>
        [\A k \in Key : \/ entries'[k] = NoEntry
                        \/ entries'[k].locked_until >= entries[k].locked_until - MaxDelay]_vars
  BY LockMoves
<1>. QED
  BY <1>1, BookInvariant, PTL DEF Spec, LockKept

-----------------------------------------------------------------------------
(* The budget of guesses.  What an identity has used, and what the calls   *)
(* past its check may still use, is within the budget of the present; what *)
(* it has used is within the budget of the latest its last failure can     *)
(* have been registered, one lock earlier than any call the identity's     *)
(* check lets through.                                                     *)

Budget(t) ==
    ATTEMPT_MAX_FAILURES - 1
        + Cardinality(Request) * (1 + t \div (ATTEMPT_LOCK_BASE - MaxDelay))

Inflight(i) ==
    {r \in Request : /\ call[r].pc \in {"check_ip", "verdict"}
                     /\ call[r].verb \in {"login", "signup"}
                     /\ call[r].id = i}

(* Below the limit every guess is a failure counted; from the limit on all *)
(* of them are within the budget of the last failure.                      *)
Used(i) ==
    IF entries[i].failures < ATTEMPT_MAX_FAILURES
    THEN guesses[i] <= entries[i].failures
    ELSE guesses[i] <= Budget(entries[i].last_attempt + MaxDelay)

Afloat(i) == guesses[i] + Cardinality(Inflight(i)) <= Budget(now)

GuessInv == \A i \in Identity : Used(i) /\ Afloat(i)

LEMMA Quotients ==
    ASSUME NEW N \in Nat \ {0}, NEW a \in Nat, NEW b \in Nat, a <= b
    PROVE  /\ a \div N \in Nat /\ b \div N \in Nat
           /\ a \div N <= b \div N
           /\ a + N <= b => a \div N + 1 <= b \div N
  OBVIOUS

LEMMA BudgetGrows ==
    ASSUME NEW s \in Nat, NEW t \in Nat, s <= t
    PROVE  /\ Cardinality(Request) \in Nat /\ Budget(s) \in Nat /\ Budget(t) \in Nat
           /\ Budget(s) <= Budget(t)
           /\ ATTEMPT_MAX_FAILURES - 1 + Cardinality(Request) <= Budget(s)
           /\ s + (ATTEMPT_LOCK_BASE - MaxDelay) <= t => Budget(s) + Cardinality(Request) <= Budget(t)
<1>1. PICK c \in Nat : c = Cardinality(Request)
  BY FS_CardinalityType, BookAssumption
<1>2. PICK f \in Nat : f = ATTEMPT_MAX_FAILURES - 1
  BY Constants
<1>d. PICK d \in Nat \ {0} : d = ATTEMPT_LOCK_BASE - MaxDelay
  BY Constants
<1>3. PICK x \in Nat, y \in Nat :
         /\ x = s \div d /\ y = t \div d /\ x <= y
         /\ s + d <= t => x + 1 <= y
  BY Quotients
<1>4. PICK p \in Nat, q \in Nat, u \in Nat :
         /\ p = c * (1 + x) /\ q = c * (1 + y) /\ u = c * (1 + (x + 1)) /\ p <= q
         /\ c <= p /\ u = p + c /\ (x + 1 <= y => u <= q)
  <2>1. PICK v \in Nat, w \in Nat : v = 1 + x /\ w = 1 + y /\ v <= w /\ 1 <= v
    BY <1>3
  <2>2. PICK p \in Nat, q \in Nat : p = c * v /\ q = c * w /\ p <= q /\ c * 1 <= p
    BY <2>1, Multiplied
  <2>3. PICK u \in Nat : u = c * (v + 1) /\ u = p + c
    BY <2>2
  <2>4. v + 1 <= w => u <= q
    BY <2>1, <2>2, <2>3, Multiplied
  <2>. QED
    BY <2>1, <2>2, <2>3, <2>4
<1>5. Budget(s) = f + p /\ Budget(t) = f + q
  BY <1>1, <1>2, <1>d, <1>3, <1>4 DEF Budget
<1>. QED
  BY <1>1, <1>2, <1>d, <1>3, <1>4, <1>5

LEMMA InflightSize ==
    ASSUME NEW i
    PROVE  /\ IsFiniteSet(Inflight(i)) /\ Cardinality(Inflight(i)) \in Nat
           /\ Cardinality(Inflight(i)) <= Cardinality(Request)
           /\ IsFiniteSet(Inflight(i)') /\ Cardinality(Inflight(i)') \in Nat
           /\ Cardinality(Inflight(i)') <= Cardinality(Request)
<1>1. Inflight(i) \subseteq Request /\ Inflight(i)' \subseteq Request
  BY DEF Inflight
<1>. QED
  BY <1>1, FS_Subset, FS_CardinalityType, BookAssumption

(* The numbers an identity's budget is about.                              *)
LEMMA Numbers ==
    ASSUME BookInv, [Next]_vars, NEW i \in Identity
    PROVE  /\ i \in Key
           /\ now \in Nat /\ now' \in Nat /\ now <= now'
           /\ guesses[i] \in Nat /\ guesses'[i] \in Nat
           /\ entries[i].failures \in Nat /\ entries[i].last_attempt \in Nat
           /\ entries[i].last_attempt <= now
  BY TimeSteps, GuessType, Constants DEF BookInv, TypeOK, Entry, Kept, Key

(* What a step may mean to one identity.                                   *)
Quiet(i) ==
    /\ entries'[i] = entries[i] /\ guesses'[i] = guesses[i]
    /\ Inflight(i)' \subseteq Inflight(i)

Admitted(i) ==
    /\ entries'[i] = entries[i] /\ guesses'[i] = guesses[i] /\ now' = now
    /\ ~Locked(i, now)

Registered(i) == \E t \in 0..now : now - MaxDelay <= t /\ entries'[i] = Bumped(i, t)

Guessed(i) ==
    /\ Registered(i) /\ guesses'[i] = guesses[i] + 1 /\ now' = now
    /\ \E r \in Inflight(i) : Inflight(i)' = Inflight(i) \ {r}

Failed(i) ==
    /\ Registered(i) /\ guesses'[i] = guesses[i] /\ now' = now
    /\ Inflight(i)' \subseteq Inflight(i)

Cleared(i) == entries'[i] = NoEntry /\ guesses'[i] = 0

LEMMA QuietKeeps ==
    ASSUME BookInv, [Next]_vars, NEW i \in Identity, Quiet(i), Used(i), Afloat(i)
    PROVE  Used(i)' /\ Afloat(i)'
<1>1. Used(i)'
  BY DEF Quiet, Used
<1>2. Cardinality(Inflight(i)') <= Cardinality(Inflight(i))
  BY InflightSize, FS_Subset DEF Quiet
<1>3. Budget(now) \in Nat /\ Budget(now') \in Nat /\ Budget(now) <= Budget(now')
  BY Numbers, BudgetGrows
<1>4. guesses'[i] + Cardinality(Inflight(i)') <= Budget(now')
  BY <1>2, <1>3, Numbers, InflightSize DEF Quiet, Afloat
<1>. QED
  BY <1>1, <1>4 DEF Afloat, Budget

LEMMA AdmittedKeeps ==
    ASSUME BookInv, [Next]_vars, NEW i \in Identity, Admitted(i), Used(i)
    PROVE  Used(i)' /\ Afloat(i)'
<1>1. Used(i)'
  BY DEF Admitted, Used
<1>2. PICK g \in Nat, n \in Nat, last \in Nat, t \in Nat :
         /\ g = guesses[i] /\ n = entries[i].failures /\ last = entries[i].last_attempt
         /\ t = now /\ last <= t
  BY Numbers
<1>3. g + Cardinality(Request) <= Budget(t)
  <2>1. CASE n < ATTEMPT_MAX_FAILURES
    BY <1>2, <2>1, BudgetGrows, Constants DEF Used
  <2>2. CASE ATTEMPT_MAX_FAILURES <= n
    <3>1. lockout_until(n, last) \in Nat /\ last + ATTEMPT_LOCK_BASE <= lockout_until(n, last)
      BY <2>2, LockType
    <3>2. entries[i].locked_until = lockout_until(n, last)
      BY <1>2, Numbers DEF BookInv, Kept
    <3>3. PICK late \in Nat : /\ late = last + MaxDelay
                             /\ late + (ATTEMPT_LOCK_BASE - MaxDelay) <= t /\ late <= t
      BY <1>2, <3>1, <3>2, Constants DEF Admitted, Locked
    <3>4. g <= Budget(late)
      BY <1>2, <2>2, <3>3, Constants DEF Used
    <3>. QED
      BY <1>2, <3>3, <3>4, BudgetGrows
  <2>. QED
    BY <2>1, <2>2, Constants
<1>4. guesses'[i] + Cardinality(Inflight(i)') <= Budget(now')
  BY <1>2, <1>3, InflightSize, BudgetGrows DEF Admitted
<1>. QED
  BY <1>1, <1>4 DEF Afloat, Budget

LEMMA GuessedKeeps ==
    ASSUME BookInv, [Next]_vars, NEW i \in Identity, Guessed(i), Used(i), Afloat(i)
    PROVE  Used(i)' /\ Afloat(i)'
<1>1. PICK g \in Nat, n \in Nat, t \in Nat :
         g = guesses[i] /\ n = entries[i].failures /\ t = now
  BY Numbers
<1>2. PICK r \in Inflight(i) : Inflight(i)' = Inflight(i) \ {r}
  BY DEF Guessed
<1>3. Cardinality(Inflight(i)') = Cardinality(Inflight(i)) - 1
  BY <1>2, InflightSize, FS_RemoveElement
<1>4. g + 1 + Cardinality(Inflight(i)') <= Budget(t) /\ Budget(t) \in Nat
  BY <1>1, <1>3, InflightSize, BudgetGrows DEF Afloat
<1>5. PICK last \in Nat : /\ entries'[i].failures = n + 1 /\ entries'[i].last_attempt = last
                         /\ t <= last + MaxDelay
  <2>1. PICK u \in 0..now : now - MaxDelay <= u /\ entries'[i] = Bumped(i, u)
    BY DEF Guessed, Registered
  <2>. QED
    BY <1>1, <2>1, Numbers, BumpType, Constants DEF BookInv
<1>6. guesses'[i] = g + 1 /\ now' = t
  BY <1>1 DEF Guessed
<1>7. IF n + 1 < ATTEMPT_MAX_FAILURES THEN g + 1 <= n + 1 ELSE g + 1 <= Budget(last + MaxDelay)
  <2>1. n + 1 < ATTEMPT_MAX_FAILURES => g <= n
    BY <1>1, Constants DEF Used
  <2>2. g + 1 <= Budget(last + MaxDelay)
    BY <1>1, <1>4, <1>5, InflightSize, BudgetGrows, Constants
  <2>. QED
    BY <2>1, <2>2
<1>. QED
  BY <1>4, <1>5, <1>6, <1>7 DEF Used, Afloat, Budget

LEMMA FailedKeeps ==
    ASSUME BookInv, [Next]_vars, NEW i \in Identity, Failed(i), Used(i), Afloat(i)
    PROVE  Used(i)' /\ Afloat(i)'
<1>1. PICK g \in Nat, n \in Nat, t \in Nat :
         g = guesses[i] /\ n = entries[i].failures /\ t = now
  BY Numbers
<1>2. Cardinality(Inflight(i)') <= Cardinality(Inflight(i))
  BY InflightSize, FS_Subset DEF Failed
<1>3. g + Cardinality(Inflight(i)') <= Budget(t) /\ Budget(t) \in Nat
  BY <1>1, <1>2, InflightSize, BudgetGrows DEF Afloat
<1>4. PICK last \in Nat : /\ entries'[i].failures = n + 1 /\ entries'[i].last_attempt = last
                         /\ t <= last + MaxDelay
  <2>1. PICK u \in 0..now : now - MaxDelay <= u /\ entries'[i] = Bumped(i, u)
    BY DEF Failed, Registered
  <2>. QED
    BY <1>1, <2>1, Numbers, BumpType, Constants DEF BookInv
<1>5. guesses'[i] = g /\ now' = t
  BY <1>1 DEF Failed
<1>6. IF n + 1 < ATTEMPT_MAX_FAILURES THEN g <= n + 1 ELSE g <= Budget(last + MaxDelay)
  <2>1. n + 1 < ATTEMPT_MAX_FAILURES => g <= n
    BY <1>1, Constants DEF Used
  <2>2. g <= Budget(last + MaxDelay)
    BY <1>1, <1>3, <1>4, InflightSize, BudgetGrows, Constants
  <2>. QED
    BY <2>1, <2>2
<1>. QED
  BY <1>3, <1>4, <1>5, <1>6 DEF Used, Afloat, Budget

LEMMA ClearedKeeps ==
    ASSUME BookInv, [Next]_vars, NEW i \in Identity, Cleared(i)
    PROVE  Used(i)' /\ Afloat(i)'
<1>1. entries'[i].failures = 0 /\ guesses'[i] = 0
  BY DEF Cleared, NoEntry
<1>2. Used(i)'
  BY <1>1, Constants DEF Used
<1>3. guesses'[i] + Cardinality(Inflight(i)') <= Budget(now')
  BY <1>1, InflightSize, BudgetGrows, Numbers, Constants
<1>. QED
  BY <1>2, <1>3 DEF Afloat, Budget

(* Every step is one of these to each identity.  The address's entries are *)
(* no identity's: the keys have different prefixes.                        *)
LEMMA GuessCases ==
    ASSUME BookInv, [Next]_vars, NEW i \in Identity
    PROVE  Quiet(i) \/ Admitted(i) \/ Guessed(i) \/ Failed(i) \/ Cleared(i)
<1>0. /\ entries \in [Key -> Entry] /\ guesses \in [Identity -> Nat] /\ call \in [Request -> Call]
      /\ \A r \in Request : Sound(call[r]) /\ i \in Key /\ \A a \in Ip : a # i
  BY BookAssumption DEF BookInv, TypeOK, Key
<1>1. ASSUME NEW r \in Request, Return(r) PROVE Inflight(i)' \subseteq Inflight(i)
  BY <1>0, <1>1 DEF Return, NoCall, Inflight
<1>2. ASSUME NEW r \in Request, At(r, "verdict"), NEW pc \in {"register_ip", "reset_ip"},
             Goto(r, pc)
      PROVE  Inflight(i)' = Inflight(i) \ {r}
  BY <1>0, <1>2 DEF Goto, Inflight, Call
<1>3. ASSUME NEW r \in Request, CheckId(r) PROVE Quiet(i) \/ Admitted(i)
  <2>1. /\ UNCHANGED <<now, entries, guesses>> /\ call[r].pc = "check_id"
        /\ \/ Return(r)
           \/ ~Refuses(call[r].id, call[r].stamp) /\ call' = [call EXCEPT ![r].pc = "check_ip"]
    BY <1>3 DEF CheckId, At
  <2>2. CASE Return(r)
    BY <1>1, <2>1, <2>2 DEF Quiet
  <2>3. CASE ~Return(r) /\ call[r].id = i
    <3>1. call[r].stamp \in Nat /\ now \in Nat /\ call[r].stamp <= now
      BY <1>0, Constants DEF BookInv, TypeOK, Call
    <3>2. entries[i].locked_until \in Nat
      BY <1>0 DEF Entry
    <3>3. ~Locked(i, now)
      BY <2>1, <2>3, <3>1, <3>2 DEF Refuses, Locked
    <3>. QED
      BY <2>1, <3>3 DEF Admitted
  <2>4. CASE ~Return(r) /\ call[r].id # i
    BY <1>0, <2>1, <2>4 DEF Quiet, Inflight, Call
  <2>. QED
    BY <2>2, <2>3, <2>4
<1>4. ASSUME NEW r \in Request, CheckIp(r) PROVE Quiet(i)
  <2>1. UNCHANGED <<now, entries, guesses>>
    BY <1>4 DEF CheckIp
  <2>2. At(r, "check_ip") /\ (Return(r) \/ Goto(r, "verdict"))
    BY <1>4 DEF CheckIp
  <2>3. Goto(r, "verdict") => Inflight(i)' \subseteq Inflight(i)
    BY <1>0, <2>2 DEF Goto, At, Inflight, Call
  <2>4. Inflight(i)' \subseteq Inflight(i)
    BY <1>1, <2>2, <2>3
  <2>. QED
    BY <2>1, <2>4 DEF Quiet
<1>5. ASSUME NEW r \in Request, BeginSignIn(r) \/ BeginRotate(r) \/ BeginRedeem(r) PROVE Quiet(i)
  <2>1. UNCHANGED <<now, entries, guesses>>
    BY <1>5 DEF BeginSignIn, BeginRotate, BeginRedeem, Begin
  <2>2. BeginSignIn(r) => Inflight(i)' \subseteq Inflight(i)
    BY <1>0 DEF BeginSignIn, Begin, Inflight
  <2>3. BeginRotate(r) => Inflight(i)' \subseteq Inflight(i)
    BY <1>0 DEF BeginRotate, Begin, Inflight
  <2>4. BeginRedeem(r) => Inflight(i)' \subseteq Inflight(i)
    BY <1>0 DEF BeginRedeem, Begin, Inflight
  <2>. QED
    BY <1>5, <2>1, <2>2, <2>3, <2>4 DEF Quiet
<1>6. ASSUME NEW r \in Request, Refused(r) PROVE Quiet(i) \/ Guessed(i) \/ Failed(i)
  <2>0. At(r, "verdict") /\ now' = now
    BY <1>6 DEF Refused
  <2>1. CASE call[r].verb \in {"login", "signup"} /\ call[r].id = i
    <3>1. Registered(i) /\ guesses'[i] = guesses[i] + 1
      <4>1. \E t \in Readings(r) : register_failure(i, t) /\ guesses' = [guesses EXCEPT ![i] = @ + 1]
        BY <1>6, <2>1 DEF Refused
      <4>. QED
        BY <1>0, <4>1, ReadingsRecent DEF register_failure, Registered
    <3>2. r \in Inflight(i) /\ Inflight(i)' = Inflight(i) \ {r}
      BY <1>2, <1>6, <2>0, <2>1 DEF Refused, Inflight, At
    <3>. QED
      BY <2>0, <3>1, <3>2 DEF Guessed
  <2>2. CASE call[r].verb = "redeem" /\ call[r].id = i
    <3>1. Registered(i) /\ guesses'[i] = guesses[i]
      <4>1. \E t \in Readings(r) : register_failure(i, t) /\ guesses' = guesses
        BY <1>6, <2>2 DEF Refused
      <4>. QED
        BY <1>0, <4>1, ReadingsRecent DEF register_failure, Registered
    <3>2. Inflight(i)' \subseteq Inflight(i)
      BY <1>2, <1>6, <2>0, <2>2 DEF Refused
    <3>. QED
      BY <2>0, <3>1, <3>2 DEF Failed
  <2>3. CASE call[r].verb \in {"login", "signup", "redeem"} /\ call[r].id # i
    <3>1. entries'[i] = entries[i] /\ guesses'[i] = guesses[i]
      BY <1>0, <1>6, <2>3 DEF Refused, register_failure
    <3>2. Inflight(i)' \subseteq Inflight(i)
      BY <1>2, <1>6, <2>0, <2>3 DEF Refused
    <3>. QED
      BY <3>1, <3>2 DEF Quiet
  <2>4. CASE call[r].verb = "rotate"
    <3>1. call[r].ip # i
      BY <1>0, <2>0 DEF Sound, At
    <3>2. entries'[i] = entries[i] /\ guesses'[i] = guesses[i] /\ Return(r)
      BY <1>0, <1>6, <2>4, <3>1 DEF Refused, register_failure
    <3>. QED
      BY <1>1, <3>2 DEF Quiet
  <2>. QED
    BY <1>6, <2>1, <2>2, <2>3, <2>4 DEF Refused
<1>7. ASSUME NEW r \in Request, Accepted(r) PROVE Quiet(i) \/ Cleared(i)
  <2>1. CASE call[r].id = i
    BY <1>0, <1>7, <2>1 DEF Accepted, reset, Cleared
  <2>2. CASE call[r].id # i
    <3>1. entries'[i] = entries[i] /\ guesses'[i] = guesses[i]
      BY <1>0, <1>7, <2>2 DEF Accepted, reset
    <3>2. Inflight(i)' \subseteq Inflight(i)
      BY <1>2, <1>7 DEF Accepted
    <3>. QED
      BY <3>1, <3>2 DEF Quiet
  <2>. QED
    BY <2>1, <2>2
<1>8. ASSUME NEW r \in Request, RegisterIp(r) \/ ResetIp(r) PROVE Quiet(i)
  <2>1. call[r].ip # i
    BY <1>0, <1>8 DEF RegisterIp, ResetIp, Sound, At
  <2>2. entries'[i] = entries[i] /\ guesses'[i] = guesses[i] /\ Return(r)
    BY <1>0, <1>8, <2>1 DEF RegisterIp, ResetIp, register_failure, reset
  <2>. QED
    BY <1>1, <2>2 DEF Quiet
<1>9. ASSUME NEW r \in Request, NoVerdict(r) PROVE Quiet(i)
  BY <1>1, <1>9 DEF NoVerdict, Quiet
<1>10. Tick \/ UNCHANGED vars => Quiet(i)
  BY DEF Tick, vars, Quiet, Inflight
<1>. QED
  BY <1>3, <1>4, <1>5, <1>6, <1>7, <1>8, <1>9, <1>10 DEF Next

LEMMA GuessInit == ASSUME Init PROVE GuessInv
<1>. SUFFICES ASSUME NEW i \in Identity PROVE Used(i) /\ Afloat(i)
  BY DEF GuessInv
<1>1. guesses[i] = 0 /\ entries[i].failures = 0 /\ now = 0
  BY DEF Init, NoEntry, Key
<1>2. Used(i)
  BY <1>1, Constants DEF Used
<1>3. Inflight(i) = {}
  BY DEF Init, NoCall, Inflight
<1>4. Budget(0) \in Nat
  BY BudgetGrows
<1>. QED
  BY <1>1, <1>2, <1>3, <1>4, FS_EmptySet DEF Afloat

LEMMA GuessStep == ASSUME BookInv, [Next]_vars, GuessInv PROVE GuessInv'
  BY GuessCases, QuietKeeps, AdmittedKeeps, GuessedKeeps, FailedKeeps, ClearedKeeps DEF GuessInv

(* verify_and_mint and signup ask the book before they ask anything else:  *)
(* however the calls past the check interleave with the registering of     *)
(* their failures, and however late the readings they register with, the   *)
(* logins and signups refused of one identity since its last success are   *)
(* bounded by the free attempts and one batch of calls in flight per lock  *)
(* elapsed.  Redeem's refusals, which nothing bounds, only add to the lock.*)
THEOREM GuessesBudgeted == Spec => []GuessBudget
<1>1. BookInv /\ [Next]_vars /\ GuessInv => GuessInv'
  BY GuessStep
<1>2. BookInv /\ GuessInv => GuessBudget
  <2>. SUFFICES ASSUME BookInv, GuessInv, NEW i \in Identity PROVE guesses[i] <= Budget(now)
    BY DEF GuessBudget, Allowance, Budget
  <2>1. guesses[i] \in Nat /\ now \in Nat
    BY Constants DEF BookInv, TypeOK
  <2>. QED
    BY <2>1, InflightSize, BudgetGrows DEF GuessInv, Afloat
<1>. QED
  BY <1>1, <1>2, BookInvariant, GuessInit, PTL DEF Spec
=============================================================================
