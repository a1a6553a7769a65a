----------------------------- MODULE TokenQuery -----------------------------
(***************************************************************************)
(* Verification codes: a mail with a code is requested, limited per address*)
(* and sender, and the code is checked with a bounded number of guesses.   *)
(* Everything is in Redis and every check is a separate command.           *)
(* service/token_verify_service.go, email_webhook_service.go,              *)
(* controller/token_controller.go. One pair of mail address and workspace. *)
(*                                                                         *)
(* A code is a number, larger for a later one; 0 is a wrong guess. The     *)
(* clock advances between requests.                                        *)
(***************************************************************************)
EXTENDS Integers, Sequences, FiniteSets

CONSTANTS Request,
          CodeTTL, CooldownTTL, RateTTL, \* expiry times
          MaxAttempts,       \* TOKEN_VERIFY_MAX_ATTEMPTS
          RateLimit,         \* [Limit -> TOKEN_VERIFY_RATE_LIMIT_...]
          MaxCodes, MaxTime, \* bounds: codes and ticks
          None

Limit == {"email", "ip"}

VARIABLES clock,
          code,      \* the key of the code: [code, attempts, until] or None
          cooldown,  \* until when the cooldown key lives
          rate,      \* [Limit -> [count, until] or None]; Never: no expiry is set
          at, guess, seen, \* a request: its step, its guess, the data it has read
          codes,     \* ghost: what became of each code
          mailed,    \* ghost: [Limit -> codes saved since the counter began]
          failed,    \* ghost: counters on which a command failed
          fails      \* what fails in this behaviour: commands of the "rate", of the "code" or none

redis    == <<code, cooldown, rate>>
requests == <<at, guess, seen>>
ghosts   == <<codes, mailed, failed>>
vars == <<clock, redis, requests, ghosts, fails>>

Never == MaxTime + RateTTL + 1 \* after every time
Live(key) == key # None /\ clock < key.until
NewCode   == [born |-> clock, uses |-> 0, wrong |-> 0, disturbed |-> FALSE]
Disturbed == [born |-> 0, uses |-> 0, wrong |-> 0, disturbed |-> TRUE]
\* What happens to a code is counted until it is disturbed.
Note(n, fate) == IF codes[n].disturbed THEN codes ELSE [codes EXCEPT ![n] = fate]

\* Between INCR and EXPIRE of a counter.
Expiring == [email |-> "expire email", ip |-> "expire ip"]
Goto(r, step) == at' = [at EXCEPT ![r] = step]
Return(r) == /\ Goto(r, "away") /\ guess' = [guess EXCEPT ![r] = 0]
             /\ seen' = [seen EXCEPT ![r] = None]
\* Requests that have read the key of the code and are not done with it.
Judging == {r \in Request : seen[r] # None}
Disturb(set) == [n \in DOMAIN codes |-> IF n \in set THEN Disturbed ELSE codes[n]]

Init ==
  /\ clock = 0 /\ code = None /\ cooldown = 0 /\ rate = [l \in Limit |-> None]
  /\ at = [r \in Request |-> "away"] /\ guess = [r \in Request |-> 0] /\ seen = [r \in Request |-> None]
  /\ codes = <<>> /\ mailed = [l \in Limit |-> 0] /\ failed = {}
  /\ fails \in {"rate", "code", "none"}

-----------------------------------------------------------------------------
\* SendVerificationCode, after the controller has seen that the address has a token. A request
\* that finds the cooldown key ends; it changes nothing.

RequestVerifyCode(r) ==
  /\ at[r] = "away" /\ Len(codes) < MaxCodes
  /\ clock >= cooldown /\ Goto(r, "email")
  /\ UNCHANGED <<clock, redis, guess, seen, ghosts>>

After(l) == IF l = "email" THEN "ip" ELSE "save"

\* A counter above its limit stays above it: its count is kept up to one more than the limit.
Counted(l, fresh) ==
  IF fresh THEN [count |-> 1, until |-> Never]
  ELSE [rate[l] EXCEPT !.count = IF @ > RateLimit[l] THEN @ ELSE @ + 1]

\* INCR creates the key without an expiry; a refused request counts too.
IncrBy(r, l, refused(_)) ==
  LET fresh == ~Live(rate[l]) key == Counted(l, fresh) IN
  /\ at[r] = l
  /\ rate' = [rate EXCEPT ![l] = key]
  /\ mailed' = IF fresh THEN [mailed EXCEPT ![l] = 0] ELSE mailed
  /\ failed' = IF fresh THEN failed \ {l} ELSE failed
  /\ IF key.count = 1 THEN Goto(r, Expiring[l]) /\ UNCHANGED <<guess, seen>>
     ELSE IF refused(key.count) THEN Return(r)
     ELSE Goto(r, After(l)) /\ UNCHANGED <<guess, seen>>
  /\ UNCHANGED <<clock, code, cooldown, codes>>

\* Mutant: one request more than the limit.
IncrLoose(r, l) == IncrBy(r, l, LAMBDA count : count > RateLimit[l] + 1)
Incr(r, l) == IncrBy(r, l, LAMBDA count : count > RateLimit[l])

\* Redis fails, or the client goes away, which cancels the context of the command: the request
\* ends, and INCR may have been executed.
IncrFails(r, l) ==
  /\ at[r] = l /\ fails = "rate" /\ Return(r)
  /\ LET fresh == ~Live(rate[l]) IN
     \/ /\ rate' = [rate EXCEPT ![l] = Counted(l, fresh)]
        /\ mailed' = IF fresh THEN [mailed EXCEPT ![l] = 0] ELSE mailed
        /\ failed' = failed \cup {l}
     \/ UNCHANGED <<rate, mailed, failed>>
  /\ UNCHANGED <<clock, code, cooldown, codes>>

\* Mutant: the counter gets no expiry.
ExpireForgets(r, l) ==
  /\ at[r] = Expiring[l]
  /\ Goto(r, After(l)) /\ UNCHANGED <<guess, seen>>
  /\ UNCHANGED <<clock, redis, codes, mailed, failed>>

\* The result of EXPIRE is not looked at.
Expire(r, l) ==
  /\ at[r] = Expiring[l]
  /\ \/ /\ rate' = [rate EXCEPT ![l] = IF Live(@) THEN [@ EXCEPT !.until = clock + RateTTL] ELSE @]
        /\ UNCHANGED failed
     \/ fails = "rate" /\ failed' = failed \cup {l} /\ UNCHANGED rate
  /\ IF RateLimit[l] < 1 THEN Return(r) ELSE Goto(r, After(l)) /\ UNCHANGED <<guess, seen>>
  /\ UNCHANGED <<clock, code, cooldown, codes, mailed>>

\* The new code replaces the old one with its attempts; who is judging the old one will overwrite it.
SaveCode(r) ==
  /\ at[r] = "save" /\ Len(codes) < MaxCodes
  /\ LET n == Len(codes) + 1
         old == IF Judging = {} THEN {} ELSE 1 .. n
     IN /\ code' = [code |-> n, attempts |-> 0, until |-> clock + CodeTTL]
        /\ codes' = [i \in 1 .. n |-> IF i \in old THEN Disturbed ELSE IF i = n THEN NewCode ELSE codes[i]]
  /\ mailed' = [l \in Limit |-> mailed[l] + 1]
  /\ Goto(r, "cool")
  /\ UNCHANGED <<clock, cooldown, rate, guess, seen, failed>>

SaveCodeFails(r) ==
  /\ at[r] = "save" /\ fails = "code" /\ Return(r)
  /\ UNCHANGED <<clock, redis, ghosts>>

\* A failure to set the cooldown is only logged. The webhook comes last, and when it fails the code
\* and the cooldown stay.
SetCooldown(r) ==
  /\ at[r] = "cool" /\ Return(r)
  /\ cooldown' \in {clock + CooldownTTL} \cup (IF fails = "code" THEN {cooldown} ELSE {})
  /\ UNCHANGED <<clock, code, rate, ghosts>>

-----------------------------------------------------------------------------
\* VerifyCode: read, compare, write back or delete. Without a code the request ends.

VerifyCode(r, g) ==
  /\ at[r] = "away" /\ Live(code) /\ Goto(r, "judge")
  /\ guess' = [guess EXCEPT ![r] = g] /\ seen' = [seen EXCEPT ![r] = code]
  /\ codes' = IF Judging = {} THEN codes ELSE Disturb({code.code})
  /\ UNCHANGED <<clock, redis, mailed, failed>>

Spent(r)   == seen[r].attempts >= MaxAttempts
Matches(r) == guess[r] = seen[r].code
Mine(r)    == seen[r].code
Delete     == code' = None

\* A command that fails is logged at most; the code it was about stays.
Unless(command, r) ==
  \/ command /\ UNCHANGED codes
  \/ fails = "code" /\ UNCHANGED code /\ codes' = Disturb({Mine(r)})

TooManyAttempts(r) ==
  /\ at[r] = "judge" /\ Spent(r) /\ Return(r)
  /\ Unless(Delete, r)
  /\ UNCHANGED <<clock, cooldown, rate, mailed, failed>>

Accept(r) ==
  /\ at[r] = "judge" /\ ~Spent(r) /\ Matches(r)
  /\ codes' = Note(Mine(r), [codes[Mine(r)] EXCEPT !.uses = @ + 1])
  /\ Goto(r, "delete")
  /\ UNCHANGED <<clock, redis, guess, seen, mailed, failed>>

\* The attempts and, with them, the time to live are written anew.
WrongGuess(r) ==
  /\ at[r] = "judge" /\ ~Spent(r) /\ ~Matches(r)
  /\ LET data == [seen[r] EXCEPT !.attempts = @ + 1, !.until = clock + CodeTTL]
     IN /\ \/ code' = data /\ codes' = Note(Mine(r), [codes[Mine(r)] EXCEPT !.wrong = @ + 1])
           \/ fails = "code" /\ UNCHANGED code /\ codes' = Disturb({Mine(r)})
        /\ IF data.attempts < MaxAttempts THEN Return(r) ELSE Goto(r, "delete") /\ UNCHANGED <<guess, seen>>
  /\ UNCHANGED <<clock, cooldown, rate, mailed, failed>>

\* Mutant: the code stays after its use or its last guess.
DeleteNothing(r) ==
  /\ at[r] = "delete" /\ Return(r)
  /\ UNCHANGED <<clock, redis, ghosts>>

DeleteCode(r) ==
  /\ at[r] = "delete" /\ Return(r)
  /\ Unless(Delete, r)
  /\ UNCHANGED <<clock, cooldown, rate, mailed, failed>>

Tick ==
  /\ clock < MaxTime /\ \A r \in Request : at[r] = "away"
  /\ clock' = clock + 1
  /\ UNCHANGED <<redis, requests, ghosts>>

Step(r) ==
  \/ RequestVerifyCode(r)
  \/ \E l \in Limit : Incr(r, l) \/ IncrFails(r, l) \/ Expire(r, l)
  \/ SaveCode(r) \/ SaveCodeFails(r) \/ SetCooldown(r)
  \/ \E g \in 0 .. Len(codes) : VerifyCode(r, g)
  \/ TooManyAttempts(r) \/ Accept(r) \/ WrongGuess(r) \/ DeleteCode(r)

Next == ((\E r \in Request : Step(r)) \/ Tick) /\ UNCHANGED fails

-----------------------------------------------------------------------------
\* A code that no two requests handled at the same time and on which no command failed is accepted
\* at most once, survives at most MaxAttempts wrong guesses, is not accepted after them, and lives
\* at most MaxAttempts times its time to live, because each wrong guess begins it anew.
GuessesBounded ==
  \A n \in DOMAIN codes : ~codes[n].disturbed =>
    /\ codes[n].uses + codes[n].wrong <= MaxAttempts
    /\ codes[n].uses <= 1
    /\ Live(code) /\ code.code = n => clock < codes[n].born + MaxAttempts * CodeTTL

\* However requests overlap, the codes saved while a counter lives stay within its limit: INCR both
\* counts and answers. (The cooldown does not hold for overlapping requests.)
MailsBounded == \A l \in Limit : Live(rate[l]) => mailed[l] <= RateLimit[l]

\* A counter that will never expire, which locks the address out for good, needs a command that
\* failed; as long as none did, the request that created the counter is on its way to EXPIRE.
LockoutNeedsFailure ==
  \A l \in Limit :
    rate[l] # None /\ rate[l].until = Never =>
      l \in failed \/ \E r \in Request : at[r] = Expiring[l]
=============================================================================
