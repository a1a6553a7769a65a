--------------------------- MODULE TokenRegister ---------------------------
(***************************************************************************)
(* What the token service promises, without its caches: an answer about a  *)
(* token is the verdict on a record that was the token's record at some    *)
(* moment of the last Window ticks. Deletion is a record that is not       *)
(* active, so it is bounded by the same window as every other change.      *)
(***************************************************************************)
EXTENDS Integers, Sequences

CONSTANTS Token,    \* the tokens
          Reader,   \* the requests that validate a token
          Expiry,   \* the expiry times a record may have
          Window,   \* how long a superseded record may still be answered
          Faulty    \* whether the database may fail

VARIABLES now,      \* the clock
          hist,     \* [Token -> Seq of the records it has had]
          answer    \* [Reader -> what the last validation answered]

vars == <<now, hist, answer>>

Ever    == 99       \* later than any time
Nothing == [kind |-> "none"]
Denied  == [kind |-> "denied"]
Failed  == [kind |-> "error"]
Granted(t, v) == [kind |-> "granted", token |-> t, version |-> v]

\* A record: whether the token is active, when it expires, until when it was current.
Current(t)    == Len(hist[t])
Expired(r)    == now > r.expires
Verdict(t, v) == IF hist[t][v].active /\ ~Expired(hist[t][v]) THEN Granted(t, v) ELSE Denied
Recent(t)     == {v \in 1 .. Len(hist[t]) : now < hist[t][v].until + Window}
Verdicts(t)   == IF hist[t] = <<>> THEN {Denied} ELSE {Verdict(t, v) : v \in Recent(t)}

Record == [active : BOOLEAN, expires : Expiry, until : {Ever}]

\* A token gets its next record, and its record until now ends.
Supersede(t, r) ==
  LET n == Len(hist[t])
      old == IF n = 0 THEN <<>> ELSE [hist[t] EXCEPT ![n].until = now]
  IN hist' = [hist EXCEPT ![t] = Append(old, r)]

Init ==
  /\ now = 0
  /\ \A t \in Token : Len(hist[t]) <= 1 /\ \A v \in 1 .. Len(hist[t]) : hist[t][v].until = Ever
  /\ answer = [c \in Reader |-> Nothing]

Change ==
  /\ \E t \in Token : \E r \in Record : Supersede(t, r)
  /\ UNCHANGED <<now, answer>>

Ask ==
  /\ \E c \in Reader : answer' = [answer EXCEPT ![c] = Nothing]
  /\ UNCHANGED <<now, hist>>

Answer ==
  /\ \E c \in Reader, t \in Token :
       \E a \in Verdicts(t) \cup (IF Faulty THEN {Failed} ELSE {}) :
         answer' = [answer EXCEPT ![c] = a]
  /\ UNCHANGED <<now, hist>>

Tick == now' = now + 1 /\ UNCHANGED <<hist, answer>>

Next == Change \/ Ask \/ Answer \/ Tick
Spec == Init /\ [][Next]_vars
=============================================================================
