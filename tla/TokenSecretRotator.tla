------------------------- MODULE TokenSecretRotator -------------------------
(***************************************************************************)
(* Announce tokens of the DHT (src/src/dht/token_secret_rotator.cpp).  The *)
(* receive thread and the maintenance thread both call rotate_if_needed,   *)
(* and no lock guards the fields: every assignment is a step.              *)
(*                                                                         *)
(* A token is the secret it was made from: SHA-1 keeps secrets apart, and  *)
(* the address of the node enters both sides alike.  Concurrent accesses   *)
(* to one string are taken in some order, the mildest outcome of the race. *)
(***************************************************************************)
EXTENDS Clock

CONSTANTS
  Interval,     \* rotation_interval_, in ticks
  Ttl           \* PREV_SECRET_TTL, in ticks

ASSUME IntervalAssumption == Interval \in Nat \ {0} /\ Ttl \in Nat
ASSUME TtlAssumption == Interval <= Ttl

VARIABLES
  current_secret_, prev_secret_, last_rotation_, prev_secret_expires_,
  drawn,       \* number of secrets drawn by random_secret
  pc           \* next statement of each thread

secretVars == <<current_secret_, prev_secret_, last_rotation_,
                prev_secret_expires_, drawn>>

Threads == {"recv", "maintenance"}
NoSecret == 0    \* the empty string

TokenInit ==
  /\ drawn = 1
  /\ current_secret_ = 1 /\ prev_secret_ = NoSecret
  /\ last_rotation_ = 0 /\ prev_secret_expires_ = 0
  /\ pc = [t \in Threads |-> "idle"]

GoTo(t, label) == pc' = [pc EXCEPT ![t] = label]
Rotating(t) == pc[t] \in {"prev", "expires", "current", "last"}

\* Fault: the secret is replaced before it is kept as the previous one.
CurrentFirst == [idle |-> "current", current |-> "last", last |-> "prev",
                 prev |-> "expires", expires |-> "rotated"]

\* The order of the assignments in rotate_if_needed.
NextStatement == [idle |-> "prev", prev |-> "expires", expires |-> "current",
                  current |-> "last", last |-> "rotated"]

RotationDue == now - last_rotation_ >= Interval

\* The call, up to its first assignment.
rotate_if_needed(t) ==
  /\ pc[t] = "idle"
  /\ GoTo(t, IF RotationDue THEN NextStatement["idle"] ELSE "rotated")
  /\ UNCHANGED secretVars

KeepPrevious(t) ==
  /\ pc[t] = "prev"
  /\ prev_secret_' = current_secret_
  /\ GoTo(t, NextStatement["prev"])
  /\ UNCHANGED <<current_secret_, last_rotation_, prev_secret_expires_, drawn>>

SetExpiry(t) ==
  /\ pc[t] = "expires"
  /\ prev_secret_expires_' = now + Ttl
  /\ GoTo(t, NextStatement["expires"])
  /\ UNCHANGED <<current_secret_, prev_secret_, last_rotation_, drawn>>

DrawSecret(t) ==
  /\ pc[t] = "current"
  /\ drawn' = drawn + 1
  /\ current_secret_' = drawn + 1
  /\ GoTo(t, NextStatement["current"])
  /\ UNCHANGED <<prev_secret_, last_rotation_, prev_secret_expires_>>

SetRotation(t) ==
  /\ pc[t] = "last"
  /\ last_rotation_' = now
  /\ GoTo(t, NextStatement["last"])
  /\ UNCHANGED <<current_secret_, prev_secret_, prev_secret_expires_, drawn>>

Assignment(t) == KeepPrevious(t) \/ SetExpiry(t) \/ DrawSecret(t) \/ SetRotation(t)

verify_token(s) ==
  \/ s = current_secret_
  \/ prev_secret_ # NoSecret /\ now < prev_secret_expires_ /\ s = prev_secret_
=============================================================================
