-------------------------- MODULE DhtQueriesProofs --------------------------
(***************************************************************************)
(* Proofs about DhtQueries, for any rotation interval, any number of peers *)
(* and hashes and caches of any capacity.                                  *)
(*                                                                         *)
(* Tokens: the secret of a token that is younger than the interval is the  *)
(* current one, or a rotation that began after the token was issued has    *)
(* made it the previous one, and the next is not due yet (Held).  Peers: a *)
(* bucket lists its peers from the freshest to the oldest, as a prefix of  *)
(* what was reported (SoundPeers).                                         *)
(***************************************************************************)
EXTENDS DhtQueries, SequenceTheorems, TLAPS

-----------------------------------------------------------------------------
(* The inductive invariant.                                                 *)

Labels == {"idle", "prev", "expires", "current", "last", "rotated", "live_peers"}
Requests == [query : Queries, node : Peers, info_hash : Hashes]

TypeOK ==
  /\ now \in Nat
  /\ pc \in [Threads -> Labels]
  /\ current_secret_ \in Nat \ {0} /\ drawn \in Nat
  /\ prev_secret_ \in Nat /\ prev_secret_expires_ \in Nat
  /\ last_rotation_ \in Nat /\ issued_at \in Nat
  /\ met \in BOOLEAN
  /\ request \in Requests \cup {NoRequest}

\* No rotation has replaced the secret of the token: whoever rotates has kept
\* it as the previous one before drawing another.
IsCurrent ==
  /\ token.secret = current_secret_
  /\ \A t \in Threads :
       /\ pc[t] # "last"
       /\ pc[t] \in {"expires", "current"} => prev_secret_ = current_secret_
       /\ pc[t] = "current" => prev_secret_expires_ = now + Ttl

\* One rotation has replaced it, after it was issued.
IsPrevious ==
  /\ token.secret = prev_secret_ /\ prev_secret_ # NoSecret
  /\ prev_secret_expires_ >= issued_at + Ttl
  /\ \A t \in Threads : Rotating(t) => pc[t] = "last"
  /\ (\A t \in Threads : ~Rotating(t)) => last_rotation_ >= issued_at

Held ==
  token # NoToken /\ ~met /\ Age < Interval =>
    /\ \A t, u \in Threads : Rotating(t) /\ Rotating(u) => t = u
    /\ IsCurrent \/ IsPrevious

Tokens == issued_at <= now /\ Held

\* A cache without repetitions.
Distinct(s) == \A i, j \in 1 .. Len(s) : s[i] = s[j] => i = j

\* The peers of a bucket, its record and the times.
SoundPeers(ps, all, seen, at) ==
  /\ ps \in Seq(Peers) /\ all \in Seq(Peers) /\ Distinct(all)
  /\ Len(ps) <= Len(all) /\ \A i \in 1 .. Len(ps) : ps[i] = all[i]
  /\ Len(ps) <= MAX_PEERS_PER_HASH
  /\ Len(ps) < Len(all) => Len(ps) = MAX_PEERS_PER_HASH
  /\ \A i \in 1 .. Len(ps) : seen[ps[i]] \in 0 .. at
  /\ \A i, j \in 1 .. Len(ps) : i <= j => seen[ps[j]] <= seen[ps[i]]

Stored ==
  /\ peers \in [Hashes -> Seq(Peers)]
  /\ DOMAIN reported = Hashes /\ DOMAIN last_seen = Hashes
  /\ \A h \in Hashes : SoundPeers(peers[h], reported[h], last_seen[h], now)

IInv == TypeOK /\ Tokens /\ Stored

-----------------------------------------------------------------------------
(* Tokens.                                                                  *)

\* A thread that calls rotate_if_needed.
LEMMA EnterTokens ==
  ASSUME TypeOK, Tokens, NEW t \in Threads, Enters(t)
  PROVE  Tokens'
<1>1. /\ pc[t] = "idle"
      /\ pc' = [pc EXCEPT ![t] = IF RotationDue THEN "prev" ELSE "rotated"]
      /\ UNCHANGED <<now, current_secret_, prev_secret_, last_rotation_,
                     prev_secret_expires_, token, issued_at>>
      /\ met' = (met \/ (RotationDue /\ \E u \in Threads : Rotating(u)))
  BY Zenon DEF Enters, rotate_if_needed, GoTo, NextStatement, secretVars
<1>2. /\ \A u \in Threads : u # t => pc'[u] = pc[u]
      /\ pc'[t] = IF RotationDue THEN "prev" ELSE "rotated"
      /\ ~Rotating(t)
  BY Zenon, <1>1 DEF TypeOK, Rotating
<1>3. issued_at' <= now'
  BY Zenon, <1>1 DEF Tokens
<1>4. SUFFICES ASSUME (token # NoToken /\ ~met /\ Age < Interval)'
               PROVE  /\ (\A u, v \in Threads : Rotating(u) /\ Rotating(v) => u = v)'
                      /\ IsCurrent' \/ IsPrevious'
  BY Zenon, <1>3 DEF Tokens, Held
<1>5. /\ token # NoToken /\ ~met /\ Age < Interval
      /\ RotationDue => \A u \in Threads : ~Rotating(u)
  BY Zenon, <1>1, <1>4 DEF TypeOK, Age
<1>6. /\ \A u, v \in Threads : Rotating(u) /\ Rotating(v) => u = v
      /\ IsCurrent \/ IsPrevious
  BY Zenon, <1>5 DEF Tokens, Held
<1>7. CASE ~RotationDue
  <2>1. pc'[t] = "rotated"
    BY Zenon, <1>2, <1>7
  <2>2. \A u \in Threads : Rotating(u)' <=> Rotating(u)
    BY Zenon, <1>2, <2>1 DEF Rotating
  <2>3. CASE IsCurrent
    <3>1. IsCurrent'
      BY Zenon, <1>1, <1>2, <2>1, <2>3 DEF IsCurrent
    <3>. QED
      BY Zenon, <1>6, <2>2, <3>1
  <2>4. CASE IsPrevious
    <3>1. \A u \in Threads : Rotating(u)' => pc'[u] = "last"
      BY Zenon, <1>2, <2>1, <2>2, <2>4 DEF IsPrevious, Rotating
    <3>2. IsPrevious'
      BY Zenon, <1>1, <2>2, <2>4, <3>1 DEF IsPrevious
    <3>. QED
      BY Zenon, <1>6, <2>2, <3>2
  <2>. QED
    BY Zenon, <1>6, <2>3, <2>4
<1>8. CASE RotationDue
  <2>1. pc'[t] = "prev" /\ \A u \in Threads : ~Rotating(u)
    BY Zenon, <1>2, <1>5, <1>8
  <2>2. \A u \in Threads : Rotating(u)' => u = t
    BY Zenon, <1>2, <2>1 DEF Rotating
  <2>3. ~IsPrevious
    <3>1. SUFFICES ASSUME IsPrevious PROVE FALSE
      BY Zenon
    <3>2. last_rotation_ >= issued_at
      BY Zenon, <2>1, <3>1 DEF IsPrevious
    <3>. QED
      BY <1>5, <1>8, <3>2, IntervalAssumption DEF RotationDue, Age, TypeOK
  <2>4. IsCurrent'
    BY Zenon, <1>1, <1>2, <1>6, <2>1, <2>3 DEF IsCurrent
  <2>. QED
    BY Zenon, <2>2, <2>4
<1>. QED
  BY Zenon, <1>7, <1>8

\* prev_secret_ = current_secret_.
LEMMA KeepPreviousTokens ==
  ASSUME TypeOK, Tokens, NEW t \in Threads, KeepPrevious(t),
         UNCHANGED <<now, tokenVars>>
  PROVE  Tokens'
<1>1. /\ pc[t] = "prev" /\ pc' = [pc EXCEPT ![t] = "expires"]
      /\ prev_secret_' = current_secret_
      /\ UNCHANGED <<current_secret_, last_rotation_, prev_secret_expires_,
                     now, token, issued_at, met>>
  BY Zenon DEF KeepPrevious, GoTo, NextStatement, tokenVars
<1>2. pc'[t] = "expires" /\ \A u \in Threads : u # t => pc'[u] = pc[u]
  BY Zenon, <1>1 DEF TypeOK
<1>3. \A u \in Threads : Rotating(u)' <=> Rotating(u)
  BY Zenon, <1>1, <1>2 DEF Rotating
<1>4. ASSUME token # NoToken, ~met, Age < Interval
      PROVE  /\ (\A u, v \in Threads : Rotating(u) /\ Rotating(v) => u = v)'
             /\ IsCurrent'
  <2>1. Rotating(t) /\ pc[t] # "last"
    BY Zenon, <1>1 DEF Rotating
  <2>2. /\ \A u, v \in Threads : Rotating(u) /\ Rotating(v) => u = v
        /\ IsCurrent
    BY Zenon, <1>4, <2>1 DEF Tokens, Held, IsPrevious
  <2>3. \A u \in Threads : u # t => ~Rotating(u)
    BY Zenon, <2>1, <2>2
  <2>4. \A u \in Threads : u # t => pc'[u] \notin {"last", "expires", "current"}
    BY Zenon, <1>2, <2>3 DEF Rotating
  <2>5. IsCurrent'
    BY Zenon, <1>1, <1>2, <2>2, <2>4 DEF IsCurrent
  <2>. QED
    BY Zenon, <1>3, <2>2, <2>5
<1>. QED
  BY Zenon, <1>1, <1>4 DEF Tokens, Held, Age

\* prev_secret_expires_ = now + Ttl.
LEMMA SetExpiryTokens ==
  ASSUME TypeOK, Tokens, NEW t \in Threads, SetExpiry(t),
         UNCHANGED <<now, tokenVars>>
  PROVE  Tokens'
<1>1. /\ pc[t] = "expires" /\ pc' = [pc EXCEPT ![t] = "current"]
      /\ prev_secret_expires_' = now + Ttl
      /\ UNCHANGED <<current_secret_, prev_secret_, last_rotation_,
                     now, token, issued_at, met>>
  BY Zenon DEF SetExpiry, GoTo, NextStatement, tokenVars
<1>2. pc'[t] = "current" /\ \A u \in Threads : u # t => pc'[u] = pc[u]
  BY Zenon, <1>1 DEF TypeOK
<1>3. \A u \in Threads : Rotating(u)' <=> Rotating(u)
  BY Zenon, <1>1, <1>2 DEF Rotating
<1>4. ASSUME token # NoToken, ~met, Age < Interval
      PROVE  /\ (\A u, v \in Threads : Rotating(u) /\ Rotating(v) => u = v)'
             /\ IsCurrent'
  <2>1. Rotating(t) /\ pc[t] # "last"
    BY Zenon, <1>1 DEF Rotating
  <2>2. /\ \A u, v \in Threads : Rotating(u) /\ Rotating(v) => u = v
        /\ IsCurrent
    BY Zenon, <1>4, <2>1 DEF Tokens, Held, IsPrevious
  <2>3. \A u \in Threads : u # t => ~Rotating(u)
    BY Zenon, <2>1, <2>2
  <2>4. \A u \in Threads : u # t => pc'[u] \notin {"last", "expires", "current"}
    BY Zenon, <1>2, <2>3 DEF Rotating
  <2>5. IsCurrent'
    BY Zenon, <1>1, <1>2, <2>2, <2>4 DEF IsCurrent
  <2>. QED
    BY Zenon, <1>3, <2>2, <2>5
<1>. QED
  BY Zenon, <1>1, <1>4 DEF Tokens, Held, Age

\* current_secret_ = random_secret(): the token now has the previous secret.
LEMMA DrawSecretTokens ==
  ASSUME TypeOK, Tokens, NEW t \in Threads, DrawSecret(t),
         UNCHANGED <<now, tokenVars>>
  PROVE  Tokens'
<1>1. /\ pc[t] = "current" /\ pc' = [pc EXCEPT ![t] = "last"]
      /\ UNCHANGED <<prev_secret_, last_rotation_, prev_secret_expires_,
                     now, token, issued_at, met>>
  BY Zenon DEF DrawSecret, GoTo, NextStatement, tokenVars
<1>2. pc'[t] = "last" /\ \A u \in Threads : u # t => pc'[u] = pc[u]
  BY Zenon, <1>1 DEF TypeOK
<1>3. \A u \in Threads : Rotating(u)' <=> Rotating(u)
  BY Zenon, <1>1, <1>2 DEF Rotating
<1>4. ASSUME token # NoToken, ~met, Age < Interval
      PROVE  /\ (\A u, v \in Threads : Rotating(u) /\ Rotating(v) => u = v)'
             /\ IsPrevious'
  <2>1. Rotating(t) /\ pc[t] # "last"
    BY Zenon, <1>1 DEF Rotating
  <2>2. /\ \A u, v \in Threads : Rotating(u) /\ Rotating(v) => u = v
        /\ IsCurrent
    BY Zenon, <1>4, <2>1 DEF Tokens, Held, IsPrevious
  <2>3. \A u \in Threads : Rotating(u)' => pc'[u] = "last"
    BY Zenon, <1>2, <1>3, <2>1, <2>2
  <2>4. /\ token.secret = prev_secret_ /\ prev_secret_ # NoSecret
        /\ prev_secret_expires_ = now + Ttl
    BY Zenon, <1>1, <2>2 DEF IsCurrent, TypeOK, NoSecret
  <2>5. now + Ttl >= issued_at + Ttl
    BY IntervalAssumption DEF Tokens, TypeOK
  <2>6. Rotating(t)'
    BY Zenon, <1>3, <2>1
  <2>7. IsPrevious'
    BY Zenon, <1>1, <2>3, <2>4, <2>5, <2>6 DEF IsPrevious
  <2>. QED
    BY Zenon, <1>3, <2>2, <2>7
<1>. QED
  BY Zenon, <1>1, <1>4 DEF Tokens, Held, Age

\* last_rotation_ = now: the next rotation is an interval away.
LEMMA SetRotationTokens ==
  ASSUME TypeOK, Tokens, NEW t \in Threads, SetRotation(t),
         UNCHANGED <<now, tokenVars>>
  PROVE  Tokens'
<1>1. /\ pc[t] = "last" /\ pc' = [pc EXCEPT ![t] = "rotated"]
      /\ last_rotation_' = now
      /\ UNCHANGED <<current_secret_, prev_secret_, prev_secret_expires_,
                     now, token, issued_at, met>>
  BY Zenon DEF SetRotation, GoTo, NextStatement, tokenVars
<1>2. pc'[t] = "rotated" /\ \A u \in Threads : u # t => pc'[u] = pc[u]
  BY Zenon, <1>1 DEF TypeOK
<1>3. \A u \in Threads : Rotating(u)' => Rotating(u) /\ u # t
  BY Zenon, <1>1, <1>2 DEF Rotating
<1>4. ASSUME token # NoToken, ~met, Age < Interval
      PROVE  /\ (\A u, v \in Threads : Rotating(u) /\ Rotating(v) => u = v)'
             /\ IsPrevious'
  <2>1. Rotating(t)
    BY Zenon, <1>1 DEF Rotating
  <2>2. /\ \A u, v \in Threads : Rotating(u) /\ Rotating(v) => u = v
        /\ IsPrevious
    BY Zenon, <1>1, <1>4 DEF Tokens, Held, IsCurrent
  <2>3. \A u \in Threads : ~Rotating(u)'
    BY Zenon, <1>3, <2>1, <2>2
  <2>4. last_rotation_' >= issued_at'
    BY Zenon, <1>1 DEF Tokens, TypeOK
  <2>5. IsPrevious'
    BY Zenon, <1>1, <2>2, <2>3, <2>4 DEF IsPrevious
  <2>. QED
    BY Zenon, <2>3, <2>5
<1>. QED
  BY Zenon, <1>1, <1>4 DEF Tokens, Held, Age

\* A thread that moves between statements outside the rotation.
LEMMA QuietTokens ==
  ASSUME TypeOK, Tokens, UNCHANGED <<now, secretVars, tokenVars>>,
         NEW t \in Threads, ~Rotating(t), NEW label \in Labels,
         label \notin {"prev", "expires", "current", "last"},
         pc' = pc \/ pc' = [pc EXCEPT ![t] = label]
  PROVE  Tokens'
<1>1. UNCHANGED <<now, current_secret_, prev_secret_, last_rotation_,
                  prev_secret_expires_, token, issued_at, met>>
  BY Zenon DEF secretVars, tokenVars
<1>2. \A u \in Threads : /\ pc'[u] = pc[u] \/ (~Rotating(u) /\ ~Rotating(u)')
                         /\ Rotating(u)' <=> Rotating(u)
  BY Zenon DEF TypeOK, Rotating
<1>3. IsCurrent => IsCurrent'
  BY Zenon, <1>1, <1>2 DEF IsCurrent, Rotating
<1>4. IsPrevious => IsPrevious'
  BY Zenon, <1>1, <1>2 DEF IsPrevious, Rotating
<1>. QED
  BY Zenon, <1>1, <1>2, <1>3, <1>4 DEF Tokens, Held, Age

\* A token is issued.
LEMMA IssueTokens ==
  ASSUME TypeOK, Tokens, pc["recv"] = "rotated",
         pc' = [pc EXCEPT !["recv"] = "live_peers"],
         UNCHANGED <<now, secretVars>>, token'.secret = current_secret_,
         issued_at' = now, met' = \E u \in Threads : Rotating(u)
  PROVE  Tokens'
<1>1. UNCHANGED <<now, current_secret_, prev_secret_, prev_secret_expires_>>
  BY Zenon DEF secretVars
<1>2. \A u \in Threads : Rotating(u)' => Rotating(u)
  BY Zenon DEF TypeOK, Rotating
<1>3. ASSUME ~met' PROVE (\A u \in Threads : ~Rotating(u))' /\ IsCurrent'
  <2>1. \A u \in Threads : ~Rotating(u)'
    BY Zenon, <1>2, <1>3
  <2>. QED
    BY Zenon, <1>1, <2>1 DEF IsCurrent, Rotating
<1>4. issued_at' <= now'
  BY <1>1 DEF TypeOK
<1>. QED
  BY Zenon, <1>3, <1>4 DEF Tokens, Held

\* The clock moves on while neither thread is in a call.
LEMMA TickTokens ==
  ASSUME TypeOK, Tokens, Tick
  PROVE  Tokens'
<1>1. /\ now' = now + 1 /\ \A t \in Threads : pc[t] = "idle" /\ pc'[t] = "idle"
      /\ UNCHANGED <<current_secret_, prev_secret_, last_rotation_,
                     prev_secret_expires_, token, issued_at, met>>
  BY Zenon DEF Tick, secretVars, tokenVars
<1>2. \A t \in Threads : ~Rotating(t) /\ ~Rotating(t)'
  BY Zenon, <1>1 DEF Rotating
<1>3. issued_at' <= now' /\ (Age' < Interval => Age < Interval)
  BY <1>1, IntervalAssumption DEF Tokens, TypeOK, Age
<1>4. IsCurrent => IsCurrent'
  BY Zenon, <1>1 DEF IsCurrent
<1>5. IsPrevious => IsPrevious'
  BY Zenon, <1>1, <1>2 DEF IsPrevious
<1>. QED
  BY Zenon, <1>1, <1>2, <1>3, <1>4, <1>5 DEF Tokens, Held

-----------------------------------------------------------------------------
(* Caches.                                                                  *)

\* RemoveAt moves the elements behind the one removed up.
LEMMA RemoveAtProperties ==
  ASSUME NEW S, NEW s \in Seq(S), NEW i \in 1 .. Len(s)
  PROVE  /\ RemoveAt(s, i) \in Seq(S)
         /\ Len(RemoveAt(s, i)) = Len(s) - 1
         /\ \A j \in 1 .. Len(s) - 1 :
              RemoveAt(s, i)[j] = IF j < i THEN s[j] ELSE s[j + 1]
<1>. DEFINE before == SubSeq(s, 1, i - 1)
            behind == SubSeq(s, i + 1, Len(s))
<1>1. Len(s) \in Nat /\ \A j \in 1 .. Len(s) : s[j] \in S
  BY Zenon, LenProperties, ElementOfSeq
<1>2. \A j \in 1 .. i - 1 : s[j] \in S
  BY <1>1
<1>3. \A j \in i + 1 .. Len(s) : s[j] \in S
  BY <1>1
<1>4. before \in Seq(S) /\ Len(before) = i - 1 /\ \A j \in 1 .. i - 1 : before[j] = s[j]
  <2>1. /\ SubSeq(s, 1, i - 1) \in Seq(S)
        /\ Len(SubSeq(s, 1, i - 1)) = IF 1 <= i - 1 THEN (i - 1) - 1 + 1 ELSE 0
        /\ \A j \in 1 .. (i - 1) - 1 + 1 : SubSeq(s, 1, i - 1)[j] = s[1 + j - 1]
    BY <1>1, <1>2, SubSeqProperties
  <2>. QED
    BY <1>1, <2>1
<1>5. /\ behind \in Seq(S) /\ Len(behind) = Len(s) - i
      /\ \A j \in 1 .. Len(s) - i : behind[j] = s[i + j]
  <2>1. /\ SubSeq(s, i + 1, Len(s)) \in Seq(S)
        /\ Len(SubSeq(s, i + 1, Len(s))) =
             IF i + 1 <= Len(s) THEN Len(s) - (i + 1) + 1 ELSE 0
        /\ \A j \in 1 .. Len(s) - (i + 1) + 1 :
             SubSeq(s, i + 1, Len(s))[j] = s[(i + 1) + j - 1]
    BY <1>1, <1>3, SubSeqProperties
  <2>. QED
    BY <1>1, <2>1
<1>6. RemoveAt(s, i) = before \o behind
  BY Zenon DEF RemoveAt
<1>. HIDE DEF before, behind
<1>7. /\ before \o behind \in Seq(S)
      /\ Len(before \o behind) = Len(before) + Len(behind)
      /\ \A j \in 1 .. Len(before) + Len(behind) :
           (before \o behind)[j] =
             IF j <= Len(before) THEN before[j] ELSE behind[j - Len(before)]
  BY Zenon, <1>4, <1>5, ConcatProperties
<1>8. ASSUME NEW j \in 1 .. Len(s) - 1
      PROVE  RemoveAt(s, i)[j] = IF j < i THEN s[j] ELSE s[j + 1]
  <2>1. CASE j < i
    BY <1>1, <1>4, <1>5, <1>6, <1>7, <2>1
  <2>2. CASE ~(j < i)
    <3>1. j - (i - 1) \in 1 .. Len(s) - i /\ i + (j - (i - 1)) = j + 1
      BY <1>1, <2>2
    <3>2. RemoveAt(s, i)[j] = behind[j - (i - 1)]
      BY <1>1, <1>4, <1>5, <1>6, <1>7, <2>2
    <3>. QED
      BY Zenon, <1>5, <2>2, <3>1, <3>2
  <2>. QED
    BY Zenon, <2>1, <2>2
<1>. QED
  BY <1>1, <1>4, <1>5, <1>6, <1>7, <1>8

\* Elements of s, in the order of s.
Thinned(r, s) ==
  /\ \A i \in 1 .. Len(r) : \E k \in 1 .. Len(s) : r[i] = s[k]
  /\ \A i, j \in 1 .. Len(r) : i < j =>
       \E k, l \in 1 .. Len(s) : k < l /\ r[i] = s[k] /\ r[j] = s[l]

\* Every element but one, when elements do not repeat.
LEMMA RemoveAtThins ==
  ASSUME NEW S, NEW s \in Seq(S), Distinct(s), NEW i \in 1 .. Len(s)
  PROVE  /\ Thinned(RemoveAt(s, i), s)
         /\ \A j \in 1 .. Len(s) - 1 : RemoveAt(s, i)[j] # s[i]
<1>. DEFINE r == RemoveAt(s, i)
            from(j) == IF j < i THEN j ELSE j + 1
<1>1. Len(s) \in Nat
  BY Zenon, LenProperties
<1>2. Len(r) = Len(s) - 1 /\ \A j \in 1 .. Len(s) - 1 : r[j] = s[from(j)]
  BY Zenon, RemoveAtProperties
<1>. HIDE DEF r
<1>3. \A j \in 1 .. Len(s) - 1 : from(j) \in 1 .. Len(s) /\ from(j) # i
  BY <1>1
<1>4. \A j, k \in 1 .. Len(s) - 1 : j < k => from(j) < from(k)
  BY <1>1
<1>. HIDE DEF from
<1>5. \A j \in 1 .. Len(s) - 1 : r[j] # s[i]
  BY Zenon, <1>2, <1>3 DEF Distinct
<1>6. Thinned(r, s)
  BY Zenon, <1>2, <1>3, <1>4 DEF Thinned
<1>. QED
  BY Zenon, <1>5, <1>6 DEF r

\* The loss of its last element thins a cache.
LEMMA FrontThins ==
  ASSUME NEW S, NEW s \in Seq(S), s # <<>>
  PROVE  /\ Front(s) \in Seq(S) /\ Len(Front(s)) = Len(s) - 1
         /\ \A i \in 1 .. Len(s) - 1 : Front(s)[i] = s[i]
         /\ Thinned(Front(s), s)
<1>1. Len(s) \in Nat \ {0} /\ \A i \in 1 .. Len(s) : s[i] \in S
  BY Zenon, EmptySeq, LenProperties, ElementOfSeq
<1>2. \A i \in 1 .. Len(s) - 1 : s[i] \in S
  BY <1>1
<1>3. /\ SubSeq(s, 1, Len(s) - 1) \in Seq(S)
      /\ Len(SubSeq(s, 1, Len(s) - 1)) =
           IF 1 <= Len(s) - 1 THEN (Len(s) - 1) - 1 + 1 ELSE 0
      /\ \A i \in 1 .. (Len(s) - 1) - 1 + 1 :
           SubSeq(s, 1, Len(s) - 1)[i] = s[1 + i - 1]
  BY <1>1, <1>2, SubSeqProperties
<1>4. /\ Front(s) \in Seq(S) /\ Len(Front(s)) = Len(s) - 1
      /\ \A i \in 1 .. Len(s) - 1 : Front(s)[i] = s[i]
  <2>. DEFINE f == SubSeq(s, 1, Len(s) - 1)
  <2>1. \A i \in 1 .. Len(s) - 1 : i \in 1 .. (Len(s) - 1) - 1 + 1 /\ 1 + i - 1 = i
    BY <1>1
  <2>2. \A i \in 1 .. Len(s) - 1 : f[i] = s[i]
    BY <1>3, <2>1, Zenon
  <2>3. \A n \in Nat \ {0} : (IF 1 <= n - 1 THEN (n - 1) - 1 + 1 ELSE 0) = n - 1
    OBVIOUS
  <2>4. Len(f) = Len(s) - 1
    <3>1. Len(s) \in Nat \ {0}
      BY Zenon, <1>1
    <3>. QED
      BY <1>3, <2>3, <3>1, Zenon
  <2>. QED
    BY <1>3, <2>2, <2>4, Zenon DEF Front
<1>5. \A i \in 1 .. Len(s) - 1 : i \in 1 .. Len(s)
  BY <1>1
<1>6. Thinned(Front(s), s)
  BY <1>4, <1>5 DEF Thinned
<1>. QED
  BY Zenon, <1>4, <1>6

\* A cache is thinned by nothing.
LEMMA SameThins ==
  ASSUME NEW s
  PROVE  Thinned(s, s)
BY Zenon DEF Thinned

\* Where RemoveFirst finds the element.
LEMMA RemoveFirstIs ==
  ASSUME NEW S, NEW s \in Seq(S), Distinct(s), NEW e
  PROVE  /\ (\A i \in 1 .. Len(s) : s[i] # e) => RemoveFirst(s, e) = s
         /\ \A i \in 1 .. Len(s) : s[i] = e => RemoveFirst(s, e) = RemoveAt(s, i)
<1>1. Len(s) \in Nat
  BY Zenon, LenProperties
<1>2. ASSUME \A i \in 1 .. Len(s) : s[i] # e
      PROVE  RemoveFirst(s, e) = s
  BY Zenon, <1>2 DEF RemoveFirst
<1>3. ASSUME NEW i \in 1 .. Len(s), s[i] = e
      PROVE  RemoveFirst(s, e) = RemoveAt(s, i)
  <2>. DEFINE found == {j \in 1 .. Len(s) : s[j] = e}
  <2>1. found = {i} /\ i \in Nat
    BY <1>1, <1>3 DEF Distinct
  <2>2. Min(found) = i
    BY <2>1 DEF Min
  <2>. QED
    BY Zenon, <1>3, <2>1, <2>2 DEF RemoveFirst, SelectInSeq
<1>. QED
  BY Zenon, <1>2, <1>3

\* An element in front of a cache.
LEMMA InFront ==
  ASSUME NEW S, NEW r \in Seq(S), NEW e \in S
  PROVE  /\ <<e>> \o r \in Seq(S) /\ Len(<<e>> \o r) = Len(r) + 1
         /\ (<<e>> \o r)[1] = e
         /\ \A i \in 1 .. Len(r) : (<<e>> \o r)[i + 1] = r[i]
         /\ \A i \in 1 .. Len(r) + 1 : i = 1 \/ \E j \in 1 .. Len(r) : i = j + 1
<1>1. Len(r) \in Nat
  BY Zenon, LenProperties
<1>2. <<e>> \in Seq(S) /\ Len(<<e>>) = 1 /\ <<e>>[1] = e
  OBVIOUS
<1>3. /\ <<e>> \o r \in Seq(S)
      /\ Len(<<e>> \o r) = 1 + Len(r)
      /\ \A i \in 1 .. 1 + Len(r) :
           (<<e>> \o r)[i] = IF i <= 1 THEN <<e>>[i] ELSE r[i - 1]
  BY Zenon, <1>2, ConcatProperties
<1>4. ASSUME NEW i \in 1 .. Len(r)
      PROVE  (<<e>> \o r)[i + 1] = r[i]
  <2>1. i + 1 \in 1 .. 1 + Len(r) /\ ~(i + 1 <= 1) /\ (i + 1) - 1 = i
    BY <1>1
  <2>. QED
    BY Zenon, <1>3, <2>1
<1>5. ASSUME NEW i \in 1 .. Len(r) + 1, i # 1
      PROVE  \E j \in 1 .. Len(r) : i = j + 1
  <2>1. i - 1 \in 1 .. Len(r) /\ i = (i - 1) + 1
    BY <1>1, <1>5
  <2>. QED
    BY Zenon, <2>1
<1>6. (<<e>> \o r)[1] = e
  BY <1>1, <1>2, <1>3
<1>7. Len(<<e>> \o r) = Len(r) + 1
  BY <1>1, <1>3
<1>. QED
  BY Zenon, <1>3, <1>4, <1>5, <1>6, <1>7

\* What is left of a bucket and of its record behind a peer that goes to the
\* front.
Rest(p, ps, all, r, ra) ==
  /\ r \in Seq(Peers) /\ Thinned(r, ps)
  /\ ra \in Seq(Peers) /\ Thinned(ra, all)
  /\ \A j \in 1 .. Len(ra) : ra[j] # p
  /\ Len(r) <= Len(ra) /\ \A j \in 1 .. Len(r) : r[j] = ra[j]
  /\ Len(r) < MAX_PEERS_PER_HASH
  /\ Len(r) < Len(ra) => Len(r) + 1 = MAX_PEERS_PER_HASH

\* A peer goes to the front of a bucket and of its record, and some of the
\* others may go.
LEMMA Promoted ==
  ASSUME now \in Nat, NEW p \in Peers, NEW ps, NEW all, NEW seen,
         SoundPeers(ps, all, seen, now), NEW r, NEW ra, Rest(p, ps, all, r, ra)
  PROVE  SoundPeers(<<p>> \o r, <<p>> \o ra,
                    [q \in Keys(<<p>> \o r) |-> IF q = p THEN now ELSE seen[q]], now)
<1>. DEFINE u == <<p>> \o r
            v == <<p>> \o ra
            seen2 == [q \in Keys(u) |-> IF q = p THEN now ELSE seen[q]]
<1>0. /\ r \in Seq(Peers) /\ Thinned(r, ps)
      /\ ra \in Seq(Peers) /\ Thinned(ra, all)
      /\ \A j \in 1 .. Len(ra) : ra[j] # p
      /\ Len(r) <= Len(ra) /\ \A j \in 1 .. Len(r) : r[j] = ra[j]
      /\ Len(r) < MAX_PEERS_PER_HASH
      /\ Len(r) < Len(ra) => Len(r) + 1 = MAX_PEERS_PER_HASH
  BY Zenon DEF Rest
<1>1. Len(r) \in Nat /\ Len(ra) \in Nat
  BY Zenon, <1>0, LenProperties
<1>2. /\ u \in Seq(Peers) /\ Len(u) = Len(r) + 1 /\ u[1] = p
      /\ \A i \in 1 .. Len(r) : u[i + 1] = r[i]
      /\ \A i \in 1 .. Len(r) + 1 : i = 1 \/ \E j \in 1 .. Len(r) : i = j + 1
  BY <1>0, InFront
<1>3. /\ v \in Seq(Peers) /\ Len(v) = Len(ra) + 1 /\ v[1] = p
      /\ \A i \in 1 .. Len(ra) : v[i + 1] = ra[i]
      /\ \A i \in 1 .. Len(ra) + 1 : i = 1 \/ \E j \in 1 .. Len(ra) : i = j + 1
  BY <1>0, InFront
<1>4. seen2 = [q \in Keys(u) |-> IF q = p THEN now ELSE seen[q]]
  BY Zenon
<1>. HIDE DEF u, v, seen2
<1>5. Distinct(v)
  <2>1. \A k, l \in 1 .. Len(ra) : k < l => ra[k] # ra[l]
    <3>1. SUFFICES ASSUME NEW k \in 1 .. Len(ra), NEW l \in 1 .. Len(ra), k < l
                   PROVE  ra[k] # ra[l]
      BY Zenon
    <3>2. PICK x, y \in 1 .. Len(all) : x < y /\ ra[k] = all[x] /\ ra[l] = all[y]
      BY Zenon, <1>0, <3>1 DEF Thinned
    <3>3. all[x] # all[y]
      BY <3>2 DEF SoundPeers, Distinct
    <3>. QED
      BY Zenon, <3>2, <3>3
  <2>2. \A k, l \in 1 .. Len(ra) : ra[k] = ra[l] => k = l
    <3>1. \A k, l \in 1 .. Len(ra) : k = l \/ k < l \/ l < k
      BY <1>1
    <3>. QED
      BY Zenon, <2>1, <3>1
  <2>3. SUFFICES ASSUME NEW i \in 1 .. Len(v), NEW j \in 1 .. Len(v), v[i] = v[j]
                 PROVE  i = j
    BY Zenon DEF Distinct
  <2>4. \A k \in 1 .. Len(v) : v[k] = p => k = 1
    <3>1. SUFFICES ASSUME NEW k \in 1 .. Len(v), k # 1 PROVE v[k] # p
      BY Zenon
    <3>2. PICK l \in 1 .. Len(ra) : k = l + 1
      BY Zenon, <1>3, <3>1
    <3>. QED
      BY Zenon, <1>0, <1>3, <3>2
  <2>5. CASE i = 1
    BY Zenon, <1>3, <2>4, <2>3, <2>5
  <2>6. CASE j = 1
    BY Zenon, <1>3, <2>4, <2>3, <2>6
  <2>7. CASE i # 1 /\ j # 1
    <3>1. PICK k \in 1 .. Len(ra) : i = k + 1
      BY Zenon, <1>3, <2>7
    <3>2. PICK l \in 1 .. Len(ra) : j = l + 1
      BY Zenon, <1>3, <2>7
    <3>3. ra[k] = ra[l]
      BY Zenon, <1>3, <2>3, <3>1, <3>2
    <3>. QED
      BY Zenon, <2>2, <3>1, <3>2, <3>3
  <2>. QED
    BY Zenon, <2>5, <2>6, <2>7
<1>6. \A i \in 1 .. Len(u) : u[i] = v[i]
  <2>1. SUFFICES ASSUME NEW i \in 1 .. Len(u) PROVE u[i] = v[i]
    BY Zenon
  <2>2. CASE i = 1
    BY Zenon, <1>2, <1>3, <2>2
  <2>3. CASE i # 1
    <3>1. PICK j \in 1 .. Len(r) : i = j + 1
      BY Zenon, <1>2, <2>3
    <3>2. j \in 1 .. Len(ra)
      BY <1>0, <1>1
    <3>. QED
      BY Zenon, <1>0, <1>2, <1>3, <3>1, <3>2
  <2>. QED
    BY Zenon, <2>2, <2>3
<1>7. /\ Len(u) <= Len(v) /\ Len(u) <= MAX_PEERS_PER_HASH
      /\ Len(u) < Len(v) => Len(u) = MAX_PEERS_PER_HASH
  BY <1>0, <1>1, <1>2, <1>3, CapacityAssumption
<1>8. /\ seen2[u[1]] = now
      /\ \A i \in 1 .. Len(r) : seen2[u[i + 1]] = seen[r[i]]
  <2>1. \A i \in 1 .. Len(u) : u[i] \in Keys(u)
    <3>1. DOMAIN u = 1 .. Len(u)
      BY Zenon, <1>2, LenProperties
    <3>. QED
      BY Zenon, <3>1 DEF Keys, ToSet
  <2>2. \A i \in 1 .. Len(r) : i + 1 \in 1 .. Len(u)
    BY <1>1, <1>2
  <2>3. 1 \in 1 .. Len(u)
    BY <1>1, <1>2
  <2>4. \A i \in 1 .. Len(r) : r[i] # p
    BY <1>0, <1>1
  <2>5. seen2[u[1]] = now
    BY Zenon, <1>2, <1>4, <2>1, <2>3
  <2>6. ASSUME NEW i \in 1 .. Len(r)
        PROVE  seen2[u[i + 1]] = seen[r[i]]
    <3>1. u[i + 1] \in Keys(u) /\ u[i + 1] = r[i] /\ r[i] # p
      BY Zenon, <1>2, <2>1, <2>2, <2>4
    <3>. QED
      BY Zenon, <1>4, <3>1
  <2>. QED
    BY Zenon, <2>5, <2>6
<1>9. \A i \in 1 .. Len(r) : seen[r[i]] \in 0 .. now
  BY Zenon, <1>0 DEF SoundPeers, Thinned
<1>10. \A i, j \in 1 .. Len(r) : i <= j => seen[r[j]] <= seen[r[i]]
  <2>1. SUFFICES ASSUME NEW i \in 1 .. Len(r), NEW j \in 1 .. Len(r), i <= j
                 PROVE  seen[r[j]] <= seen[r[i]]
    BY Zenon
  <2>2. CASE i = j
    BY <1>9, <2>2
  <2>3. CASE i < j
    <3>1. PICK x, y \in 1 .. Len(ps) : x < y /\ r[i] = ps[x] /\ r[j] = ps[y]
      BY Zenon, <1>0, <2>3 DEF Thinned
    <3>2. x <= y
      BY <3>1
    <3>. QED
      BY Zenon, <3>1, <3>2 DEF SoundPeers
  <2>. QED
    BY <2>1, <2>2, <2>3
<1>11. \A i \in 1 .. Len(u) : seen2[u[i]] \in 0 .. now
  <2>1. SUFFICES ASSUME NEW i \in 1 .. Len(u) PROVE seen2[u[i]] \in 0 .. now
    BY Zenon
  <2>2. CASE i = 1
    BY <1>8, <2>2
  <2>3. CASE i # 1
    <3>1. PICK k \in 1 .. Len(r) : i = k + 1
      BY Zenon, <1>2, <2>3
    <3>. QED
      BY Zenon, <1>8, <1>9, <3>1
  <2>. QED
    BY Zenon, <2>2, <2>3
<1>12. \A i, j \in 1 .. Len(u) : i <= j => seen2[u[j]] <= seen2[u[i]]
  <2>1. SUFFICES ASSUME NEW i \in 1 .. Len(u), NEW j \in 1 .. Len(u), i <= j
                 PROVE  seen2[u[j]] <= seen2[u[i]]
    BY Zenon
  <2>2. CASE i = 1
    BY <1>8, <1>11, <2>2
  <2>3. CASE i # 1
    <3>1. PICK k \in 1 .. Len(r) : i = k + 1
      BY Zenon, <1>2, <2>3
    <3>2. j # 1
      BY <2>1, <2>3
    <3>3. PICK l \in 1 .. Len(r) : j = l + 1
      BY Zenon, <1>2, <3>2
    <3>4. k <= l
      BY <2>1, <3>1, <3>3
    <3>. QED
      BY Zenon, <1>8, <1>10, <3>1, <3>3, <3>4
  <2>. QED
    BY Zenon, <2>2, <2>3
<1>. QED
  BY Zenon, <1>2, <1>3, <1>5, <1>6, <1>7, <1>11, <1>12 DEF SoundPeers, u, v, seen2

\* upsert on one bucket: the peer is moved to the front, or takes the place of
\* the one seen least recently when the bucket is full.
LEMMA PutIsSound ==
  ASSUME now \in Nat, NEW p \in Peers, NEW ps, NEW all, NEW seen,
         SoundPeers(ps, all, seen, now), NEW seen2,
         seen2 = [q \in Keys(put(ps, p, MAX_PEERS_PER_HASH)) |->
                    IF q = p THEN now ELSE seen[q]]
  PROVE  SoundPeers(put(ps, p, MAX_PEERS_PER_HASH), ToFront(all, p), seen2, now)
<1>. DEFINE M == MAX_PEERS_PER_HASH
<1>1. /\ ps \in Seq(Peers) /\ all \in Seq(Peers) /\ Distinct(all)
      /\ Len(ps) \in Nat /\ Len(all) \in Nat /\ M \in Nat \ {0}
      /\ Len(ps) <= Len(all) /\ \A i \in 1 .. Len(ps) : ps[i] = all[i]
      /\ Len(ps) <= M /\ (Len(ps) < Len(all) => Len(ps) = M)
  BY Zenon, LenProperties, CapacityAssumption DEF SoundPeers
<1>2. \A i \in 1 .. Len(ps) : i \in 1 .. Len(all)
  BY <1>1
<1>3. Distinct(ps)
  BY Zenon, <1>1, <1>2 DEF Distinct
<1>4. \A x : x \in Keys(ps) <=> \E i \in 1 .. Len(ps) : ps[i] = x
  BY Zenon, <1>1, LenProperties DEF Keys, ToSet
<1>. HIDE DEF M
<1>5. ASSUME NEW r \in Seq(Peers), NEW ra \in Seq(Peers),
             put(ps, p, M) = <<p>> \o r, RemoveFirst(all, p) = ra,
             Thinned(r, ps), Thinned(ra, all), \A j \in 1 .. Len(ra) : ra[j] # p,
             Len(r) <= Len(ra), \A j \in 1 .. Len(r) : r[j] = ra[j],
             Len(r) < M, Len(r) < Len(ra) => Len(r) + 1 = M
      PROVE  SoundPeers(put(ps, p, M), ToFront(all, p), seen2, now)
  <2>1. seen2 = [q \in Keys(<<p>> \o r) |-> IF q = p THEN now ELSE seen[q]]
    BY Zenon, <1>5 DEF M
  <2>2. ToFront(all, p) = <<p>> \o ra
    BY Zenon, <1>5 DEF ToFront
  <2>3. Rest(p, ps, all, r, ra)
    BY Zenon, <1>5 DEF M, Rest
  <2>4. SoundPeers(<<p>> \o r, <<p>> \o ra, seen2, now)
    <3>1. SoundPeers(<<p>> \o r, <<p>> \o ra,
            [q \in Keys(<<p>> \o r) |-> IF q = p THEN now ELSE seen[q]], now)
      BY Zenon, <2>3, Promoted
    <3>. QED
      BY Zenon, <2>1, <3>1
  <2>. QED
    BY Zenon, <1>5, <2>2, <2>4
<1>6. CASE p \in Keys(ps)
  <2>1. PICK i \in 1 .. Len(ps) : ps[i] = p
    BY Zenon, <1>4, <1>6
  <2>2. i \in 1 .. Len(all) /\ all[i] = p
    BY Zenon, <1>1, <1>2, <2>1
  <2>. DEFINE r == RemoveAt(ps, i)
              ra == RemoveAt(all, i)
  <2>3. put(ps, p, M) = <<p>> \o r
    BY Zenon, <1>1, <1>3, <1>6, <2>1, RemoveFirstIs DEF put, ToFront
  <2>4. RemoveFirst(all, p) = ra
    BY Zenon, <1>1, <2>2, RemoveFirstIs
  <2>5. /\ r \in Seq(Peers) /\ Len(r) = Len(ps) - 1
        /\ \A j \in 1 .. Len(ps) - 1 : r[j] = IF j < i THEN ps[j] ELSE ps[j + 1]
    BY Zenon, <1>1, RemoveAtProperties
  <2>6. /\ ra \in Seq(Peers) /\ Len(ra) = Len(all) - 1
        /\ \A j \in 1 .. Len(all) - 1 : ra[j] = IF j < i THEN all[j] ELSE all[j + 1]
    BY Zenon, <1>1, <2>2, RemoveAtProperties
  <2>7. Thinned(r, ps)
    BY Zenon, <1>1, <1>3, RemoveAtThins
  <2>8. Thinned(ra, all) /\ \A j \in 1 .. Len(ra) : ra[j] # p
    BY Zenon, <1>1, <2>2, <2>6, RemoveAtThins
  <2>. HIDE DEF r, ra
  <2>9. \A j \in 1 .. Len(r) : r[j] = ra[j]
    <3>1. SUFFICES ASSUME NEW j \in 1 .. Len(r) PROVE r[j] = ra[j]
      BY Zenon
    <3>2. /\ j \in 1 .. Len(ps) - 1 /\ j \in 1 .. Len(all) - 1
          /\ j \in 1 .. Len(ps) /\ j + 1 \in 1 .. Len(ps)
      BY <1>1, <2>5
    <3>. QED
      BY Zenon, <1>1, <2>5, <2>6, <3>2
  <2>10. /\ Len(r) <= Len(ra) /\ Len(r) < M
         /\ Len(r) < Len(ra) => Len(r) + 1 = M
    BY <1>1, <2>5, <2>6
  <2>11. SoundPeers(put(ps, p, M), ToFront(all, p), seen2, now)
    BY Zenon, <1>5, <2>3, <2>4, <2>5, <2>6, <2>7, <2>8, <2>9, <2>10
  <2>. QED
    BY Zenon, <2>11 DEF M
<1>7. CASE p \notin Keys(ps)
  <2>. DEFINE r == evict_lru(ps, M)
  <2>1. \A i \in 1 .. Len(ps) : ps[i] # p
    BY Zenon, <1>4, <1>7
  <2>2. /\ r \in Seq(Peers) /\ Distinct(r) /\ Thinned(r, ps)
        /\ Len(r) <= Len(ps) /\ Len(r) < M /\ Len(r) \in Nat
        /\ Len(r) = (IF Len(ps) = M THEN M - 1 ELSE Len(ps))
        /\ \A j \in 1 .. Len(r) : r[j] = ps[j]
    <3>1. CASE Len(ps) = M
      <4>1. ps # <<>> /\ r = Front(ps)
        BY Zenon, <1>1, <3>1 DEF evict_lru
      <4>2. /\ r \in Seq(Peers) /\ Len(r) = M - 1 /\ Thinned(r, ps)
            /\ \A j \in 1 .. M - 1 : r[j] = ps[j]
        BY <1>1, <3>1, <4>1, FrontThins
      <4>. HIDE DEF r
      <4>3. \A j \in 1 .. M - 1 : j \in 1 .. Len(ps)
        BY <1>1, <3>1
      <4>4. Distinct(r)
        BY Zenon, <1>3, <4>2, <4>3 DEF Distinct
      <4>. QED
        BY <1>1, <3>1, <4>2, <4>4
    <3>2. CASE Len(ps) # M
      <4>1. r = ps
        BY <1>1, <3>2 DEF evict_lru
      <4>. HIDE DEF r
      <4>. QED
        BY <1>1, <1>3, <3>2, <4>1, SameThins
    <3>. QED
      BY Zenon, <3>1, <3>2
  <2>3. \A j \in 1 .. Len(r) : j \in 1 .. Len(ps) /\ j \in 1 .. Len(all)
    <3>. HIDE DEF r
    <3>. QED
      BY <1>1, <2>2
  <2>4. RemoveFirst(r, p) = r
    <3>. HIDE DEF r
    <3>1. \A j \in 1 .. Len(r) : r[j] # p
      BY Zenon, <2>1, <2>2, <2>3
    <3>. QED
      BY Zenon, <2>2, <3>1, RemoveFirstIs
  <2>5. put(ps, p, M) = <<p>> \o r
    BY Zenon, <1>7, <2>4 DEF put, ToFront
  <2>. HIDE DEF r
  <2>6. CASE \E i \in 1 .. Len(all) : all[i] = p
    <3>1. PICK i \in 1 .. Len(all) : all[i] = p
      BY Zenon, <2>6
    <3>2. i \notin 1 .. Len(ps)
      BY Zenon, <1>1, <2>1, <3>1
    <3>3. Len(ps) < Len(all) /\ Len(ps) = M /\ Len(r) = M - 1 /\ Len(ps) < i
      BY <1>1, <2>2, <3>2
    <3>. DEFINE ra == RemoveAt(all, i)
    <3>4. RemoveFirst(all, p) = ra
      BY Zenon, <1>1, <3>1, RemoveFirstIs
    <3>5. /\ ra \in Seq(Peers) /\ Len(ra) = Len(all) - 1
          /\ \A j \in 1 .. Len(all) - 1 : ra[j] = IF j < i THEN all[j] ELSE all[j + 1]
      BY Zenon, <1>1, RemoveAtProperties
    <3>6. Thinned(ra, all) /\ \A j \in 1 .. Len(ra) : ra[j] # p
      BY Zenon, <1>1, <3>1, <3>5, RemoveAtThins
    <3>. HIDE DEF ra
    <3>7. \A j \in 1 .. Len(r) : r[j] = ra[j]
      <4>1. SUFFICES ASSUME NEW j \in 1 .. Len(r) PROVE r[j] = ra[j]
        BY Zenon
      <4>2. j \in 1 .. Len(ps) /\ j \in 1 .. Len(all) - 1 /\ j < i
        BY <1>1, <2>3, <3>3
      <4>. QED
        BY Zenon, <1>1, <2>2, <3>5, <4>2
    <3>8. /\ Len(r) <= Len(ra) /\ Len(r) < M /\ Len(r) + 1 = M
      BY <1>1, <3>3, <3>5
    <3>9. SoundPeers(put(ps, p, M), ToFront(all, p), seen2, now)
      BY Zenon, <1>5, <2>2, <2>5, <3>4, <3>5, <3>6, <3>7, <3>8
    <3>. QED
      BY Zenon, <3>9 DEF M
  <2>7. CASE \A i \in 1 .. Len(all) : all[i] # p
    <3>1. RemoveFirst(all, p) = all
      BY Zenon, <1>1, <2>7, RemoveFirstIs
    <3>2. /\ Len(r) <= Len(all) /\ (Len(r) < Len(all) => Len(r) + 1 = M)
          /\ \A j \in 1 .. Len(r) : r[j] = all[j]
      <4>1. Len(r) <= Len(all) /\ (Len(r) < Len(all) => Len(r) + 1 = M)
        BY <1>1, <2>2
      <4>2. \A j \in 1 .. Len(r) : r[j] = all[j]
        BY Zenon, <1>1, <2>2, <2>3
      <4>. QED
        BY Zenon, <4>1, <4>2
    <3>3. SoundPeers(put(ps, p, M), ToFront(all, p), seen2, now)
      BY Zenon, <1>1, <1>5, <2>2, <2>5, <2>7, <3>1, <3>2, SameThins
    <3>. QED
      BY Zenon, <3>3 DEF M
  <2>. QED
    BY Zenon, <2>6, <2>7
<1>. QED
  BY Zenon, <1>6, <1>7

\* A bucket that is new or dropped.
LEMMA EmptyIsSound ==
  ASSUME NEW seen, NEW at
  PROVE  SoundPeers(<<>>, <<>>, seen, at)
BY CapacityAssumption DEF SoundPeers, Distinct

\* Dropped buckets are empty, the others stay as they are.
LEMMA ClearIsSound ==
  ASSUME Stored, NEW gone, NEW h \in Hashes
  PROVE  /\ SoundPeers(Clear(peers, gone)[h], Clear(reported, gone)[h],
                       Clear(last_seen, gone)[h], now)
         /\ Clear(peers, gone)[h] \in Seq(Peers)
<1>1. CASE h \in gone
  BY <1>1, EmptyIsSound DEF Clear
<1>2. CASE h \notin gone
  BY Zenon, <1>2 DEF Clear, Stored
<1>. QED
  BY Zenon, <1>1, <1>2

\* Time passes.
LEMMA SoundLater ==
  ASSUME NEW from \in Nat, NEW to \in Nat, from <= to,
         NEW ps, NEW all, NEW seen, SoundPeers(ps, all, seen, from)
  PROVE  SoundPeers(ps, all, seen, to)
<1>1. \A i \in 1 .. Len(ps) : seen[ps[i]] \in 0 .. to
  BY DEF SoundPeers
<1>. QED
  BY Zenon, <1>1 DEF SoundPeers

\* Buckets are dropped, by a sweep or for a new one.
LEMMA ClearStored ==
  ASSUME Stored, NEW gone, peers' = Clear(peers, gone),
         last_seen' = Clear(last_seen, gone), reported' = Clear(reported, gone),
         now' = now
  PROVE  Stored'
<1>1. DOMAIN reported' = Hashes /\ DOMAIN last_seen' = Hashes
  BY Zenon DEF Clear
<1>2. \A h \in Hashes : /\ SoundPeers(peers'[h], reported'[h], last_seen'[h], now')
                        /\ peers'[h] \in Seq(Peers)
  BY Zenon, ClearIsSound
<1>3. peers' \in [Hashes -> Seq(Peers)]
  BY Zenon, <1>2 DEF Clear
<1>. QED
  BY Zenon, <1>1, <1>2, <1>3 DEF Stored

\* A peer is added.
LEMMA UpsertStored ==
  ASSUME now \in Nat, Stored, NEW h \in Hashes, NEW p \in Peers, upsert(h, p),
         now' = now
  PROVE  Stored'
<1>. DEFINE gone == Evicted(h)
            ps == Clear(peers, gone)
            all == Clear(reported, gone)
            seen == Clear(last_seen, gone)
            seen2 == [q \in Keys(put(ps[h], p, MAX_PEERS_PER_HASH)) |->
                        IF q = p THEN now ELSE seen[h][q]]
<1>1. /\ peers' = [ps EXCEPT ![h] = put(ps[h], p, MAX_PEERS_PER_HASH)]
      /\ reported' = [all EXCEPT ![h] = ToFront(all[h], p)]
      /\ last_seen' = [seen EXCEPT ![h] = [q \in Keys(peers'[h]) |->
                                             IF q = p THEN now ELSE seen[h][q]]]
  BY Zenon DEF upsert
<1>2. DOMAIN ps = Hashes /\ DOMAIN all = Hashes /\ DOMAIN seen = Hashes
  BY Zenon DEF Clear
<1>3. \A k \in Hashes : SoundPeers(ps[k], all[k], seen[k], now) /\ ps[k] \in Seq(Peers)
  BY Zenon, ClearIsSound
<1>. HIDE DEF gone, ps, all, seen
<1>4. /\ peers'[h] = put(ps[h], p, MAX_PEERS_PER_HASH)
      /\ reported'[h] = ToFront(all[h], p)
  BY Zenon, <1>1, <1>2
<1>5. last_seen'[h] = seen2
  BY Zenon, <1>1, <1>2, <1>4
<1>6. SoundPeers(peers'[h], reported'[h], last_seen'[h], now)
  <2>. HIDE DEF seen2
  <2>1. SoundPeers(put(ps[h], p, MAX_PEERS_PER_HASH), ToFront(all[h], p), seen2, now)
    BY Zenon, <1>3, PutIsSound DEF seen2
  <2>. QED
    BY Zenon, <1>4, <1>5, <2>1
<1>7. \A k \in Hashes : k # h => /\ peers'[k] = ps[k] /\ reported'[k] = all[k]
                                 /\ last_seen'[k] = seen[k]
  BY Zenon, <1>1, <1>2
<1>8. \A k \in Hashes : SoundPeers(peers'[k], reported'[k], last_seen'[k], now)
  BY Zenon, <1>3, <1>6, <1>7
<1>9. /\ peers' \in [Hashes -> Seq(Peers)]
      /\ DOMAIN reported' = Hashes /\ DOMAIN last_seen' = Hashes
  <2>1. \A k \in Hashes : peers'[k] \in Seq(Peers)
    BY Zenon, <1>8 DEF SoundPeers
  <2>2. DOMAIN peers' = Hashes /\ peers' = [k \in Hashes |-> peers'[k]]
    BY Zenon, <1>1, <1>2
  <2>3. DOMAIN reported' = Hashes /\ DOMAIN last_seen' = Hashes
    BY Zenon, <1>1, <1>2
  <2>. QED
    BY Zenon, <2>1, <2>2, <2>3
<1>. QED
  BY Zenon, <1>8, <1>9 DEF Stored

\* The store is left alone while time may pass.
LEMMA SameStored ==
  ASSUME Stored, UNCHANGED <<peers, last_seen, reported>>,
         now \in Nat, now' \in Nat, now <= now'
  PROVE  Stored'
<1>1. \A h \in Hashes : SoundPeers(peers'[h], reported'[h], last_seen'[h], now')
  BY Zenon, SoundLater DEF Stored
<1>2. /\ peers' \in [Hashes -> Seq(Peers)]
      /\ DOMAIN reported' = Hashes /\ DOMAIN last_seen' = Hashes
  BY Zenon DEF Stored
<1>. QED
  BY Zenon, <1>1, <1>2 DEF Stored

\* A sweep of the store.
LEMMA ExpireStored ==
  ASSUME Stored, expire_stale, now' = now
  PROVE  Stored'
<1>. DEFINE dead == {h \in Keys(buckets_) : bucket_is_dead(h)}
<1>1. /\ peers' = Clear(peers, dead) /\ last_seen' = Clear(last_seen, dead)
      /\ reported' = Clear(reported, dead)
  BY Zenon DEF expire_stale
<1>. HIDE DEF dead
<1>. QED
  BY Zenon, <1>1, ClearStored

-----------------------------------------------------------------------------
(* The steps.                                                               *)

\* The constructor: no token is out and the store is empty.
LEMMA InitIInv ==
  ASSUME Init
  PROVE  IInv
<1>1. TypeOK
  <2>1. pc \in [Threads -> Labels]
    BY Zenon DEF Init, TokenInit, Labels
  <2>2. request \in Requests \cup {NoRequest}
    BY Zenon DEF Init
  <2>3. /\ now \in Nat /\ current_secret_ \in Nat \ {0} /\ drawn \in Nat
        /\ prev_secret_ \in Nat /\ prev_secret_expires_ \in Nat
        /\ last_rotation_ \in Nat /\ issued_at \in Nat
    BY DEF Init, TokenInit, NoSecret
  <2>4. met \in BOOLEAN
    BY Zenon DEF Init
  <2>. QED
    BY Zenon, <2>1, <2>2, <2>3, <2>4 DEF TypeOK
<1>2. Tokens
  BY DEF Init, Tokens, Held
<1>3. Stored
  <2>1. /\ peers = [h \in Hashes |-> <<>>] /\ reported = [h \in Hashes |-> <<>>]
        /\ last_seen = [h \in Hashes |-> <<>>]
    BY Zenon DEF Init, StoreInit
  <2>2. \A h \in Hashes : SoundPeers(peers[h], reported[h], last_seen[h], now)
    BY Zenon, <2>1, EmptyIsSound
  <2>3. peers \in [Hashes -> Seq(Peers)]
    BY <2>1
  <2>. QED
    BY Zenon, <2>1, <2>2, <2>3 DEF Stored
<1>. QED
  BY Zenon, <1>1, <1>2, <1>3 DEF IInv

\* A thread moves on and no secret changes.
LEMMA QuietTypes ==
  ASSUME TypeOK, NEW t \in Threads, NEW label \in Labels,
         pc' = pc \/ pc' = [pc EXCEPT ![t] = label], UNCHANGED secretVars,
         now' \in Nat, issued_at' \in Nat, met' \in BOOLEAN,
         request' \in Requests \cup {NoRequest}
  PROVE  TypeOK'
<1>1. pc' \in [Threads -> Labels]
  BY Zenon DEF TypeOK
<1>. QED
  BY Zenon, <1>1 DEF TypeOK, secretVars

\* handle_message and maintenance_loop call rotate_if_needed.
LEMMA EnterStep ==
  ASSUME IInv, NEW t \in Threads, Enters(t), request' \in Requests \cup {NoRequest}
  PROVE  IInv'
<1>1. TypeOK /\ Tokens /\ Stored
  BY Zenon DEF IInv
<1>. DEFINE label == IF RotationDue THEN "prev" ELSE "rotated"
<1>2. /\ pc' = [pc EXCEPT ![t] = label] /\ label \in Labels
      /\ UNCHANGED secretVars /\ UNCHANGED <<now, issued_at>>
      /\ UNCHANGED <<peers, last_seen, reported>>
      /\ met' \in BOOLEAN
  BY Zenon, <1>1
     DEF Enters, rotate_if_needed, GoTo, NextStatement, Labels, storeVars, TypeOK
<1>. HIDE DEF label
<1>3. now \in Nat /\ now' \in Nat /\ issued_at' \in Nat /\ now <= now'
  BY <1>1, <1>2 DEF TypeOK
<1>4. TypeOK'
  BY Zenon, <1>1, <1>2, <1>3, QuietTypes
<1>5. Tokens'
  BY Zenon, <1>1, EnterTokens
<1>6. Stored'
  BY Zenon, <1>1, <1>2, <1>3, SameStored
<1>. QED
  BY Zenon, <1>4, <1>5, <1>6 DEF IInv

\* One assignment of rotate_if_needed.
LEMMA RotateStepStep ==
  ASSUME IInv, NEW t \in Threads, RotateStep(t)
  PROVE  IInv'
<1>1. TypeOK /\ Tokens /\ Stored
  BY Zenon DEF IInv
<1>2. /\ Assignment(t) /\ UNCHANGED <<now, tokenVars, request>>
      /\ UNCHANGED <<peers, last_seen, reported>>
  BY Zenon DEF RotateStep, storeVars
<1>3. UNCHANGED <<now, issued_at, met, request>> /\ now \in Nat /\ now <= now'
  BY <1>1, <1>2 DEF tokenVars, TypeOK
<1>4. \E label \in Labels : pc' = [pc EXCEPT ![t] = label]
  BY Zenon, <1>2 DEF Assignment, KeepPrevious, SetExpiry, DrawSecret, SetRotation, GoTo,
              NextStatement, Labels
<1>5. pc' \in [Threads -> Labels]
  BY Zenon, <1>1, <1>4 DEF TypeOK
<1>6. /\ current_secret_' \in Nat \ {0} /\ drawn' \in Nat
      /\ prev_secret_' \in Nat /\ prev_secret_expires_' \in Nat
      /\ last_rotation_' \in Nat
  BY <1>1, <1>2, IntervalAssumption
     DEF Assignment, KeepPrevious, SetExpiry, DrawSecret, SetRotation, TypeOK
<1>7. TypeOK'
  BY Zenon, <1>1, <1>3, <1>5, <1>6 DEF TypeOK
<1>8. Tokens'
  BY Zenon, <1>1, <1>2, KeepPreviousTokens, SetExpiryTokens, DrawSecretTokens,
     SetRotationTokens DEF Assignment
<1>9. Stored'
  BY Zenon, <1>1, <1>2, <1>3, SameStored DEF TypeOK
<1>. QED
  BY Zenon, <1>7, <1>8, <1>9 DEF IInv

\* on_get_peers issues a token, or the node throws it away.
LEMMA OnGetPeersStep ==
  ASSUME IInv, on_get_peers
  PROVE  IInv'
<1>1. TypeOK /\ Tokens /\ Stored
  BY Zenon DEF IInv
<1>2. /\ pc["recv"] = "rotated" /\ pc' = [pc EXCEPT !["recv"] = "live_peers"]
      /\ UNCHANGED <<now, secretVars>> /\ UNCHANGED request /\ expire_stale
  BY Zenon DEF on_get_peers, GoTo
<1>3. \/ /\ token'.secret = current_secret_ /\ issued_at' = now
         /\ met' = \E u \in Threads : Rotating(u)
      \/ UNCHANGED tokenVars
  <2>1. \A x, y : [node |-> x, secret |-> y].secret = y
    BY Zenon
  <2>. QED
    BY Zenon, <2>1 DEF on_get_peers
<1>4. "recv" \in Threads /\ "live_peers" \in Labels
  BY Zenon DEF Threads, Labels
<1>5. TypeOK'
  <2>1. now' \in Nat /\ issued_at' \in Nat /\ request' \in Requests \cup {NoRequest}
    BY Zenon, <1>1, <1>2, <1>3 DEF TypeOK, tokenVars
  <2>2. met' \in BOOLEAN
    BY Zenon, <1>1, <1>3 DEF TypeOK, tokenVars
  <2>. QED
    BY Zenon, <1>1, <1>2, <1>4, <2>1, <2>2, QuietTypes
<1>6. Tokens'
  <2>1. CASE UNCHANGED tokenVars
    <3>1. ~Rotating("recv") /\ "live_peers" \notin {"prev", "expires", "current", "last"}
      BY Zenon, <1>2 DEF Rotating
    <3>. QED
      BY Zenon, <1>1, <1>2, <1>4, <2>1, <3>1, QuietTokens
  <2>. QED
    BY Zenon, <1>1, <1>2, <1>3, <2>1, IssueTokens
<1>7. Stored'
  BY Zenon, <1>1, <1>2, ExpireStored
<1>. QED
  BY Zenon, <1>5, <1>6, <1>7 DEF IInv

\* A step outside the rotation that issues no token and keeps the store sound.
LEMMA QuietStep ==
  ASSUME IInv, Stored', UNCHANGED <<now, secretVars, tokenVars>>,
         NEW t \in Threads, NEW label \in {"idle", "rotated", "live_peers"},
         ~Rotating(t), pc' = pc \/ pc' = [pc EXCEPT ![t] = label],
         request' \in Requests \cup {NoRequest}
  PROVE  IInv'
<1>1. TypeOK /\ Tokens /\ label \in Labels
  BY Zenon DEF IInv, Labels
<1>2. label \notin {"prev", "expires", "current", "last"}
  BY Zenon
<1>3. now' \in Nat /\ issued_at' \in Nat /\ met' \in BOOLEAN
  BY Zenon, <1>1 DEF TypeOK, tokenVars
<1>4. TypeOK'
  BY Zenon, <1>1, <1>3, QuietTypes
<1>5. Tokens'
  BY Zenon, <1>1, <1>2, QuietTokens
<1>. QED
  BY Zenon, <1>4, <1>5 DEF IInv

\* A step of the application or none at all: both threads stay where they are.
LEMMA StillStep ==
  ASSUME IInv, Stored', UNCHANGED <<now, secretVars, tokenVars>>,
         UNCHANGED <<pc, request>>
  PROVE  IInv'
<1>1. /\ UNCHANGED <<now, current_secret_, prev_secret_, last_rotation_>>
      /\ UNCHANGED <<prev_secret_expires_, drawn, token, issued_at, met, pc, request>>
  BY Zenon DEF secretVars, tokenVars
<1>2. TypeOK'
  BY Zenon, <1>1 DEF IInv, TypeOK
<1>3. /\ IsCurrent' <=> IsCurrent
      /\ IsPrevious' <=> IsPrevious
      /\ \A t : Rotating(t)' <=> Rotating(t)
  BY Zenon, <1>1 DEF IsCurrent, IsPrevious, Rotating
<1>4. Tokens'
  BY Zenon, <1>1, <1>3 DEF IInv, Tokens, Held, Age
<1>. QED
  BY Zenon, <1>2, <1>4 DEF IInv

\* The clock moves on.
LEMMA TickStep ==
  ASSUME IInv, Tick
  PROVE  IInv'
<1>1. TypeOK /\ Tokens /\ Stored
  BY Zenon DEF IInv
<1>2. /\ now \in Nat /\ now' = now + 1 /\ UNCHANGED <<secretVars, pc, request>>
      /\ UNCHANGED <<issued_at, met>> /\ UNCHANGED <<peers, last_seen, reported>>
  BY Zenon, <1>1 DEF Tick, tokenVars, storeVars, TypeOK
<1>3. now' \in Nat /\ now <= now'
  BY <1>2
<1>4. TypeOK'
  BY Zenon, <1>1, <1>2, <1>3 DEF TypeOK, secretVars
<1>5. Tokens'
  BY Zenon, <1>1, TickTokens
<1>6. Stored'
  BY Zenon, <1>1, <1>2, <1>3, SameStored
<1>. QED
  BY Zenon, <1>4, <1>5, <1>6 DEF IInv

\* Every step preserves the invariant.
LEMMA NextStep ==
  ASSUME IInv, [Next]_vars
  PROVE  IInv'
<1>1. TypeOK /\ Stored /\ now \in Nat /\ now <= now
      /\ "recv" \in Threads /\ "maintenance" \in Threads
  BY DEF IInv, TypeOK, Threads
<1>2. NoRequest \in Requests \cup {NoRequest} /\ request \in Requests \cup {NoRequest}
  BY Zenon, <1>1 DEF TypeOK
<1>3. ASSUME NEW p \in Peers, NEW h \in Hashes, on_response(h, p)
      PROVE  IInv'
  <2>1. pc["recv"] = "idle" /\ upsert(h, p) /\ UNCHANGED <<pc, request>>
        /\ UNCHANGED <<now, secretVars, tokenVars>>
    BY Zenon, <1>3 DEF on_response
  <2>2. Stored' /\ ~Rotating("recv")
    BY Zenon, <1>1, <2>1, UpsertStored DEF Rotating
  <2>. QED
    BY Zenon, <1>1, <1>2, <2>1, <2>2, QuietStep
<1>4. ASSUME NEW p \in Peers, NEW h \in Hashes, NEW query \in Queries,
             handle_message(query, p, h)
      PROVE  IInv'
  <2>1. Enters("recv") /\ request' \in Requests
    BY Zenon, <1>4 DEF handle_message, Requests
  <2>. QED
    BY Zenon, <1>1, <2>1, EnterStep
<1>5. ASSUME AnswerGetPeers PROVE IInv'
  <2>1. /\ pc["recv"] = "live_peers" /\ pc' = [pc EXCEPT !["recv"] = "idle"]
        /\ request' = NoRequest /\ UNCHANGED <<peers, last_seen, reported>>
        /\ UNCHANGED <<now, secretVars, tokenVars>>
    BY Zenon, <1>5 DEF AnswerGetPeers, live_peers, GoTo
  <2>2. ~Rotating("recv")
    BY Zenon, <2>1 DEF Rotating
  <2>3. Stored'
    BY Zenon, <1>1, <2>1, SameStored
  <2>. QED
    BY Zenon, <1>1, <1>2, <2>1, <2>2, <2>3, QuietStep
<1>6. ASSUME on_announce_peer PROVE IInv'
  <2>1. /\ pc["recv"] = "rotated" /\ pc' = [pc EXCEPT !["recv"] = "idle"]
        /\ request.query = "announce_peer" /\ request' = NoRequest
        /\ upsert(request.info_hash, request.node) \/ UNCHANGED storeVars
        /\ UNCHANGED <<now, secretVars, tokenVars>>
    BY Zenon, <1>6 DEF on_announce_peer, GoTo
  <2>2. ~Rotating("recv")
    BY Zenon, <2>1 DEF Rotating
  <2>3. request.info_hash \in Hashes /\ request.node \in Peers
    BY <1>2, <2>1 DEF Requests, NoRequest
  <2>4. Stored'
    BY Zenon, <1>1, <2>1, <2>3, UpsertStored, SameStored DEF storeVars
  <2>. QED
    BY Zenon, <1>1, <1>2, <2>1, <2>2, <2>4, QuietStep
<1>7. ASSUME EndOfMaintenance PROVE IInv'
  <2>1. /\ pc["maintenance"] = "rotated" /\ pc' = [pc EXCEPT !["maintenance"] = "idle"]
        /\ expire_stale /\ UNCHANGED request
        /\ UNCHANGED <<now, secretVars, tokenVars>>
    BY Zenon, <1>7 DEF EndOfMaintenance, GoTo
  <2>2. ~Rotating("maintenance")
    BY Zenon, <2>1 DEF Rotating
  <2>3. Stored'
    BY Zenon, <1>1, <2>1, ExpireStored
  <2>. QED
    BY Zenon, <1>1, <1>2, <2>1, <2>2, <2>3, QuietStep
<1>8. ASSUME NEW h \in Hashes, get_peers(h) PROVE IInv'
  <2>1. ensure_bucket(h) /\ UNCHANGED <<now, secretVars, tokenVars>>
        /\ UNCHANGED <<pc, request>>
    BY Zenon, <1>8 DEF get_peers
  <2>2. Stored'
    BY Zenon, <1>1, <2>1, ClearStored DEF ensure_bucket
  <2>. QED
    BY Zenon, <1>1, <2>1, <2>2, StillStep DEF IInv
<1>9. ASSUME UNCHANGED vars PROVE IInv'
  <2>1. /\ UNCHANGED <<now, secretVars, tokenVars>> /\ UNCHANGED <<pc, request>>
        /\ UNCHANGED <<peers, last_seen, reported>>
    BY Zenon, <1>9 DEF vars, storeVars
  <2>2. Stored'
    BY Zenon, <1>1, <2>1, SameStored
  <2>. QED
    BY Zenon, <1>1, <2>1, <2>2, StillStep DEF IInv
<1>10. ASSUME maintenance_loop PROVE IInv'
  BY Zenon, <1>1, <1>2, <1>10, EnterStep DEF maintenance_loop
<1>. QED
  BY Zenon, <1>3, <1>4, <1>5, <1>6, <1>7, <1>8, <1>9, <1>10, RotateStepStep,
     OnGetPeersStep, TickStep DEF Next
-----------------------------------------------------------------------------
(* The theorems.                                                            *)

\* The invariant holds in every reachable state, whatever the two threads and
\* the application do.
THEOREM Invariance == Spec => []IInv
<1>1. Init => IInv
  BY Zenon, InitIInv
<1>2. IInv /\ [Next]_vars => IInv'
  BY Zenon, NextStep
<1>. QED
  BY <1>1, <1>2, PTL DEF Spec

\* A token that is younger than a rotation interval is accepted, for every
\* interval that is at most the time the previous secret is kept, unless both
\* threads rotated at once: verify_token compares with both secrets.
THEOREM TokensOutliveRotation == Spec => []TokenOutlivesRotation
<1>1. ASSUME IInv PROVE TokenOutlivesRotation
  <2>1. SUFFICES ASSUME Verifying, Age < Interval, ~met
                 PROVE  verify_token(token.secret)
    BY Zenon DEF TokenOutlivesRotation
  <2>2. TypeOK /\ issued_at <= now /\ (IsCurrent \/ IsPrevious)
    BY Zenon, <1>1, <2>1 DEF IInv, Tokens, Held, Verifying
  <2>3. CASE IsCurrent
    BY Zenon, <2>3 DEF IsCurrent, verify_token
  <2>4. CASE IsPrevious
    <3>1. now < prev_secret_expires_
      BY <2>1, <2>2, <2>4, IntervalAssumption, TtlAssumption DEF IsPrevious, Age, TypeOK
    <3>. QED
      BY Zenon, <2>4, <3>1 DEF IsPrevious, verify_token
  <2>. QED
    BY Zenon, <2>2, <2>3, <2>4
<1>. QED
  BY <1>1, Invariance, PTL

\* A sequence that agrees with the beginning of another is its prefix.
LEMMA Prefix ==
  ASSUME NEW S, NEW s \in Seq(S), NEW t \in Seq(S), Len(s) <= Len(t),
         \A i \in 1 .. Len(s) : s[i] = t[i]
  PROVE  IsPrefix(s, t)
<1>1. Len(s) \in Nat /\ Len(t) \in Nat
  BY Zenon, LenProperties
<1>2. SubSeq(s, 1, Len(s)) = SubSeq(t, 1, Len(s))
  BY <1>1
<1>. QED
  BY Zenon, <1>2 DEF IsPrefix

\* A bucket holds the most recently reported peers: upsert evicts none but the
\* one seen least recently, and only from a full bucket.
THEOREM FreshestAreKept == Spec => []KeepsFreshest
<1>1. ASSUME IInv PROVE KeepsFreshest
  <2>1. SUFFICES ASSUME NEW h \in Hashes
                 PROVE  /\ IsPrefix(peers[h], reported[h])
                        /\ Len(peers[h]) < Len(reported[h]) =>
                             Len(peers[h]) = MAX_PEERS_PER_HASH
    BY Zenon DEF KeepsFreshest
  <2>2. SoundPeers(peers[h], reported[h], last_seen[h], now)
    BY Zenon, <1>1 DEF IInv, Stored
  <2>. QED
    BY Zenon, <2>2, Prefix DEF SoundPeers
<1>. QED
  BY <1>1, Invariance, PTL

\* A dead bucket has no live peer: its first peer was seen last.
LEMMA DeadIsDead ==
  ASSUME TypeOK, Stored, NEW h \in Hashes, bucket_is_dead(h)
  PROVE  Live(h) = {}
<1>1. SUFFICES ASSUME NEW q \in Live(h) PROVE FALSE
  BY Zenon
<1>2. /\ SoundPeers(peers[h], reported[h], last_seen[h], now)
      /\ peers[h] \in Seq(Peers) /\ now \in Nat
  BY Zenon DEF Stored, SoundPeers, TypeOK
<1>3. PICK i \in 1 .. Len(peers[h]) : peers[h][i] = q
  BY Zenon, <1>1, <1>2, LenProperties DEF Live, Keys, ToSet
<1>4. Len(peers[h]) \in Nat /\ 1 \in 1 .. Len(peers[h]) /\ 1 <= i
  BY <1>2, <1>3, LenProperties
<1>5. Head(peers[h]) = peers[h][1] /\ peers[h] # <<>>
  BY <1>2, <1>4
<1>. DEFINE first == last_seen[h][peers[h][1]]
            own == last_seen[h][peers[h][i]]
<1>6. own <= first /\ own \in 0 .. now /\ first \in 0 .. now
  BY Zenon, <1>2, <1>3, <1>4 DEF SoundPeers
<1>7. now - first >= PEER_ENTRY_TTL
  BY Zenon, <1>5 DEF bucket_is_dead
<1>8. now - own < PEER_ENTRY_TTL
  BY Zenon, <1>3 DEF Live
<1>. HIDE DEF first, own
<1>. QED
  BY <1>2, <1>6, <1>7, <1>8, TimeAssumption

\* expire_stale drops no peer that live_peers would have answered.
THEOREM SweepsAreInvisible == Spec => ExpiryIsInvisible
<1>1. ASSUME IInv, expire_stale, now' = now, NEW h \in Hashes
      PROVE  Live(h)' = Live(h)
  <2>. DEFINE dead == {k \in Keys(buckets_) : bucket_is_dead(k)}
  <2>1. peers' = Clear(peers, dead) /\ last_seen' = Clear(last_seen, dead)
    BY Zenon, <1>1 DEF expire_stale
  <2>2. h \in dead => Live(h) = {}
    BY Zenon, <1>1, DeadIsDead DEF IInv
  <2>. HIDE DEF dead
  <2>3. CASE h \in dead
    <3>1. peers'[h] = <<>>
      BY Zenon, <2>1, <2>3 DEF Clear
    <3>2. Keys(peers'[h]) = {}
      BY <3>1 DEF Keys, ToSet
    <3>3. Live(h)' = {}
      BY Zenon, <3>2 DEF Live
    <3>. QED
      BY Zenon, <2>2, <2>3, <3>3
  <2>4. CASE h \notin dead
    <3>1. peers'[h] = peers[h] /\ last_seen'[h] = last_seen[h]
      BY Zenon, <2>1, <2>4 DEF Clear
    <3>. QED
      BY Zenon, <1>1, <3>1 DEF Live
  <2>. QED
    BY Zenon, <2>3, <2>4
<1>2. IInv /\ [Next]_vars =>
        [expire_stale /\ UNCHANGED now => \A h \in Hashes : Live(h)' = Live(h)]_vars
  BY Zenon, <1>1
<1>. QED
  BY <1>2, Invariance, PTL DEF Spec, ExpiryIsInvisible
=============================================================================
