--------------------------- MODULE InformerProofs ---------------------------
(***************************************************************************)
(* What writes, watch events and restarts do to a window, for every kind   *)
(* of object and every lag.                                                *)
(***************************************************************************)
EXTENDS Informer, TLAPS

\* What a write does to a window: at most one version is added, at the end.
LEMMA WrittenWindow ==
  ASSUME NEW S, NEW w \in Windows(S), NEW v \in S
  PROVE  /\ Written(w, v) \in Windows(S)
         /\ Stored(Written(w, v)) = v
         /\ \A i \in 1..Len(Written(w, v)) :
              \/ i \in 1..Len(w) /\ Written(w, v)[i] = w[i]
              \/ i = Len(w) + 1 /\ i = Len(Written(w, v)) /\ Written(w, v)[i] = v
PROOF
<1>1. w \in Seq(S) /\ w # <<>> /\ Len(w) \in Nat /\ Len(w) > 0
  BY DEF Windows
<1>2. CASE v = Stored(w)
  BY <1>1, <1>2 DEF Written, Windows, Stored
<1>3. CASE v # Stored(w)
  <2>1. Written(w, v) = Append(w, v)
    BY <1>3 DEF Written
  <2>2. /\ Append(w, v) \in Seq(S) /\ Len(Append(w, v)) = Len(w) + 1
        /\ \A i \in 1..Len(w) : Append(w, v)[i] = w[i]
        /\ Append(w, v)[Len(w) + 1] = v
    BY <1>1
  <2>3. Append(w, v) # <<>>
    BY <1>1, <2>2
  <2> QED
    BY <1>1, <2>1, <2>2, <2>3 DEF Windows, Stored
<1> QED
  BY <1>2, <1>3

\* What a watch event does to a window: the first version is dropped.
LEMMA TailWindow ==
  ASSUME NEW S, NEW w \in Windows(S), Len(w) > 1
  PROVE  /\ Tail(w) \in Windows(S)
         /\ Stored(Tail(w)) = Stored(w)
         /\ Len(Tail(w)) = Len(w) - 1
         /\ \A i \in 1..Len(Tail(w)) : i + 1 \in 1..Len(w) /\ Tail(w)[i] = w[i + 1]
PROOF
<1>1. w \in Seq(S) /\ w # <<>> /\ Len(w) \in Nat
  BY DEF Windows
<1>2. /\ Tail(w) \in Seq(S) /\ Len(Tail(w)) = Len(w) - 1
      /\ \A i \in 1..Len(Tail(w)) : Tail(w)[i] = w[i + 1]
  BY <1>1
<1>3. Tail(w) # <<>>
  <2>1. Len(Tail(w)) # 0
    BY <1>1, <1>2
  <2> QED
    BY <2>1
<1> QED
  BY <1>1, <1>2, <1>3 DEF Windows, Stored

\* A restart leaves the stored version alone in the window.
LEMMA RelistedWindow ==
  ASSUME NEW S, NEW w \in Windows(S)
  PROVE  /\ Relisted(w) \in Windows(S)
         /\ Stored(Relisted(w)) = Stored(w)
         /\ \A i \in 1..Len(Relisted(w)) : i = 1 /\ Relisted(w)[i] = Stored(w)
PROOF
<1>1. w \in Seq(S) /\ w # <<>> /\ Len(w) \in Nat /\ Len(w) > 0 /\ w[Len(w)] \in S
  BY DEF Windows
<1> QED
  BY <1>1 DEF Relisted, Windows, Stored

\* The cached and the stored version are versions.
LEMMA WindowEnds ==
  ASSUME NEW S, NEW w \in Windows(S)
  PROVE  /\ Len(w) \in Nat /\ Len(w) >= 1
         /\ Cached(w) = w[1] /\ Cached(w) \in S
         /\ Stored(w) = w[Len(w)] /\ Stored(w) \in S
         /\ \A i \in 1..Len(w) : w[i] \in S
PROOF
  BY DEF Windows, Cached, Stored

\* A write with a bound on the lag: the new version is the stored one, and every
\* other version was there before.
LEMMA PushedWindow ==
  ASSUME NEW S, NEW w \in Windows(S), NEW v \in S, NEW lag
  PROVE  /\ Pushed(w, v, lag) \in Windows(S)
         /\ Stored(Pushed(w, v, lag)) = v
         /\ \A i \in 1..Len(Pushed(w, v, lag)) :
              \/ i \in 1..Len(w) /\ Pushed(w, v, lag)[i] = w[i]
              \/ i = Len(Pushed(w, v, lag)) /\ Pushed(w, v, lag)[i] = v
PROOF
<1>1. CASE lag = 0
  <2>1. /\ <<v>> \in Seq(S) /\ Len(<<v>>) = 1 /\ <<v>>[1] = v
        /\ <<v>> # <<>>
    OBVIOUS
  <2> QED
    BY <1>1, <2>1 DEF Pushed, Windows, Stored
<1>2. CASE lag # 0
  BY <1>2, WrittenWindow DEF Pushed
<1> QED
  BY <1>1, <1>2

\* Without a lag the cache is never behind: every write and every restart leaves
\* one version, which is both the cached and the stored one.
LEMMA FreshWindow ==
  /\ \A w, v : Len(Pushed(w, v, 0)) = 1 /\ Stored(Pushed(w, v, 0)) = v
  /\ \A w : Len(Relisted(w)) = 1 /\ Stored(Relisted(w)) = Stored(w)
  /\ \A w : Len(w) = 1 => Cached(w) = Stored(w)
PROOF
  BY DEF Pushed, Relisted, Stored, Cached
=============================================================================
