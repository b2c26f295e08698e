------------------------ MODULE SlidingWindowProofs -------------------------
(***************************************************************************)
(* The properties of SlidingWindow for any window, limit, buffer size and  *)
(* clock skew: the ring holds the latest admitted requests, the window     *)
(* bound holds, and no request is rejected without cause.  Callers' clocks *)
(* are late by Skew at most, so the timestamps are almost in order         *)
(* (Ordered); a request that has left the ring is too old for the window   *)
(* (Left), and requests that are a whole limit apart in the order of       *)
(* admission are almost a window apart in time (Spaced).                   *)
(***************************************************************************)
EXTENDS SlidingWindow, FiniteSetTheorems, WellFoundedInduction, TLAPS

Cap == Max({MaxRequests, 0})

\* The ring holds the latest count requests, none of them from the future.
Suffix ==
    /\ count <= Cap /\ count <= Len(accepted)
    /\ \A i \in 0 .. count - 1 : Entry(i, count) = accepted[Len(accepted) - count + 1 + i]
    /\ \A i \in 1 .. Len(accepted) : accepted[i] <= now

\* A request admitted later is older by Skew at most.
Ordered ==
    \A i, j \in 1 .. Len(accepted) : i < j => accepted[i] - Skew <= accepted[j]

\* A request that has left the ring is out of the window.
Left == \A i \in 1 .. Len(accepted) - count : accepted[i] <= now - W

\* Of Cap + 1 requests in a row the first and the last are not in one window.
Spaced ==
    \A i, j \in 1 .. Len(accepted) : i + Cap <= j => accepted[i] <= accepted[j] + Skew - W

\* RejectedOnlyWhenFull, less the requests exactly at the start of the window,
\* which compactLocked drops.
RejectedWhenFull ==
    ~last.ok => Between(last.at - W - Skew, now) >= MaxRequests

IInv == TypeOK /\ Suffix /\ Ordered /\ Left /\ Spaced /\ RejectedWhenFull
-----------------------------------------------------------------------------
(* Sizes and indices.                                                      *)

\* New's correction of the buffer size.
LEMMA SizeFits == Size \in Nat \ {0} /\ MaxRequests < Size /\ Cap \in Nat /\ Cap < Size
                  /\ MaxRequests <= Cap /\ (MaxRequests > 0 => Cap = MaxRequests)
                  /\ (MaxRequests <= 0 => Cap = 0)
<1>1. \E x \in {BufferSize, MaxRequests + 1, 1} : \A y \in {BufferSize, MaxRequests + 1, 1} : x >= y
  BY WindowAssumption
<1>2. Size \in {BufferSize, MaxRequests + 1, 1} /\ \A y \in {BufferSize, MaxRequests + 1, 1} : Size >= y
  BY <1>1 DEF Size, Max
<1>3. \E x \in {MaxRequests, 0} : \A y \in {MaxRequests, 0} : x >= y
  BY WindowAssumption
<1>4. Cap \in {MaxRequests, 0} /\ \A y \in {MaxRequests, 0} : Cap >= y
  BY <1>3 DEF Cap, Max
<1>5. QED
  BY <1>2, <1>4, WindowAssumption

\* An index that has gone round once.
LEMMA ModSmall ==
    ASSUME NEW s \in Nat \ {0}, NEW x \in Nat, x < s + s
    PROVE  x % s = IF x < s THEN x ELSE x - s
OBVIOUS

\* The smallest member of a set of naturals.
LEMMA Smallest ==
    ASSUME NEW S \in SUBSET Nat, S # {}
    PROVE  \E x \in S : \A y \in S : x <= y
<1> DEFINE less == {p \in Nat \X Nat : p[1] < p[2]}
<1>1. IsWellFoundedOn(less, Nat)
  <2>1. IsWellFoundedOn(OpToRel(<, Nat), Nat)
    BY NatLessThanWellFounded
  <2>2. QED
    BY <2>1 DEF OpToRel
<1>2. PICK x \in S : \A y \in S : ~(<<y, x>> \in less)
  BY <1>1, WFMin
<1>3. ASSUME NEW y \in S PROVE x <= y
  <2>1. <<y, x>> \in Nat \X Nat /\ <<y, x>> \notin less
    BY <1>2
  <2>2. ~(<<y, x>>[1] < <<y, x>>[2])
    BY <2>1
  <2>3. QED
    BY <2>2
<1>4. QED
  BY <1>3

\* Max is the largest member of a bounded set of naturals.
LEMMA Largest ==
    ASSUME NEW n \in Nat, NEW S \in SUBSET (0 .. n), S # {}
    PROVE  Max(S) \in S /\ \A y \in S : y <= Max(S)
<1> DEFINE T == {x \in 0 .. n : n - x \in S}
<1>1. \A y \in S : n - y \in T
  OBVIOUS
<1>2. T \in SUBSET Nat /\ T # {}
  <2>1. T \in SUBSET Nat
    OBVIOUS
  <2>2. PICK y \in S : TRUE
    OBVIOUS
  <2>3. n - y \in T
    BY <1>1, <2>2
  <2> HIDE DEF T
  <2>4. QED
    BY <2>1, <2>3
<1>3. PICK x \in T : \A y \in T : x <= y
  BY <1>2, Smallest
<1>4. n - x \in S /\ \A y \in S : n - x >= y
  BY <1>1, <1>3
<1>5. QED
  BY <1>4 DEF Max

\* The slot of an entry of a ring of at most Size entries that ends before h.
LEMMA SlotOf ==
    ASSUME NEW h \in 0 .. Size - 1, NEW c \in 0 .. Size, NEW i \in 0 .. c - 1
    PROVE  /\ (h - c + Size + i) % Size \in 0 .. Size - 1
           /\ (h - c + Size + i) % Size = IF i < c - h THEN h - c + Size + i ELSE h - c + i
<1> DEFINE x == h - c + Size + i
<1>1. Size \in Nat \ {0}
  BY SizeFits
<1>2. x \in Nat /\ x < Size + Size
  BY <1>1
<1>3. x < Size <=> i < c - h
  BY <1>1
<1>4. x - Size = h - c + i
  BY <1>1
<1> HIDE DEF x
<1>5. x % Size = IF x < Size THEN x ELSE x - Size
  BY <1>1, <1>2, ModSmall
<1>6. x % Size \in 0 .. Size - 1
  BY <1>1, <1>2, <1>5
<1>7. QED
  BY <1>3, <1>4, <1>5, <1>6 DEF x

\* compactLocked keeps the latest entries: those it drops are not newer than
\* cutoff, and the oldest it keeps is.
LEMMA CompactKeeps ==
    ASSUME TypeOK, Suffix, NEW cutoff \in Int
    PROVE  /\ Compact(cutoff) \in 0 .. count
           /\ \A i \in 1 .. Len(accepted) - Compact(cutoff) :
                i <= Len(accepted) - count \/ accepted[i] <= cutoff
           /\ Compact(cutoff) > 0 => accepted[Len(accepted) - Compact(cutoff) + 1] > cutoff
<1> DEFINE K == {k \in 0 .. count : \A i \in 0 .. k - 1 : Entry(i, count) <= cutoff}
           n == Len(accepted)
           d == Max(K)
           c == Compact(cutoff)
<1>1. count \in Nat /\ n \in Nat /\ count <= n /\ accepted \in Seq(Nat)
  BY SizeFits DEF TypeOK, Suffix
<1>2. 0 \in K /\ K \in SUBSET (0 .. count)
  BY <1>1
<1>3. d \in K /\ \A k \in K : k <= d
  BY <1>1, <1>2, Largest
<1>4. c = count - d /\ d \in 0 .. count /\ c \in 0 .. count
  BY <1>1, <1>3 DEF Compact
<1>5. \A i \in 0 .. count - 1 : Entry(i, count) = accepted[n - count + 1 + i]
  BY DEF Suffix
<1>6. \A i \in 0 .. d - 1 : Entry(i, count) <= cutoff
  BY <1>3
<1> HIDE DEF d, c, n
<1>7. \A i \in 1 .. n - c : i <= n - count \/ accepted[i] <= cutoff
  <2> SUFFICES ASSUME NEW i \in 1 .. n - c, ~(i <= n - count) PROVE accepted[i] <= cutoff
    OBVIOUS
  <2>1. i - (n - count + 1) \in 0 .. d - 1 /\ i - (n - count + 1) \in 0 .. count - 1
    BY <1>1, <1>4
  <2>2. n - count + 1 + (i - (n - count + 1)) = i
    BY <1>1
  <2>3. QED
    BY <1>5, <1>6, <2>1, <2>2
<1>8. ASSUME c > 0 PROVE accepted[n - c + 1] > cutoff
  <2>1. d + 1 \in 0 .. count /\ d + 1 \notin K
    BY <1>1, <1>3, <1>4, <1>8
  <2>2. ~(\A i \in 0 .. (d + 1) - 1 : Entry(i, count) <= cutoff)
    BY <2>1
  <2>3. ~(Entry(d, count) <= cutoff)
    BY <1>1, <1>4, <1>6, <2>2
  <2>4. Entry(d, count) = accepted[n - count + 1 + d] /\ n - count + 1 + d = n - c + 1
    BY <1>1, <1>4, <1>5, <2>1
  <2>5. accepted[n - c + 1] \in Nat
    BY <1>1, <1>4, <1>8 DEF n
  <2>6. QED
    BY <2>3, <2>4, <2>5
<1>9. QED
  BY <1>4, <1>7, <1>8 DEF c, n

\* The latest c of the live entries.
LEMMA ShorterRing ==
    ASSUME TypeOK, Suffix, NEW c \in 0 .. count
    PROVE  \A i \in 0 .. c - 1 : Entry(i, c) = accepted[Len(accepted) - c + 1 + i]
<1> SUFFICES ASSUME NEW i \in 0 .. c - 1 PROVE Entry(i, c) = accepted[Len(accepted) - c + 1 + i]
  OBVIOUS
<1> DEFINE k == count - c + i
<1>1. count \in Nat /\ head \in Int /\ Size \in Int /\ Len(accepted) \in Nat
  BY SizeFits DEF TypeOK
<1>2. k \in 0 .. count - 1 /\ head - count + Size + k = head - c + Size + i
      /\ Len(accepted) - count + 1 + k = Len(accepted) - c + 1 + i
  BY <1>1
<1> HIDE DEF k
<1>3. Entry(k, count) = accepted[Len(accepted) - count + 1 + k]
  BY <1>2 DEF Suffix
<1>4. Entry(k, count) = Entry(i, c)
  BY <1>2 DEF Entry
<1>5. QED
  BY <1>2, <1>3, <1>4

\* pushLocked on a ring that is not full: the new entry is the last one, and
\* the others stay.
LEMMA PushKeeps ==
    ASSUME TypeOK, NEW t \in Nat, NEW c \in 0 .. Size - 1, Push(t, c)
    PROVE  /\ timestamps' \in [0 .. Size - 1 -> Nat] /\ head' \in 0 .. Size - 1
           /\ count' = c + 1
           /\ Entry(c, c + 1)' = t
           /\ \A i \in 0 .. c - 1 : Entry(i, c + 1)' = Entry(i, c)
<1>1. Size \in Nat \ {0} /\ head \in 0 .. Size - 1 /\ timestamps \in [0 .. Size - 1 -> Nat]
  BY SizeFits DEF TypeOK
<1>2. head' = IF head + 1 < Size THEN head + 1 ELSE 0
  <2> DEFINE x == head + 1
  <2>1. x \in Nat /\ x < Size + Size /\ (~(x < Size) => x - Size = 0) /\ head' = x % Size
    BY <1>1 DEF Push
  <2> HIDE DEF x
  <2>2. x % Size = IF x < Size THEN x ELSE x - Size
    BY <1>1, <2>1, ModSmall
  <2>3. head' = IF x < Size THEN x ELSE 0
    BY <2>1, <2>2
  <2>4. QED
    BY <2>3 DEF x
<1>3. head' \in 0 .. Size - 1 /\ c + 1 \in 0 .. Size /\ c \in 0 .. Size
  BY <1>1, <1>2
<1>4. /\ timestamps' \in [0 .. Size - 1 -> Nat] /\ timestamps'[head] = t /\ count' = c + 1
      /\ \A x \in 0 .. Size - 1 : x # head => timestamps'[x] = timestamps[x]
  BY <1>1 DEF Push
<1>5. Entry(c, c + 1)' = t
  <2>1. (head' - (c + 1) + Size + c) % Size = head
    <3>1. c \in 0 .. (c + 1) - 1
      BY <1>1
    <3>2. (head' - (c + 1) + Size + c) % Size =
            IF c < (c + 1) - head' THEN head' - (c + 1) + Size + c ELSE head' - (c + 1) + c
      BY <1>3, <3>1, SlotOf
    <3>3. QED
      BY <1>1, <1>2, <3>2
  <2>2. QED
    BY <1>4, <2>1 DEF Entry
<1>6. ASSUME NEW i \in 0 .. c - 1 PROVE Entry(i, c + 1)' = Entry(i, c)
  <2>1. i \in 0 .. (c + 1) - 1
    BY <1>1
  <2>2. (head' - (c + 1) + Size + i) % Size =
          IF i < (c + 1) - head' THEN head' - (c + 1) + Size + i ELSE head' - (c + 1) + i
    BY <1>3, <2>1, SlotOf
  <2>3. /\ (head - c + Size + i) % Size \in 0 .. Size - 1
        /\ (head - c + Size + i) % Size = IF i < c - head THEN head - c + Size + i ELSE head - c + i
    BY <1>1, <1>3, SlotOf
  <2>4. (head' - (c + 1) + Size + i) % Size = (head - c + Size + i) % Size
    BY <1>1, <1>2, <2>2, <2>3
  <2>5. (head - c + Size + i) % Size # head
    <3> DEFINE s == (head - c + Size + i) % Size
    <3>1. s = IF i < c - head THEN head - c + Size + i ELSE head - c + i
      BY <2>3
    <3> HIDE DEF s
    <3>2. s # head
      BY <1>1, <3>1
    <3>3. QED
      BY <3>2 DEF s
  <2>6. QED
    BY <1>4, <2>3, <2>4, <2>5 DEF Entry
<1>7. QED
  BY <1>3, <1>4, <1>5, <1>6
-----------------------------------------------------------------------------
(* The operations.  A call enters with a time t that is late by Skew at    *)
(* most.                                                                   *)

\* The state but for last and the rejection.
Kept == TypeOK /\ Suffix /\ Ordered /\ Left /\ Spaced

\* What a call's timestamp says of the requests it leaves behind.
LEMMA CallKeeps ==
    ASSUME Kept, NEW t \in 0 .. now, now - t <= Skew
    PROVE  /\ Compact(t - W) \in 0 .. count
           /\ \A i \in 1 .. Len(accepted) - Compact(t - W) :
                accepted[i] <= now - W /\ accepted[i] <= t + Skew - W
           /\ Compact(t - W) > 0 => accepted[Len(accepted) - Compact(t - W) + 1] > t - W
<1> DEFINE c == Compact(t - W)
           n == Len(accepted)
<1>1. t - W \in Int /\ now \in Nat /\ W \in Nat /\ Skew \in Nat /\ t \in Nat
  BY WindowAssumption, ClockAssumption DEF Kept, TypeOK
<1>2. /\ c \in 0 .. count
      /\ \A i \in 1 .. n - c : i <= n - count \/ accepted[i] <= t - W
      /\ c > 0 => accepted[n - c + 1] > t - W
  BY <1>1, CompactKeeps DEF Kept
<1>3. count \in Nat /\ n \in Nat /\ count <= n /\ accepted \in Seq(Nat)
  BY SizeFits DEF Kept, TypeOK, Suffix
<1> HIDE DEF c
<1>4. ASSUME NEW i \in 1 .. n - c PROVE accepted[i] <= now - W /\ accepted[i] <= t + Skew - W
  <2>1. accepted[i] \in Nat
    BY <1>2, <1>3
  <2>2. CASE i <= n - count
    <3>1. accepted[i] <= now - W
      BY <1>3, <2>2 DEF Kept, Left
    <3>2. QED
      BY <1>1, <2>1, <3>1
  <2>3. CASE accepted[i] <= t - W
    BY <1>1, <2>1, <2>3
  <2>4. QED
    BY <1>2, <2>2, <2>3
<1>5. QED
  BY <1>2, <1>4 DEF c

\* Cleanup, and an Allow that rejects.
LEMMA CompactStep ==
    ASSUME Kept, NEW t \in 0 .. now, now - t <= Skew, count' = Compact(t - W),
           UNCHANGED <<timestamps, head, now, accepted>>, last' \in [at : Nat, ok : BOOLEAN]
    PROVE  Kept'
<1>1. /\ count' \in 0 .. count
      /\ \A i \in 1 .. Len(accepted) - count' : accepted[i] <= now - W
  BY CallKeeps
<1>2. Size \in Nat /\ count \in 0 .. Size /\ Cap \in Nat /\ count <= Cap /\ count <= Len(accepted) /\ Len(accepted) \in Nat
  BY SizeFits DEF Kept, TypeOK, Suffix
<1>3. TypeOK'
  <2>1. count' \in 0 .. Size
    BY <1>1, <1>2
  <2>2. QED
    BY <2>1 DEF Kept, TypeOK
<1>4. Suffix'
  <2>1. count' <= Cap /\ count' <= Len(accepted)
    BY <1>1, <1>2
  <2>2. \A i \in 0 .. count' - 1 : Entry(i, count') = accepted[Len(accepted) - count' + 1 + i]
    BY <1>1, ShorterRing DEF Kept
  <2>3. \A i \in 0 .. count' - 1 : timestamps[(head - count' + Size + i) % Size] = accepted[Len(accepted) - count' + 1 + i]
    BY <2>2 DEF Entry
  <2>4. \A i \in 1 .. Len(accepted) : accepted[i] <= now
    BY DEF Kept, Suffix
  <2>5. QED
    BY <2>1, <2>3, <2>4 DEF Suffix, Entry
<1>5. Left'
  BY <1>1 DEF Left
<1>6. Ordered' /\ Spaced'
  BY DEF Kept, Ordered, Spaced
<1>7. QED
  BY <1>3, <1>4, <1>5, <1>6 DEF Kept

\* Allow that admits.
LEMMA AcceptStep ==
    ASSUME Kept, NEW t \in 0 .. now, now - t <= Skew, Compact(t - W) < MaxRequests,
           Push(t, Compact(t - W)), accepted' = Append(accepted, t), now' = now,
           last' \in [at : Nat, ok : BOOLEAN]
    PROVE  Kept'
<1> DEFINE n == Len(accepted)
<1>0. PICK c : c = Compact(t - W)
  OBVIOUS
<1>1. /\ Size \in Nat /\ count \in 0 .. Size /\ Cap \in Nat /\ Cap < Size /\ count <= n
      /\ n \in Nat /\ now \in Nat /\ t \in Nat /\ Skew \in Nat /\ W \in Nat
      /\ MaxRequests \in Int /\ (MaxRequests > 0 => Cap = MaxRequests)
      /\ accepted \in Seq(Nat)
  BY SizeFits, WindowAssumption, ClockAssumption DEF Kept, TypeOK, Suffix
<1>2. /\ c \in 0 .. count
      /\ \A i \in 1 .. n - c : accepted[i] <= now - W /\ accepted[i] <= t + Skew - W
  BY <1>0, CallKeeps
<1>3. Push(t, c) /\ c < MaxRequests
  BY <1>0
<1>4. c < Cap /\ c \in 0 .. Size - 1 /\ c + 1 <= n + 1
  BY <1>1, <1>2, <1>3
<1>5. /\ timestamps' \in [0 .. Size - 1 -> Nat] /\ head' \in 0 .. Size - 1
      /\ count' = c + 1
      /\ Entry(c, c + 1)' = t
      /\ \A i \in 0 .. c - 1 : Entry(i, c + 1)' = Entry(i, c)
  BY <1>1, <1>3, <1>4, PushKeeps DEF Kept
<1>6. /\ accepted' \in Seq(Nat) /\ Len(accepted') = n + 1 /\ accepted'[n + 1] = t
      /\ \A i \in 1 .. n : accepted'[i] = accepted[i] /\ accepted[i] \in Nat
  BY <1>1
<1>7. \A i \in 1 .. n : accepted[i] <= now
  BY DEF Kept, Suffix
<1> HIDE DEF n
<1>8. TypeOK'
  <2>1. count' \in 0 .. Size
    BY <1>1, <1>4, <1>5
  <2>2. QED
    BY <1>1, <1>5, <1>6, <2>1 DEF TypeOK
<1>9. Suffix'
  <2>1. count' <= Cap /\ count' <= Len(accepted')
    BY <1>1, <1>2, <1>4, <1>5, <1>6
  <2>2. ASSUME NEW i \in 0 .. c PROVE Entry(i, c + 1)' = accepted'[(n + 1) - (c + 1) + 1 + i]
    <3>1. CASE i = c
      <4>1. (n + 1) - (c + 1) + 1 + i = n + 1
        BY <1>1, <1>4, <3>1
      <4>2. QED
        BY <1>5, <1>6, <3>1, <4>1
    <3>2. CASE i \in 0 .. c - 1
      <4>1. Entry(i, c) = accepted[n - c + 1 + i]
        BY <1>2, <3>2, ShorterRing DEF Kept, n
      <4>2. (n + 1) - (c + 1) + 1 + i = n - c + 1 + i /\ n - c + 1 + i \in 1 .. n
        BY <1>1, <1>4, <3>2
      <4>3. QED
        BY <1>5, <1>6, <3>2, <4>1, <4>2
    <3>3. i = c \/ i \in 0 .. c - 1
      BY <1>4
    <3>4. QED
      BY <3>1, <3>2, <3>3
  <2>3. \A i \in 0 .. (c + 1) - 1 :
          timestamps'[(head' - (c + 1) + Size + i) % Size] = accepted'[(n + 1) - (c + 1) + 1 + i]
    <3>1. \A i \in 0 .. (c + 1) - 1 : i \in 0 .. c
      BY <1>4
    <3>2. QED
      BY <2>2, <3>1 DEF Entry
  <2>4. \A i \in 1 .. n + 1 : accepted'[i] <= now
    <3>1. \A i \in 1 .. n + 1 : i \in 1 .. n \/ i = n + 1
      BY <1>1
    <3>2. QED
      BY <1>6, <1>7, <3>1
  <2>5. QED
    BY <1>5, <1>6, <2>1, <2>3, <2>4 DEF Suffix, Entry
<1>10. Ordered'
  <2> SUFFICES ASSUME NEW i \in 1 .. n + 1, NEW j \in 1 .. n + 1, i < j
               PROVE  accepted'[i] - Skew <= accepted'[j]
    BY <1>6 DEF Ordered
  <2>1. i \in 1 .. n /\ (j \in 1 .. n \/ j = n + 1)
    BY <1>1
  <2>2. CASE j \in 1 .. n
    BY <1>6, <2>1, <2>2 DEF Kept, Ordered, n
  <2>3. CASE j = n + 1
    <3>1. accepted'[i] = accepted[i] /\ accepted[i] \in Nat /\ accepted[i] <= now /\ accepted'[j] = t
      BY <1>6, <1>7, <2>1, <2>3
    <3>2. QED
      BY <1>1, <3>1
  <2>4. QED
    BY <2>1, <2>2, <2>3
<1>11. Left'
  <2> SUFFICES ASSUME NEW i \in 1 .. (n + 1) - (c + 1) PROVE accepted'[i] <= now - W
    BY <1>5, <1>6 DEF Left
  <2>1. i \in 1 .. n - c /\ i \in 1 .. n
    BY <1>1, <1>4
  <2>2. QED
    BY <1>2, <1>6, <2>1
<1>12. Spaced'
  <2> SUFFICES ASSUME NEW i \in 1 .. n + 1, NEW j \in 1 .. n + 1, i + Cap <= j
               PROVE  accepted'[i] <= accepted'[j] + Skew - W
    BY <1>6 DEF Spaced
  <2>1. i \in 1 .. n /\ (j \in 1 .. n \/ j = n + 1)
    BY <1>1, <1>4
  <2>2. CASE j \in 1 .. n
    BY <1>6, <2>1, <2>2 DEF Kept, Spaced, n
  <2>3. CASE j = n + 1
    <3>1. i \in 1 .. n - c
      BY <1>1, <1>4, <2>3
    <3>2. QED
      BY <1>2, <1>6, <2>1, <2>3, <3>1
  <2>4. QED
    BY <2>1, <2>2, <2>3
<1>13. QED
  BY <1>8, <1>9, <1>10, <1>11, <1>12 DEF Kept

\* A set of requests is as large as a run of the history it contains, and no
\* larger than one that contains it.
LEMMA BetweenBounds ==
    ASSUME accepted \in Seq(Nat), NEW a \in Int, NEW b \in Int
    PROVE  /\ Between(a, b) \in Nat
           /\ \A x \in Nat \ {0}, y \in 0 .. Len(accepted) :
                x <= y + 1 /\ (\A i \in x .. y : a < accepted[i] /\ accepted[i] <= b)
                  => Between(a, b) >= y - x + 1
           /\ \A x, y \in Int :
                x <= y + 1 /\ (\A i \in 1 .. Len(accepted) :
                                 a < accepted[i] /\ accepted[i] <= b => i \in x .. y)
                  => Between(a, b) <= y - x + 1
<1> DEFINE S == {i \in DOMAIN accepted : a < accepted[i] /\ accepted[i] <= b}
<1>1. DOMAIN accepted = 1 .. Len(accepted) /\ Len(accepted) \in Nat
  OBVIOUS
<1>2. IsFiniteSet(1 .. Len(accepted))
  BY <1>1, FS_Interval
<1>3. S \in SUBSET (1 .. Len(accepted))
  BY <1>1
<1>4. Between(a, b) = Cardinality(S)
  BY DEF Between
<1>5. ASSUME NEW x \in Nat \ {0}, NEW y \in 0 .. Len(accepted), x <= y + 1,
             \A i \in x .. y : a < accepted[i] /\ accepted[i] <= b
      PROVE  x .. y \in SUBSET S
  BY <1>1, <1>5
<1>6. ASSUME NEW x \in Int, NEW y \in Int,
             \A i \in 1 .. Len(accepted) : a < accepted[i] /\ accepted[i] <= b => i \in x .. y
      PROVE  S \in SUBSET (x .. y)
  BY <1>1, <1>6
<1> HIDE DEF S
<1>7. IsFiniteSet(S) /\ Cardinality(S) \in Nat
  BY <1>2, <1>3, FS_Subset, FS_CardinalityType
<1>8. ASSUME NEW x \in Nat \ {0}, NEW y \in 0 .. Len(accepted), x <= y + 1,
             \A i \in x .. y : a < accepted[i] /\ accepted[i] <= b
      PROVE  Between(a, b) >= y - x + 1
  <2>1. x .. y \in SUBSET S
    BY <1>5, <1>8
  <2>2. Cardinality(x .. y) <= Cardinality(S)
    BY <1>7, <2>1, FS_Subset
  <2>3. x \in Int /\ y \in Int
    BY <1>1
  <2>4. Cardinality(x .. y) = IF x > y THEN 0 ELSE y - x + 1
    BY <2>3, FS_Interval
  <2>5. QED
    BY <1>4, <1>7, <1>8, <2>2, <2>3, <2>4
<1>9. ASSUME NEW x \in Int, NEW y \in Int, x <= y + 1,
             \A i \in 1 .. Len(accepted) : a < accepted[i] /\ accepted[i] <= b => i \in x .. y
      PROVE  Between(a, b) <= y - x + 1
  <2>1. S \in SUBSET (x .. y)
    BY <1>6, <1>9
  <2>2. IsFiniteSet(x .. y) /\ Cardinality(x .. y) = IF x > y THEN 0 ELSE y - x + 1
    BY FS_Interval
  <2>3. Cardinality(S) <= Cardinality(x .. y)
    BY <2>1, <2>2, FS_Subset
  <2>4. QED
    BY <1>4, <1>7, <1>9, <2>2, <2>3
<1>10. QED
  BY <1>4, <1>7, <1>8, <1>9

\* Allow that rejects has found MaxRequests entries in its window.
LEMMA RejectFull ==
    ASSUME Kept, NEW t \in 0 .. now, Compact(t - W) >= MaxRequests, now - t <= Skew
    PROVE  Between(t - W - Skew, now) >= MaxRequests
<1> DEFINE n == Len(accepted)
<1>1. PICK c : c = Compact(t - W)
  OBVIOUS
<1>2. /\ count <= n /\ count \in Nat
      /\ n \in Nat /\ now \in Nat /\ t \in Nat /\ Skew \in Nat /\ W \in Nat
      /\ MaxRequests \in Int /\ accepted \in Seq(Nat)
  BY SizeFits, WindowAssumption, ClockAssumption DEF Kept, TypeOK, Suffix
<1>3. c \in 0 .. count /\ c >= MaxRequests /\ (c > 0 => accepted[n - c + 1] > t - W)
  BY <1>1, CallKeeps
<1>4. \A i \in 1 .. n : accepted[i] \in Nat /\ accepted[i] <= now
  BY <1>2 DEF Kept, Suffix
<1>5. \A i, j \in 1 .. n : i < j => accepted[i] - Skew <= accepted[j]
  BY DEF Kept, Ordered
<1>6. t - W - Skew \in Int /\ now \in Int
  BY <1>2
<1>7. Between(t - W - Skew, now) \in Nat
  BY <1>2, <1>6, BetweenBounds
<1>8. CASE c = 0
  BY <1>2, <1>3, <1>7, <1>8
<1>9. CASE c > 0
  <2> HIDE DEF n
  <2>1. n - c + 1 \in Nat \ {0} /\ n \in 0 .. n /\ n - c + 1 <= n + 1 /\ n - (n - c + 1) + 1 = c
        /\ n - c + 1 \in 1 .. n
    BY <1>2, <1>3, <1>9
  <2>2. ASSUME NEW i \in n - c + 1 .. n
        PROVE  t - W - Skew < accepted[i] /\ accepted[i] <= now
    <3>1. i \in 1 .. n /\ (i = n - c + 1 \/ n - c + 1 < i)
      BY <1>2, <1>3
    <3>2. accepted[n - c + 1] - Skew <= accepted[i]
      <4>1. CASE i = n - c + 1
        BY <1>2, <1>4, <3>1, <4>1
      <4>2. CASE n - c + 1 < i
        BY <1>5, <2>1, <3>1, <4>2
      <4>3. QED
        BY <3>1, <4>1, <4>2
    <3>3. QED
      BY <1>2, <1>3, <1>4, <1>9, <2>1, <3>1, <3>2
  <2>3. Between(t - W - Skew, now) >= n - (n - c + 1) + 1
    <3> DEFINE x == n - c + 1
    <3>1. x \in Nat \ {0} /\ n \in 0 .. Len(accepted) /\ x <= n + 1
      BY <2>1 DEF n
    <3>2. \A i \in x .. n : t - W - Skew < accepted[i] /\ accepted[i] <= now
      BY <2>2
    <3> HIDE DEF x
    <3>3. Between(t - W - Skew, now) >= n - x + 1
      BY <1>2, <1>6, <3>1, <3>2, BetweenBounds
    <3>4. QED
      BY <3>3 DEF x
  <2>4. QED
    BY <1>2, <1>3, <1>7, <2>1, <2>3
<1>10. QED
  BY <1>2, <1>3, <1>8, <1>9

\* The latest verdict stays justified while the history and the clock only
\* grow.
LEMMA RejectedStays ==
    ASSUME Kept, RejectedWhenFull, last' = last, accepted' = accepted, now' \in {now, now + 1}
    PROVE  RejectedWhenFull'
<1>1. /\ now \in Nat /\ accepted \in Seq(Nat) /\ last \in [at : Nat, ok : BOOLEAN]
      /\ Skew \in Nat /\ W \in Nat /\ MaxRequests \in Int
  BY WindowAssumption, ClockAssumption DEF Kept, TypeOK
<1>2. now' = now => RejectedWhenFull'
  BY DEF RejectedWhenFull, Between
<1>3. ASSUME now' = now + 1, ~last.ok PROVE Between(last.at - W - Skew, now)' >= MaxRequests
  <2>1. Between(last.at - W - Skew, now) >= MaxRequests
    BY <1>3 DEF RejectedWhenFull
  <2> DEFINE a == last.at - W - Skew
             S == {i \in DOMAIN accepted : a < accepted[i] /\ accepted[i] <= now}
             T == {i \in DOMAIN accepted : a < accepted[i] /\ accepted[i] <= now + 1}
  <2>2. a \in Int
    BY <1>1
  <2>3. DOMAIN accepted = 1 .. Len(accepted) /\ Len(accepted) \in Int
    BY <1>1
  <2>4. IsFiniteSet(DOMAIN accepted)
    BY <2>3, FS_Interval
  <2> HIDE DEF a
  <2>5. T \in SUBSET (DOMAIN accepted) /\ S \in SUBSET T
    <3>1. \A i \in DOMAIN accepted : accepted[i] \in Nat
      BY <1>1
    <3>2. QED
      BY <1>1, <3>1
  <2>6. Cardinality(S) = Between(a, now)
    BY DEF Between
  <2>7. Cardinality(T) = Between(last.at - W - Skew, now)'
    BY <1>3 DEF Between, a
  <2> HIDE DEF S, T
  <2>8. IsFiniteSet(T)
    BY <2>4, <2>5, FS_Subset
  <2>9. Cardinality(S) <= Cardinality(T) /\ Cardinality(T) \in Nat /\ IsFiniteSet(S)
    BY <2>5, <2>8, FS_Subset, FS_CardinalityType
  <2>10. Cardinality(S) \in Nat
    BY <2>9, FS_CardinalityType
  <2>11. Cardinality(S) >= MaxRequests
    BY <2>1, <2>6 DEF a
  <2>12. QED
    BY <1>1, <2>7, <2>9, <2>10, <2>11
<1>4. QED
  BY <1>2, <1>3 DEF RejectedWhenFull

\* The clock.
LEMMA TickStep ==
    ASSUME Kept, now' = now + 1, UNCHANGED <<ring, last, accepted>>
    PROVE  Kept'
<1>1. now \in Nat /\ W \in Nat /\ accepted \in Seq(Nat) /\ count \in 0 .. Size /\ Size \in Nat
  BY SizeFits, WindowAssumption DEF Kept, TypeOK
<1>2. \A i \in 1 .. Len(accepted) : accepted[i] \in Nat
  BY <1>1
<1>3. TypeOK'
  BY <1>1 DEF Kept, TypeOK, ring
<1>4. Suffix'
  <2>1. \A i \in 1 .. Len(accepted) : accepted[i] <= now + 1
    BY <1>1, <1>2 DEF Kept, Suffix
  <2>2. QED
    BY <2>1 DEF Kept, Suffix, Entry, ring
<1>5. Left'
  <2>1. \A i \in 1 .. Len(accepted) - count : i \in 1 .. Len(accepted)
    BY <1>1
  <2>2. \A i \in 1 .. Len(accepted) - count : accepted[i] <= now + 1 - W
    BY <1>1, <1>2, <2>1 DEF Kept, Left
  <2>3. count' = count /\ accepted' = accepted /\ now' = now + 1
    BY DEF ring
  <2>4. QED
    BY <1>1, <2>2, <2>3 DEF Left
<1>6. Ordered' /\ Spaced'
  BY DEF Kept, Ordered, Spaced
<1>7. QED
  BY <1>3, <1>4, <1>5, <1>6 DEF Kept

\* Every step keeps the invariant.
LEMMA NextKeeps ==
    ASSUME IInv, [Next]_vars
    PROVE  IInv'
<1>1. Kept /\ RejectedWhenFull
  BY DEF IInv, Kept
<1>2. now \in Nat /\ last \in [at : Nat, ok : BOOLEAN] /\ MaxRequests \in Int
  BY WindowAssumption DEF IInv, TypeOK
<1>3. ASSUME NEW t \in 0 .. now, now - t <= Skew, Allow(t) PROVE Kept' /\ RejectedWhenFull'
  <2>1. /\ IF Compact(t - W) >= MaxRequests
           THEN count' = Compact(t - W) /\ UNCHANGED <<timestamps, head, accepted>>
           ELSE Push(t, Compact(t - W)) /\ accepted' = Append(accepted, t)
        /\ last' = [at |-> t, ok |-> Compact(t - W) < MaxRequests]
        /\ now' = now
    BY <1>3 DEF Allow
  <2>2. last' \in [at : Nat, ok : BOOLEAN] /\ last'.at = t
        /\ last'.ok = (Compact(t - W) < MaxRequests)
    BY <1>2, <2>1
  <2>3. Compact(t - W) \in Int
    BY <1>1, <1>3, CallKeeps, SizeFits DEF Kept, TypeOK
  <2>4. CASE Compact(t - W) >= MaxRequests
    <3>1. count' = Compact(t - W) /\ UNCHANGED <<timestamps, head, now, accepted>>
      BY <2>1, <2>4
    <3>2. Kept'
      BY <1>1, <1>3, <2>2, <3>1, CompactStep
    <3>3. Between(t - W - Skew, now) >= MaxRequests
      BY <1>1, <1>3, <2>4, RejectFull
    <3>4. RejectedWhenFull'
      BY <2>2, <3>1, <3>3 DEF RejectedWhenFull, Between
    <3>5. QED
      BY <3>2, <3>4
  <2>5. CASE ~(Compact(t - W) >= MaxRequests)
    <3>1. Compact(t - W) < MaxRequests /\ Push(t, Compact(t - W)) /\ accepted' = Append(accepted, t)
      BY <1>2, <2>1, <2>3, <2>5
    <3>2. Kept'
      BY <1>1, <1>3, <2>1, <2>2, <3>1, AcceptStep
    <3>3. RejectedWhenFull'
      BY <2>2, <3>1 DEF RejectedWhenFull
    <3>4. QED
      BY <3>2, <3>3
  <2>6. QED
    BY <2>4, <2>5
<1>4. ASSUME NEW t \in 0 .. now, now - t <= Skew, Cleanup(t) PROVE Kept' /\ RejectedWhenFull'
  <2>1. count' = Compact(t - W) /\ UNCHANGED <<timestamps, head, now, accepted>> /\ last' = last
    BY <1>4 DEF Cleanup
  <2>2. Kept'
    BY <1>1, <1>2, <1>4, <2>1, CompactStep
  <2>3. QED
    BY <1>1, <2>1, <2>2, RejectedStays
<1>5. CASE Tick
  <2>1. now' = now + 1 /\ UNCHANGED <<ring, last, accepted>>
    BY <1>5 DEF Tick
  <2>2. QED
    <3>1. Kept'
      BY <1>1, <2>1, TickStep
    <3>2. RejectedWhenFull'
      BY <1>1, <2>1, RejectedStays
    <3>3. QED
      BY <3>1, <3>2 DEF IInv, Kept
<1>6. CASE UNCHANGED vars
  <2>1. Kept'
    BY <1>1, <1>6 DEF vars, ring, Kept, TypeOK, Suffix, Ordered, Left, Spaced, Entry
  <2>2. RejectedWhenFull'
    BY <1>1, <1>6, RejectedStays DEF vars
  <2>3. QED
    BY <2>1, <2>2 DEF IInv, Kept
<1>7. ASSUME NEW t \in 0 .. now, now - t <= Skew, Allow(t) \/ Cleanup(t) PROVE IInv'
  <2>1. Kept' /\ RejectedWhenFull'
    BY <1>3, <1>4, <1>7
  <2>2. QED
    BY <2>1 DEF IInv, Kept
<1>8. QED
  BY <1>5, <1>6, <1>7 DEF Next

\* The invariant holds initially.
LEMMA InitHolds == Init => IInv
<1> SUFFICES ASSUME Init PROVE IInv
  OBVIOUS
<1>1. Size \in Nat \ {0} /\ Cap \in Nat /\ W \in Nat
  BY SizeFits, WindowAssumption
<1>2. TypeOK
  BY <1>1 DEF Init, TypeOK
<1>3. Len(accepted) = 0 /\ count = 0
  BY DEF Init
<1>4. Suffix /\ Ordered /\ Left /\ Spaced
  BY <1>1, <1>3 DEF Suffix, Ordered, Left, Spaced
<1>5. RejectedWhenFull
  BY DEF Init, RejectedWhenFull
<1>6. QED
  BY <1>2, <1>4, <1>5 DEF IInv

\* The invariant holds always.
LEMMA Invariance == Spec => []IInv
  BY InitHolds, NextKeeps, PTL DEF Spec

\* The bound of the window follows from the invariant: what lies in the last
\* W is in the ring, and what lies in an earlier interval spans no more than
\* Cap places of the history.
LEMMA BoundFollows ==
    ASSUME IInv
    PROVE  WindowBound
<1> DEFINE n == Len(accepted)
<1>1. /\ now \in Nat /\ W \in Nat /\ Skew \in Nat /\ accepted \in Seq(Nat) /\ n \in Nat
      /\ count \in Nat /\ count <= n /\ count <= Cap /\ Cap \in Nat
  BY SizeFits, WindowAssumption, ClockAssumption DEF IInv, TypeOK, Suffix
<1>2. \A i \in 1 .. n : accepted[i] \in Nat
  BY <1>1
<1>3. Between(now - W, now) <= Cap
  <2>1. now - W \in Int /\ now \in Int /\ n - count + 1 \in Int /\ n \in Int /\ n - count + 1 <= n + 1
        /\ n - (n - count + 1) + 1 = count
    BY <1>1
  <2>2. \A i \in 1 .. n : now - W < accepted[i] /\ accepted[i] <= now => i \in n - count + 1 .. n
    <3> SUFFICES ASSUME NEW i \in 1 .. n, now - W < accepted[i]
                 PROVE  i \in n - count + 1 .. n
      OBVIOUS
    <3>1. ~(i \in 1 .. n - count)
      BY <1>1, <1>2 DEF IInv, Left
    <3> HIDE DEF n
    <3>2. QED
      BY <1>1, <3>1
  <2>3. Between(now - W, now) <= n - (n - count + 1) + 1 /\ Between(now - W, now) \in Nat
    <3> DEFINE x == n - count + 1
    <3>1. x \in Int /\ n \in Int /\ x <= n + 1
      BY <2>1
    <3>2. \A i \in 1 .. Len(accepted) : now - W < accepted[i] /\ accepted[i] <= now => i \in x .. n
      BY <2>2
    <3> HIDE DEF x
    <3>3. Between(now - W, now) <= n - x + 1 /\ Between(now - W, now) \in Nat
      BY <1>1, <2>1, <3>1, <3>2, BetweenBounds
    <3>4. QED
      BY <3>3 DEF x
  <2>4. QED
    BY <1>1, <2>1, <2>3
<1>4. ASSUME NEW t \in 0 .. now PROVE Between(t - (W - Skew), t) <= Cap
  <2> DEFINE a == t - (W - Skew)
             S == {i \in 1 .. n : a < accepted[i] /\ accepted[i] <= t}
  <2>1. a \in Int /\ t \in Int
    BY <1>1
  <2>2. Between(a, t) \in Nat
    BY <1>1, <2>1, BetweenBounds
  <2>3. CASE S = {}
    <3>1. \A i \in 1 .. n : a < accepted[i] /\ accepted[i] <= t => i \in 1 .. 0
      BY <2>3
    <3> HIDE DEF a
    <3>2. \A x, y \in Int :
            x <= y + 1 /\ (\A i \in 1 .. n : a < accepted[i] /\ accepted[i] <= t => i \in x .. y)
              => Between(a, t) <= y - x + 1
      BY <1>1, <2>1, BetweenBounds
    <3>3. 1 \in Int /\ 0 \in Int /\ 1 <= 0 + 1
      OBVIOUS
    <3>4. Between(a, t) <= 0 - 1 + 1
      BY <3>1, <3>2, <3>3
    <3>5. QED
      BY <1>1, <2>2, <3>4 DEF a
  <2>4. CASE S # {}
    <3>1. S \in SUBSET Nat
      OBVIOUS
    <3>2. PICK m \in S : \A y \in S : m <= y
      <4> HIDE DEF S
      <4>1. QED
        BY <2>4, <3>1, Smallest
    <3>3. m \in 1 .. n /\ a < accepted[m]
      BY <3>2
    <3>4. \A i \in 1 .. n : a < accepted[i] /\ accepted[i] <= t => i \in m .. m + Cap - 1
      <4> SUFFICES ASSUME NEW i \in 1 .. n, a < accepted[i], accepted[i] <= t
                   PROVE  i \in m .. m + Cap - 1
        OBVIOUS
      <4>1. m <= i
        BY <3>2
      <4>2. ~(m + Cap <= i)
        <5>1. SUFFICES ASSUME m + Cap <= i PROVE FALSE
          OBVIOUS
        <5>2. accepted[m] <= accepted[i] + Skew - W
          BY <3>3, <5>1 DEF IInv, Spaced
        <5>3. accepted[m] \in Nat /\ accepted[i] \in Nat
          BY <1>2, <3>3
        <5>4. QED
          BY <1>1, <3>3, <5>2, <5>3
      <4>3. QED
        BY <1>1, <3>3, <4>1, <4>2
    <3>5. m \in Int /\ m + Cap - 1 \in Int /\ m <= (m + Cap - 1) + 1 /\ (m + Cap - 1) - m + 1 = Cap
      BY <1>1, <3>3
    <3>6. Between(a, t) <= (m + Cap - 1) - m + 1
      <4> DEFINE y == m + Cap - 1
      <4>1. y \in Int /\ m <= y + 1 /\ \A i \in 1 .. n : a < accepted[i] /\ accepted[i] <= t => i \in m .. y
        BY <3>4, <3>5
      <4> HIDE DEF y, a
      <4>2. Between(a, t) <= y - m + 1
        BY <1>1, <2>1, <3>5, <4>1, BetweenBounds
      <4>3. QED
        BY <4>2 DEF y
    <3>7. QED
      BY <3>5, <3>6
  <2>5. QED
    BY <2>3, <2>4
<1>5. QED
  BY <1>3, <1>4 DEF WindowBound, Cap
-----------------------------------------------------------------------------
(* The results.                                                            *)

\* Type correctness: Allow and Cleanup keep head, count and the slots in
\* range for any configured buffer size, also a negative one.
THEOREM TypeCorrect == Spec => []TypeOK
<1>1. IInv => TypeOK
  BY DEF IInv
<1>2. QED
  BY <1>1, Invariance, PTL

\* The ring's live entries are the latest admitted requests, in order: the
\* overwriting branch of pushLocked is never taken.
THEOREM SuffixTheorem == Spec => []RingIsSuffix
<1>1. IInv => RingIsSuffix
  BY DEF IInv, Suffix, RingIsSuffix, Cap
<1>2. QED
  BY <1>1, Invariance, PTL

\* Allow admits at most MaxRequests in the last W of real time, and in every
\* past interval of W less the skew.
THEOREM WindowBoundTheorem == Spec => []WindowBound
<1>1. IInv => WindowBound
  BY BoundFollows
<1>2. QED
  BY <1>1, Invariance, PTL

\* The closed interval has all the requests of the half-open one.
LEMMA WithinMore ==
    ASSUME TypeOK, NEW a \in Int
    PROVE  /\ Between(a, now) \in Nat /\ Within(a, now) \in Nat
           /\ Between(a, now) <= Within(a, now)
<1> DEFINE S == {i \in DOMAIN accepted : a < accepted[i] /\ accepted[i] <= now}
           T == {i \in DOMAIN accepted : a - 1 < accepted[i] /\ accepted[i] <= now}
<1>1. now \in Nat /\ accepted \in Seq(Nat)
  BY DEF TypeOK
<1>2. DOMAIN accepted = 1 .. Len(accepted) /\ Len(accepted) \in Int
  BY <1>1
<1>3. IsFiniteSet(DOMAIN accepted)
  BY <1>2, FS_Interval
<1>4. T \in SUBSET (DOMAIN accepted) /\ S \in SUBSET T
  <2>1. \A i \in DOMAIN accepted : accepted[i] \in Nat
    BY <1>1
  <2>2. QED
    BY <1>1, <2>1
<1>5. Cardinality(S) = Between(a, now) /\ Cardinality(T) = Within(a, now)
  BY DEF Between, Within
<1> HIDE DEF S, T
<1>6. IsFiniteSet(T)
  BY <1>3, <1>4, FS_Subset
<1>7. Cardinality(S) <= Cardinality(T) /\ IsFiniteSet(S)
  BY <1>4, <1>6, FS_Subset
<1>8. QED
  BY <1>5, <1>6, <1>7, FS_CardinalityType

\* Allow rejects only a request that finds the window full, rejected and expired
\* requests not being counted.
THEOREM RejectedTheorem == Spec => []RejectedOnlyWhenFull
<1>1. IInv => RejectedOnlyWhenFull
  <2> SUFFICES ASSUME IInv, ~last.ok PROVE Within(last.at - W - Skew, now) >= MaxRequests
    BY DEF RejectedOnlyWhenFull
  <2>1. TypeOK /\ Between(last.at - W - Skew, now) >= MaxRequests
    BY DEF IInv, RejectedWhenFull
  <2>2. last.at - W - Skew \in Int /\ MaxRequests \in Int
    BY <2>1, WindowAssumption, ClockAssumption DEF TypeOK
  <2>3. QED
    BY <2>1, <2>2, WithinMore
<1>2. QED
  BY <1>1, Invariance, PTL
=============================================================================
