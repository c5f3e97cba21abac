----------------------------- MODULE EventLogProofs -----------------------------
(***************************************************************************)
(* Lemmas about replay, for logs of any entries and any length: to a state *)
(* id, and to the contents of a state.                                     *)
(***************************************************************************)
EXTENDS WorldReplay, WellFoundedInduction, TLAPS

\* Among the first n entries there is a last revision, if there is any: the
\* CHOOSE of ReplayedAt has a value.
LEMMA LastRevision ==
  ASSUME NEW entries, NEW n \in Nat, RevisionsUpTo(entries, n) # {}
  PROVE  \E last \in RevisionsUpTo(entries, n) :
           \A m \in RevisionsUpTo(entries, n) : m <= last
<1> DEFINE T == {n - m : m \in RevisionsUpTo(entries, n)}
<1>1. T \subseteq Nat /\ T # {}
  BY DEF RevisionsUpTo
<1>2. PICK x \in T : \A y \in T : ~(<<y, x>> \in OpToRel(<, Nat))
  <2> HIDE DEF T
  <2> QED
    BY <1>1, NatLessThanWellFounded, WFMin
<1>3. \A y \in T : ~(y < x)
  BY <1>1, <1>2 DEF OpToRel
<1>4. PICK last \in RevisionsUpTo(entries, n) : x = n - last
  BY <1>2
<1>5. ASSUME NEW m \in RevisionsUpTo(entries, n)
      PROVE  m <= last
  <2>1. n - m \in T
    OBVIOUS
  <2>2. m \in 1..n /\ last \in 1..n
    BY DEF RevisionsUpTo
  <2> QED
    BY <1>3, <1>4, <2>1, <2>2
<1> QED
  BY <1>5

\* Replay reads the first n entries and nothing else.
LEMMA ReplayReadsPrefix ==
  ASSUME NEW entries, NEW others, NEW n \in Nat,
         \A m \in 1..n : entries[m] = others[m]
  PROVE  ReplayedAt(entries, n) = ReplayedAt(others, n)
<1>1. RevisionsUpTo(entries, n) = RevisionsUpTo(others, n)
  BY DEF RevisionsUpTo, IsRevision
<1>2. CASE RevisionsUpTo(entries, n) = {}
  BY <1>1, <1>2 DEF ReplayedAt
<1>3. CASE RevisionsUpTo(entries, n) # {}
  <2> DEFINE last == CHOOSE l \in RevisionsUpTo(entries, n) :
                       \A m \in RevisionsUpTo(entries, n) : m <= l
  <2>1. last \in 1..n
    BY <1>3, LastRevision DEF RevisionsUpTo
  <2> QED
    BY <1>1, <1>3, <2>1 DEF ReplayedAt
<1> QED
  BY <1>2, <1>3

\* A revision at the end decides what the log replays to ...
LEMMA ReplayEndsInRevision ==
  ASSUME NEW entries, NEW n \in Nat \ {0}, IsRevision(entries[n])
  PROVE  ReplayedAt(entries, n) = entries[n].result
<1> DEFINE R == RevisionsUpTo(entries, n)
           end == CHOOSE last \in R : \A m \in R : m <= last
<1>1. n \in R /\ \A m \in R : m <= n /\ m \in Nat
  BY DEF RevisionsUpTo
<1>2. end \in R /\ \A m \in R : m <= end
  <2> HIDE DEF R
  <2> QED
    BY <1>1
<1>3. end = n
  <2> HIDE DEF R, end
  <2> QED
    BY <1>1, <1>2
<1> QED
  BY <1>1, <1>3 DEF ReplayedAt

\* ... and entries that are no revisions change nothing about it.
LEMMA ReplaySkipsOthers ==
  ASSUME NEW entries, NEW k \in Nat, NEW n \in Nat, k <= n,
         \A m \in (k + 1)..n : ~IsRevision(entries[m])
  PROVE  ReplayedAt(entries, n) = ReplayedAt(entries, k)
<1>1. RevisionsUpTo(entries, n) = RevisionsUpTo(entries, k)
  BY DEF RevisionsUpTo
<1> QED
  BY <1>1 DEF ReplayedAt

\* Replay ends in a state id.
LEMMA ReplayType ==
  ASSUME NEW entries, NEW n \in Nat,
         \A m \in 1..n : IsRevision(entries[m]) => entries[m].result \in Nat
  PROVE  ReplayedAt(entries, n) \in Nat
<1>1. CASE RevisionsUpTo(entries, n) = {}
  BY <1>1 DEF ReplayedAt
<1>2. CASE RevisionsUpTo(entries, n) # {}
  BY <1>2, LastRevision DEF ReplayedAt, RevisionsUpTo
<1> QED
  BY <1>1, <1>2

--------------------------------------------------------------------------------
(***************************************************************************)
(* Replay to contents: a recursive function over the log, by induction on  *)
(* its length (a least counterexample).                                    *)
(***************************************************************************)

\* A set of numbers has a least one.
LEMMA LeastNumber ==
  ASSUME NEW T, T \subseteq Nat, T # {}
  PROVE  \E least \in T : \A m \in T : least <= m
<1>1. PICK x \in T : \A y \in T : ~(<<y, x>> \in OpToRel(<, Nat))
  BY NatLessThanWellFounded, WFMin
<1>2. \A y \in T : ~(y < x)
  BY <1>1 DEF OpToRel
<1>3. \A m \in T : x <= m
  BY <1>2
<1> QED
  BY <1>3

\* The fields of a world.
Fields ==
  {"ok", "id", "goals", "entities", "hypotheses", "anchors", "capabilities",
   "limits", "reliability"}

\* The world after the entry at a position.
Replaying(before, entries, revisions, k) ==
  IF k \in revisions THEN ReplayRevision(before, entries[k]) ELSE before

\* f is the world after each of the first n entries.
Replays(f, initial, entries, revisions, n) ==
  f = [k \in 0..n |-> IF k = 0 THEN initial
                      ELSE Replaying(f[k - 1], entries, revisions, k)]

LEMMA ReplaysExist ==
  ASSUME NEW initial, NEW entries, NEW revisions, NEW n \in Nat
  PROVE  \E f : Replays(f, initial, entries, revisions, n)
<1> DEFINE None_(k) == \A f : ~Replays(f, initial, entries, revisions, k)
           T == {k \in Nat : None_(k)}
<1> SUFFICES ASSUME T # {}
             PROVE  FALSE
  OBVIOUS
<1>1. PICK least \in T : \A m \in T : least <= m
  <2> HIDE DEF None_
  <2> QED
    BY LeastNumber
<1>2. CASE least = 0
  <2> DEFINE f == [k \in 0..0 |-> initial]
  <2>1. Replays(f, initial, entries, revisions, 0)
    BY DEF Replays
  <2> QED
    BY <1>2, <2>1
<1>3. CASE least # 0
  <2>1. least - 1 \in Nat /\ least - 1 \notin T
    BY <1>1, <1>3
  <2>2. PICK f : Replays(f, initial, entries, revisions, least - 1)
    BY <2>1
  <2> DEFINE last == Replaying(f[least - 1], entries, revisions, least)
             g == [k \in 0..least |-> IF k = least THEN last ELSE f[k]]
  <2>3. \A k \in 0..(least - 1) :
          f[k] = IF k = 0 THEN initial ELSE Replaying(f[k - 1], entries, revisions, k)
    BY <2>2 DEF Replays
  <2>4. \A k \in 0..least :
          g[k] = IF k = 0 THEN initial ELSE Replaying(g[k - 1], entries, revisions, k)
    <3> TAKE k \in 0..least
    <3>1. CASE k = least
      <4>1. least - 1 \in 0..least /\ least - 1 # least
        BY <1>3, <2>1
      <4>2. g[least - 1] = f[least - 1]
        BY <4>1
      <4> QED
        BY <1>3, <3>1, <4>2
    <3>2. CASE k # least
      <4>1. k \in 0..(least - 1) /\ g[k] = f[k]
        BY <3>2
      <4>2. k # 0 => k - 1 \in 0..least /\ k - 1 # least
        BY <4>1
      <4>3. k # 0 => g[k - 1] = f[k - 1]
        BY <4>2
      <4> QED
        BY <2>3, <4>1, <4>3
    <3> QED
      BY <3>1, <3>2
  <2>5. Replays(g, initial, entries, revisions, least)
    <3> DEFINE h == [k \in 0..least |->
                      IF k = 0 THEN initial
                      ELSE Replaying(g[k - 1], entries, revisions, k)]
    <3>1. g = h
      BY <2>4
    <3> QED
      BY <3>1 DEF Replays
  <2> QED
    BY <1>1, <2>5
<1> QED
  BY <1>2, <1>3

\* It is determined by the revisions it is about.
LEMMA ReplaysAgree ==
  ASSUME NEW initial, NEW some, NEW others, NEW P, NEW Q,
         NEW n \in Nat, NEW m \in Nat, n <= m,
         \A k \in 1..n : k \in P <=> k \in Q,
         \A k \in 1..n : k \in P => some[k] = others[k],
         NEW f, Replays(f, initial, some, P, n),
         NEW g, Replays(g, initial, others, Q, m)
  PROVE  \A k \in 0..n : f[k] = g[k]
<1> DEFINE T == {k \in 0..n : f[k] # g[k]}
<1> SUFFICES ASSUME T # {}
             PROVE  FALSE
  OBVIOUS
<1>1. PICK least \in T : \A k \in T : least <= k
  <2>1. T \subseteq Nat
    OBVIOUS
  <2> HIDE DEF T
  <2> QED
    BY <2>1, LeastNumber
<1>2. /\ f[least] = IF least = 0 THEN initial ELSE Replaying(f[least - 1], some, P, least)
      /\ g[least] = IF least = 0 THEN initial ELSE Replaying(g[least - 1], others, Q, least)
  BY <1>1 DEF Replays
<1>3. least # 0 /\ least - 1 \in 0..n /\ least \in 1..n
  BY <1>1, <1>2
<1>4. f[least - 1] = g[least - 1]
  BY <1>1, <1>3
<1>5. Replaying(f[least - 1], some, P, least) = Replaying(g[least - 1], others, Q, least)
  BY <1>3, <1>4, Zenon DEF Replaying
<1> QED
  BY <1>1, <1>2, <1>3, <1>5

\* From some entry on nothing is replayed.
LEMMA ReplaysEnd ==
  ASSUME NEW initial, NEW entries, NEW revisions, NEW n \in Nat, NEW m \in Nat, n <= m,
         \A k \in (n + 1)..m : k \notin revisions,
         NEW f, Replays(f, initial, entries, revisions, m)
  PROVE  f[m] = f[n]
<1> DEFINE T == {k \in n..m : f[k] # f[n]}
<1> SUFFICES ASSUME T # {}
             PROVE  FALSE
  OBVIOUS
<1>1. PICK least \in T : \A k \in T : least <= k
  <2>1. T \subseteq Nat
    OBVIOUS
  <2> HIDE DEF T
  <2> QED
    BY <2>1, LeastNumber
<1>2. least # n /\ least \in (n + 1)..m /\ least # 0
  BY <1>1
<1>3. f[least] = f[least - 1]
  BY <1>2 DEF Replays, Replaying
<1>4. least - 1 \in n..m /\ least - 1 \notin T
  BY <1>1, <1>2
<1> QED
  BY <1>1, <1>3, <1>4

LEMMA ReplaysSame ==
  ASSUME NEW initial, NEW some, NEW others, NEW P, NEW Q,
         NEW n \in Nat, NEW m \in Nat, n <= m,
         \A k \in 1..n : k \in P <=> k \in Q,
         \A k \in 1..n : k \in P => some[k] = others[k],
         \A k \in (n + 1)..m : k \notin Q,
         NEW f, Replays(f, initial, some, P, n),
         NEW g, Replays(g, initial, others, Q, m)
  PROVE  f[n] = g[m]
<1>1. \A k \in 0..n : f[k] = g[k]
  BY ReplaysAgree
<1>2. g[m] = g[n]
  BY ReplaysEnd
<1> QED
  BY <1>1, <1>2

LEMMA ReplayWorldReplays ==
  ASSUME NEW initial, NEW entries, NEW revisions, Len(entries) \in Nat
  PROVE  \E f : /\ Replays(f, initial, entries, revisions, Len(entries))
                /\ ReplayWorld(initial, entries, revisions) = f[Len(entries)]
<1> DEFINE c == CHOOSE f : Replays(f, initial, entries, revisions, Len(entries))
<1>1. Replays(c, initial, entries, revisions, Len(entries))
  BY ReplaysExist
<1>2. ReplayWorld(initial, entries, revisions) = c[Len(entries)]
  BY DEF ReplayWorld, Replays, Replaying
<1> QED
  BY <1>1, <1>2

\* Without revisions the world stays the initial one.
LEMMA ReplayNothing ==
  ASSUME NEW initial, NEW entries, Len(entries) \in Nat
  PROVE  ReplayWorld(initial, entries, {}) = initial
<1> DEFINE size == Len(entries)
<1>1. PICK f : /\ Replays(f, initial, entries, {}, size)
               /\ ReplayWorld(initial, entries, {}) = f[size]
  BY ReplayWorldReplays
<1>2. size \in Nat /\ 0 \in 0..size
  OBVIOUS
<1> HIDE DEF size
<1>3. f[0] = initial
  BY <1>1, <1>2 DEF Replays
<1>4. \A k \in 1..size : f[k] = f[k - 1]
  BY <1>1, <1>2 DEF Replays, Replaying
<1> DEFINE T == {k \in 0..size : f[k] # initial}
<1>5. T = {}
  <2> SUFFICES ASSUME T # {}
               PROVE  FALSE
    OBVIOUS
  <2>1. PICK least \in T : \A k \in T : least <= k
    <3>1. T \subseteq Nat
      OBVIOUS
    <3> HIDE DEF T
    <3> QED
      BY <3>1, LeastNumber
  <2>2. least \in 1..size /\ f[least] # initial
    BY <1>3
  <2>3. least - 1 \in 0..size /\ ~(least <= least - 1)
    BY <1>2, <2>2
  <2>4. f[least - 1] = initial
    BY <2>1, <2>3
  <2> QED
    BY <1>4, <2>2, <2>4
<1> QED
  BY <1>1, <1>2, <1>5

\* What else is on record changes nothing of what the revisions replay to.
LEMMA ReplaySame ==
  ASSUME NEW initial, NEW some, NEW others, NEW P, NEW Q,
         Len(some) \in Nat, Len(others) \in Nat, Len(some) <= Len(others),
         \A k \in 1..Len(some) : k \in P <=> k \in Q,
         \A k \in 1..Len(some) : k \in P => some[k] = others[k],
         \A k \in (Len(some) + 1)..Len(others) : k \notin Q
  PROVE  ReplayWorld(initial, some, P) = ReplayWorld(initial, others, Q)
<1> DEFINE n == Len(some)
           m == Len(others)
<1>1. PICK f : Replays(f, initial, some, P, n) /\ ReplayWorld(initial, some, P) = f[n]
  BY ReplayWorldReplays
<1>2. PICK g : Replays(g, initial, others, Q, m) /\ ReplayWorld(initial, others, Q) = g[m]
  BY ReplayWorldReplays
<1>3. /\ n \in Nat /\ m \in Nat /\ n <= m
      /\ \A k \in 1..n : k \in P <=> k \in Q
      /\ \A k \in 1..n : k \in P => some[k] = others[k]
      /\ \A k \in (n + 1)..m : k \notin Q
  OBVIOUS
<1> HIDE DEF n, m
<1>4. f[n] = g[m]
  BY <1>1, <1>2, <1>3, ReplaysSame
<1> QED
  BY <1>1, <1>2, <1>4

\* The last of some positions.
Latest(last, positions) ==
  last \in positions /\ \A k \in positions : k <= last

\* The last revision is replayed last.
LEMMA ReplayOneMore ==
  ASSUME NEW initial, NEW entries, NEW revisions, NEW last,
         Len(entries) \in Nat, last \in 1..Len(entries), Latest(last, revisions)
  PROVE  ReplayWorld(initial, entries, revisions)
           = ReplayRevision(ReplayWorld(initial, entries, revisions \ {last}),
                            entries[last])
<1> DEFINE size == Len(entries)
           before == revisions \ {last}
<1>1. PICK f : /\ Replays(f, initial, entries, revisions, size)
               /\ ReplayWorld(initial, entries, revisions) = f[size]
  BY ReplayWorldReplays
<1>2. PICK g : /\ Replays(g, initial, entries, before, size)
               /\ ReplayWorld(initial, entries, before) = g[size]
  BY ReplayWorldReplays
<1>3. size \in Nat /\ last \in Nat /\ last \in 1..size /\ last - 1 \in 0..size
  OBVIOUS
<1>4. \A k \in (last + 1)..size : k \notin revisions
  BY DEF Latest
<1>5. \A k \in last..size : k \notin before
  BY DEF Latest
<1> HIDE DEF size
<1>6. f[size] = f[last]
  BY <1>1, <1>3, <1>4, ReplaysEnd
<1>7. f[last] = ReplayRevision(f[last - 1], entries[last])
  BY <1>1, <1>3 DEF Replays, Replaying, Latest
<1>8. g[size] = g[last - 1]
  <2>1. \A k \in ((last - 1) + 1)..size : k \notin before
    BY <1>3, <1>5
  <2> HIDE DEF before
  <2> QED
    BY <1>2, <1>3, <2>1, ReplaysEnd
<1>9. f[last - 1] = g[last - 1]
  <2>1. PICK h : Replays(h, initial, entries, before, last - 1)
    BY <1>3, ReplaysExist
  <2>2. \A k \in 1..(last - 1) : k \in before <=> k \in revisions
    BY <1>3
  <2> HIDE DEF before
  <2>3. h[last - 1] = f[last - 1]
    BY <1>1, <1>3, <2>1, <2>2, ReplaysAgree
  <2>4. h[last - 1] = g[last - 1]
    BY <1>2, <1>3, <2>1, ReplaysAgree
  <2> QED
    BY <2>3, <2>4
<1> QED
  BY <1>1, <1>2, <1>6, <1>7, <1>8, <1>9

\* A revision, once its deltas are replayed.
Concluded(after, revision) ==
  [after EXCEPT !.anchors = Anchored(@, revision.deltas), !.id = revision.result]

\* What a revision of one delta replays to.
LEMMA ReplayOneDelta ==
  ASSUME NEW w, NEW d, NEW revision, revision.deltas = <<d>>
  PROVE  /\ ~ReplayDelta(w, d).ok => ReplayRevision(w, revision) = ReplayDelta(w, d)
         /\ ReplayDelta(w, d).ok =>
              ReplayRevision(w, revision) = Concluded(ReplayDelta(w, d), revision)
         /\ \A a : Anchored(a, revision.deltas)
                   = IF /\ d.kind = "anchor_add" /\ d.after # ""
                        /\ \A m \in DOMAIN a : a[m] # d.after
                     THEN Append(a, d.after) ELSE a
<1> DEFINE deltas == revision.deltas
           Replayed(f) == f = [n \in 0..Len(deltas) |->
                                 IF n = 0 THEN w ELSE ReplayDelta(f[n - 1], deltas[n])]
           replayed == CHOOSE f : Replayed(f)
           after == replayed[Len(deltas)]
<1>1. Len(deltas) = 1 /\ deltas[1] = d
  OBVIOUS
<1>2. after = ReplayDelta(w, d)
  <2> DEFINE f == [n \in 0..1 |-> IF n = 0 THEN w ELSE ReplayDelta(w, d)]
  <2>1. f[0] = w /\ f[1] = ReplayDelta(w, d)
    OBVIOUS
  <2>2. f = [n \in 0..1 |-> IF n = 0 THEN w ELSE ReplayDelta(f[n - 1], deltas[n])]
    <3>1. \A n \in 0..1 : f[n] = IF n = 0 THEN w ELSE ReplayDelta(f[n - 1], deltas[n])
      <4> TAKE n \in 0..1
      <4>1. n = 0 \/ n = 1
        OBVIOUS
      <4> QED
        BY <1>1, <2>1, <4>1
    <3> QED
      BY <3>1
  <2> HIDE DEF f, deltas
  <2>3. Replayed(f)
    BY <1>1, <2>2
  <2>4. Replayed(replayed)
    BY <2>3
  <2> HIDE DEF replayed
  <2>5. /\ replayed[0] = w
        /\ replayed[1] = ReplayDelta(replayed[0], deltas[1])
    BY <1>1, <2>4
  <2> QED
    BY <1>1, <2>5
<1>3. ReplayRevision(w, revision)
        = IF ~after.ok THEN after
          ELSE [after EXCEPT !.anchors = Anchored(@, deltas), !.id = revision.result]
  BY DEF ReplayRevision
<1>4. \A a : Anchored(a, deltas)
               = IF /\ d.kind = "anchor_add" /\ d.after # ""
                    /\ \A m \in DOMAIN a : a[m] # d.after
                 THEN Append(a, d.after) ELSE a
  <2> TAKE a
  <2> DEFINE Adding(b, n) ==
               LET fact == deltas[n].after
               IN  IF /\ deltas[n].kind = "anchor_add" /\ fact # ""
                      /\ \A m \in DOMAIN b : b[m] # fact
                   THEN Append(b, fact) ELSE b
             Anchors(f) == f = [n \in 0..Len(deltas) |->
                                  IF n = 0 THEN a ELSE Adding(f[n - 1], n)]
             anchored == CHOOSE f : Anchors(f)
             f == [n \in 0..1 |-> IF n = 0 THEN a ELSE Adding(a, 1)]
  <2>1. Anchored(a, deltas) = anchored[Len(deltas)]
    BY DEF Anchored
  <2>2. Adding(a, 1) = IF /\ d.kind = "anchor_add" /\ d.after # ""
                          /\ \A m \in DOMAIN a : a[m] # d.after
                       THEN Append(a, d.after) ELSE a
    BY <1>1
  <2> HIDE DEF Adding, deltas
  <2>3. f[0] = a /\ f[1] = Adding(a, 1)
    OBVIOUS
  <2>4. f = [n \in 0..1 |-> IF n = 0 THEN a ELSE Adding(f[n - 1], n)]
    <3>1. \A n \in 0..1 : f[n] = IF n = 0 THEN a ELSE Adding(f[n - 1], n)
      <4> TAKE n \in 0..1
      <4>1. n = 0 \/ n = 1
        OBVIOUS
      <4> QED
        BY <2>3, <4>1
    <3> QED
      BY <3>1
  <2> HIDE DEF f
  <2>5. Anchors(f)
    BY <1>1, <2>4
  <2>6. Anchors(anchored)
    BY <2>5
  <2> HIDE DEF anchored
  <2>7. anchored[0] = a /\ anchored[1] = Adding(anchored[0], 1)
    BY <1>1, <2>6
  <2> QED
    BY <1>1, <2>1, <2>2, <2>7
<1>5. ReplayRevision(w, revision) = IF ~after.ok THEN after ELSE Concluded(after, revision)
  BY <1>3 DEF Concluded
<1> HIDE DEF after
<1> QED
  BY <1>2, <1>4, <1>5

================================================================================
