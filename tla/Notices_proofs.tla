--------------------------- MODULE Notices_proofs ---------------------------
(***************************************************************************)
(* What people are told: the badges of RecordingPanel, for any browsers,    *)
(* recordings and losses, and the emails of NotificationEmail, for any       *)
(* emails, requests, attempts and faults.                                    *)
(*                                                                         *)
(* What a browser has still to hear of a recording is followed through      *)
(* recording-events and its socket as one queue.                            *)
(***************************************************************************)
EXTENDS RecordingPanel, NotificationEmail, SequenceTheorems, TLAPS

Verdicts == {"ready", "failed"}
Messages == [k : Kinds \cup {"joined"}, r : Recs]

Mentions(q, r) == \E n \in 1..Len(q) : q[n].r = r

\* Of a recording in T the queue q says the verdict last, and of no other.
Closed(q, T) ==
    \A n \in 1..Len(q) :
        /\ q[n].r \in T =>
              \E m \in n..Len(q) : q[m].r = q[n].r /\ q[m].k \in Verdicts
        /\ q[n].k \in Verdicts =>
              q[n].r \in T /\ \A m \in n+1..Len(q) : q[m].r # q[n].r

-----------------------------------------------------------------------------
(* Queues *)

LEMMA JoinedQueue ==
    ASSUME NEW s \in Seq(Messages), NEW t \in Seq(Messages)
    PROVE  /\ s \o t \in Seq(Messages)
           /\ Len(s \o t) = Len(s) + Len(t)
           /\ \A n \in 1..Len(s) : (s \o t)[n] = s[n]
           /\ \A n \in 1..Len(t) : (s \o t)[Len(s) + n] = t[n]
           /\ \A n \in Len(s)+1..Len(s)+Len(t) : (s \o t)[n] = t[n - Len(s)]
  OBVIOUS

LEMMA JoinedMentions ==
    ASSUME NEW s \in Seq(Messages), NEW t \in Seq(Messages), NEW r
    PROVE  Mentions(s \o t, r) <=> Mentions(s, r) \/ Mentions(t, r)
<1> DEFINE q == s \o t
<1>1. /\ Len(q) = Len(s) + Len(t)
      /\ \A n \in 1..Len(s) : q[n] = s[n]
      /\ \A n \in 1..Len(t) : q[Len(s) + n] = t[n]
      /\ \A n \in Len(s)+1..Len(s)+Len(t) : q[n] = t[n - Len(s)]
  BY JoinedQueue
<1>2. Len(s) \in Nat /\ Len(t) \in Nat
  OBVIOUS
<1> HIDE DEF q
<1>3. ASSUME NEW n \in 1..Len(q), q[n].r = r PROVE Mentions(s, r) \/ Mentions(t, r)
  <2>1. CASE n <= Len(s)
    BY <1>1, <1>2, <1>3, <2>1 DEF Mentions
  <2>2. CASE n > Len(s)
    <3>1. n - Len(s) \in 1..Len(t) /\ t[n - Len(s)] = q[n]
      BY <1>1, <1>2, <2>2
    <3> QED
      BY <3>1, <1>3 DEF Mentions
  <2> QED
    BY <2>1, <2>2, <1>2
<1>4. ASSUME NEW n \in 1..Len(s), s[n].r = r PROVE Mentions(q, r)
  BY <1>1, <1>2, <1>4 DEF Mentions
<1>5. ASSUME NEW n \in 1..Len(t), t[n].r = r PROVE Mentions(q, r)
  <2>1. Len(s) + n \in 1..Len(q) /\ q[Len(s) + n] = t[n]
    BY <1>1, <1>2
  <2> QED
    BY <2>1, <1>5 DEF Mentions
<1>6. Mentions(q, r) <=> Mentions(s, r) \/ Mentions(t, r)
  BY <1>3, <1>4, <1>5 DEF Mentions
<1> QED
  BY <1>6 DEF q

LEMMA PoppedQueue ==
    ASSUME NEW q \in Seq(Messages), q # <<>>
    PROVE  /\ Tail(q) \in Seq(Messages) /\ Len(Tail(q)) = Len(q) - 1 /\ Len(q) \in Nat \ {0}
           /\ \A n \in 1..Len(q)-1 : Tail(q)[n] = q[n + 1]
           /\ Head(q) = q[1] /\ Head(q) \in Messages
  OBVIOUS

LEMMA LongerQueue ==
    ASSUME NEW q \in Seq(Messages), NEW e \in Messages
    PROVE  /\ Append(q, e) \in Seq(Messages) /\ Len(Append(q, e)) = Len(q) + 1
           /\ \A n \in 1..Len(q) : Append(q, e)[n] = q[n]
           /\ Append(q, e)[Len(q) + 1] = e
  OBVIOUS

LEMMA PoppedMentions ==
    ASSUME NEW q \in Seq(Messages), q # <<>>, NEW r, Mentions(Tail(q), r)
    PROVE  Mentions(q, r)
<1>1. PICK n \in 1..Len(Tail(q)) : Tail(q)[n].r = r
  BY DEF Mentions
<1>2. n + 1 \in 1..Len(q) /\ q[n + 1] = Tail(q)[n]
  BY PoppedQueue
<1> QED
  BY <1>1, <1>2 DEF Mentions

LEMMA LongerMentions ==
    ASSUME NEW q \in Seq(Messages), NEW e \in Messages, NEW r
    PROVE  Mentions(Append(q, e), r) <=> Mentions(q, r) \/ e.r = r
<1> DEFINE p == Append(q, e)
<1>1. Len(p) = Len(q) + 1 /\ p[Len(q) + 1] = e /\ \A n \in 1..Len(q) : p[n] = q[n]
  BY LongerQueue
<1>2. Len(q) \in Nat
  OBVIOUS
<1> HIDE DEF p
<1>3. Mentions(p, r) <=> Mentions(q, r) \/ e.r = r
  BY <1>1, <1>2 DEF Mentions
<1> QED
  BY <1>3 DEF p

LEMMA HeadMentions ==
    ASSUME NEW q \in Seq(Messages), q # <<>>
    PROVE  Mentions(q, Head(q).r)
  BY PoppedQueue DEF Mentions

-----------------------------------------------------------------------------
(* Closed queues *)

LEMMA PoppedClosed ==
    ASSUME NEW q \in Seq(Messages), q # <<>>, NEW T, Closed(q, T)
    PROVE  Closed(Tail(q), T)
<1> DEFINE p == Tail(q)
<1>1. /\ Len(p) = Len(q) - 1 /\ Len(q) \in Nat \ {0}
      /\ \A n \in 1..Len(q)-1 : p[n] = q[n + 1]
  BY PoppedQueue
<1> HIDE DEF p
<1> SUFFICES ASSUME NEW n \in 1..Len(p)
             PROVE  /\ p[n].r \in T =>
                          \E m \in n..Len(p) : p[m].r = p[n].r /\ p[m].k \in Verdicts
                    /\ p[n].k \in Verdicts =>
                          p[n].r \in T /\ \A m \in n+1..Len(p) : p[m].r # p[n].r
  BY DEF Closed, p
<1>2. n + 1 \in 1..Len(q) /\ p[n] = q[n + 1]
  BY <1>1
<1>3. ASSUME p[n].r \in T
      PROVE  \E m \in n..Len(p) : p[m].r = p[n].r /\ p[m].k \in Verdicts
  <2>1. PICK m \in n+1..Len(q) : q[m].r = p[n].r /\ q[m].k \in Verdicts
    BY <1>2, <1>3 DEF Closed
  <2>2. m - 1 \in n..Len(p) /\ p[m - 1] = q[m]
    BY <1>1, <2>1
  <2> QED
    BY <2>1, <2>2
<1>4. ASSUME p[n].k \in Verdicts
      PROVE  p[n].r \in T /\ \A m \in n+1..Len(p) : p[m].r # p[n].r
  <2>1. p[n].r \in T /\ \A m \in n+2..Len(q) : q[m].r # p[n].r
    BY <1>1, <1>2, <1>4 DEF Closed
  <2>2. ASSUME NEW m \in n+1..Len(p) PROVE p[m].r # p[n].r
    <3>1. m + 1 \in n+2..Len(q) /\ p[m] = q[m + 1]
      BY <1>1
    <3> QED
      BY <2>1, <3>1
  <2> QED
    BY <2>1, <2>2
<1> QED
  BY <1>3, <1>4

LEMMA LaterClosed ==
    ASSUME NEW s \in Seq(Messages), NEW t \in Seq(Messages), NEW T, Closed(s \o t, T)
    PROVE  Closed(t, T)
<1> DEFINE q == s \o t
<1>1. /\ Len(q) = Len(s) + Len(t) /\ Len(s) \in Nat /\ Len(t) \in Nat
      /\ \A n \in 1..Len(t) : q[Len(s) + n] = t[n]
  BY JoinedQueue
<1>2. Closed(q, T)
  OBVIOUS
<1> HIDE DEF q
<1> SUFFICES ASSUME NEW n \in 1..Len(t)
             PROVE  /\ t[n].r \in T =>
                          \E m \in n..Len(t) : t[m].r = t[n].r /\ t[m].k \in Verdicts
                    /\ t[n].k \in Verdicts =>
                          t[n].r \in T /\ \A m \in n+1..Len(t) : t[m].r # t[n].r
  BY DEF Closed
<1>3. Len(s) + n \in 1..Len(q) /\ q[Len(s) + n] = t[n]
  BY <1>1
<1>4. ASSUME t[n].r \in T
      PROVE  \E m \in n..Len(t) : t[m].r = t[n].r /\ t[m].k \in Verdicts
  <2>1. PICK m \in Len(s)+n..Len(q) : q[m].r = t[n].r /\ q[m].k \in Verdicts
    BY <1>2, <1>3, <1>4 DEF Closed
  <2>2. /\ m - Len(s) \in n..Len(t) /\ m - Len(s) \in 1..Len(t)
        /\ Len(s) + (m - Len(s)) = m
    BY <1>1, <2>1
  <2>3. t[m - Len(s)] = q[m]
    BY <1>1, <2>2
  <2> QED
    BY <2>1, <2>2, <2>3
<1>5. ASSUME t[n].k \in Verdicts
      PROVE  t[n].r \in T /\ \A m \in n+1..Len(t) : t[m].r # t[n].r
  <2>1. t[n].r \in T /\ \A m \in Len(s)+n+1..Len(q) : q[m].r # t[n].r
    BY <1>2, <1>3, <1>5 DEF Closed
  <2>2. ASSUME NEW m \in n+1..Len(t) PROVE t[m].r # t[n].r
    <3>1. Len(s) + m \in Len(s)+n+1..Len(q) /\ q[Len(s) + m] = t[m]
      BY <1>1
    <3> QED
      BY <2>1, <3>1
  <2> QED
    BY <2>1, <2>2
<1> QED
  BY <1>4, <1>5

LEMMA OpenLonger ==
    ASSUME NEW q \in Seq(Messages), NEW e \in Messages, NEW T, Closed(q, T),
           e.r \notin T, e.k \notin Verdicts
    PROVE  Closed(Append(q, e), T)
<1> DEFINE p == Append(q, e)
<1>1. /\ Len(p) = Len(q) + 1 /\ Len(q) \in Nat
      /\ p[Len(q) + 1] = e /\ \A n \in 1..Len(q) : p[n] = q[n]
  BY LongerQueue
<1> HIDE DEF p
<1> SUFFICES ASSUME NEW n \in 1..Len(p)
             PROVE  /\ p[n].r \in T =>
                          \E m \in n..Len(p) : p[m].r = p[n].r /\ p[m].k \in Verdicts
                    /\ p[n].k \in Verdicts =>
                          p[n].r \in T /\ \A m \in n+1..Len(p) : p[m].r # p[n].r
  BY DEF Closed, p
<1>2. CASE n = Len(q) + 1
  BY <1>1, <1>2
<1>3. CASE n \in 1..Len(q)
  <2>1. ASSUME p[n].r \in T
        PROVE  \E m \in n..Len(p) : p[m].r = p[n].r /\ p[m].k \in Verdicts
    <3>1. PICK m \in n..Len(q) : q[m].r = q[n].r /\ q[m].k \in Verdicts
      BY <1>1, <1>3, <2>1 DEF Closed
    <3> QED
      BY <1>1, <1>3, <3>1
  <2>2. ASSUME p[n].k \in Verdicts
        PROVE  p[n].r \in T /\ \A m \in n+1..Len(p) : p[m].r # p[n].r
    <3>1. p[n].r \in T /\ \A m \in n+1..Len(q) : q[m].r # p[n].r
      BY <1>1, <1>3, <2>2 DEF Closed
    <3> QED
      BY <1>1, <3>1
  <2> QED
    BY <2>1, <2>2
<1> QED
  BY <1>1, <1>2, <1>3

LEMMA VerdictLonger ==
    ASSUME NEW q \in Seq(Messages), NEW e \in Messages, NEW T, Closed(q, T),
           e.r \notin T, e.k \in Verdicts
    PROVE  Closed(Append(q, e), T \cup {e.r})
<1> DEFINE p == Append(q, e)
           U == T \cup {e.r}
<1>1. /\ Len(p) = Len(q) + 1 /\ Len(q) \in Nat
      /\ p[Len(q) + 1] = e /\ \A n \in 1..Len(q) : p[n] = q[n]
  BY LongerQueue
<1> HIDE DEF p
<1> SUFFICES ASSUME NEW n \in 1..Len(p)
             PROVE  /\ p[n].r \in U =>
                          \E m \in n..Len(p) : p[m].r = p[n].r /\ p[m].k \in Verdicts
                    /\ p[n].k \in Verdicts =>
                          p[n].r \in U /\ \A m \in n+1..Len(p) : p[m].r # p[n].r
  BY DEF Closed, p
<1>2. CASE n = Len(q) + 1
  BY <1>1, <1>2
<1>3. CASE n \in 1..Len(q)
  <2>1. ASSUME p[n].r \in U
        PROVE  \E m \in n..Len(p) : p[m].r = p[n].r /\ p[m].k \in Verdicts
    <3>1. CASE p[n].r = e.r
      BY <1>1, <1>3, <3>1
    <3>2. CASE p[n].r \in T
      <4>1. PICK m \in n..Len(q) : q[m].r = q[n].r /\ q[m].k \in Verdicts
        BY <1>1, <1>3, <3>2 DEF Closed
      <4> QED
        BY <1>1, <1>3, <4>1
    <3> QED
      BY <2>1, <3>1, <3>2
  <2>2. ASSUME p[n].k \in Verdicts
        PROVE  p[n].r \in U /\ \A m \in n+1..Len(p) : p[m].r # p[n].r
    <3>1. p[n].r \in T /\ \A m \in n+1..Len(q) : q[m].r # p[n].r
      BY <1>1, <1>3, <2>2 DEF Closed
    <3> QED
      BY <1>1, <3>1
  <2> QED
    BY <2>1, <2>2
<1> QED
  BY <1>1, <1>2, <1>3

\* A recording of which the queue says nothing may begin, or be over.
LEMMA UnsaidClosed ==
    ASSUME NEW q, NEW T, NEW U, NEW r, Closed(q, T), ~Mentions(q, r),
           \A x : x # r => (x \in U <=> x \in T)
    PROVE  Closed(q, U)
  BY DEF Closed, Mentions

LEMMA JoinedClosed ==
    ASSUME NEW s \in Seq(Messages), NEW t \in Seq(Messages), NEW j \in Messages, NEW T,
           Closed(s \o t, T), j.k \notin Verdicts, j.r \in T => Mentions(t, j.r)
    PROVE  Closed(Append(s, j) \o t, T)
<1> DEFINE q == s \o t
           p == Append(s, j) \o t
<1>1. /\ Len(q) = Len(s) + Len(t) /\ Len(s) \in Nat /\ Len(t) \in Nat
      /\ \A n \in 1..Len(s) : q[n] = s[n]
      /\ \A n \in 1..Len(t) : q[Len(s) + n] = t[n]
  BY JoinedQueue
<1>2. /\ Len(p) = Len(q) + 1 /\ p[Len(s) + 1] = j
      /\ \A n \in 1..Len(s) : p[n] = q[n]
      /\ \A n \in Len(s)+1..Len(q) : p[n + 1] = q[n]
  <2>1. /\ Append(s, j) \in Seq(Messages) /\ Len(Append(s, j)) = Len(s) + 1
        /\ \A n \in 1..Len(s) : Append(s, j)[n] = s[n]
        /\ Append(s, j)[Len(s) + 1] = j
    BY LongerQueue
  <2>2. /\ Len(p) = Len(s) + 1 + Len(t)
        /\ \A n \in 1..Len(s)+1 : p[n] = Append(s, j)[n]
        /\ \A n \in 1..Len(t) : p[Len(s) + 1 + n] = t[n]
    BY <2>1, JoinedQueue
  <2> HIDE DEF p, q
  <2>3. ASSUME NEW n \in Len(s)+1..Len(q) PROVE p[n + 1] = q[n]
    <3>1. PICK i \in 1..Len(t) : n = Len(s) + i
      <4>1. n - Len(s) \in 1..Len(t) /\ n = Len(s) + (n - Len(s))
        BY <1>1
      <4> QED
        BY <4>1
    <3>2. q[Len(s) + i] = t[i] /\ p[Len(s) + 1 + i] = t[i]
      BY <1>1, <2>2
    <3>3. n + 1 = Len(s) + 1 + i
      BY <1>1, <3>1
    <3> QED
      BY <3>1, <3>2, <3>3
  <2>4. Len(p) = Len(q) + 1
    BY <1>1, <2>2
  <2>5. Len(s) + 1 \in 1..Len(s)+1
    BY <1>1
  <2>6. p[Len(s) + 1] = j
    BY <2>1, <2>2, <2>5
  <2>7. ASSUME NEW n \in 1..Len(s) PROVE p[n] = q[n]
    <3>1. n \in 1..Len(s)+1
      BY <1>1
    <3> QED
      BY <1>1, <2>1, <2>2, <3>1
  <2> QED
    BY <2>3, <2>4, <2>6, <2>7
<1>3. Closed(q, T)
  OBVIOUS
<1>4. ASSUME j.r \in T
      PROVE  \E i \in Len(s)+1..Len(q) : q[i].r = j.r
  <2>1. PICK i \in 1..Len(t) : t[i].r = j.r
    BY <1>4 DEF Mentions
  <2>2. Len(s) + i \in Len(s)+1..Len(q) /\ q[Len(s) + i] = t[i]
    BY <1>1
  <2> QED
    BY <2>1, <2>2
<1> HIDE DEF p, q
<1> SUFFICES ASSUME NEW n \in 1..Len(p)
             PROVE  /\ p[n].r \in T =>
                          \E m \in n..Len(p) : p[m].r = p[n].r /\ p[m].k \in Verdicts
                    /\ p[n].k \in Verdicts =>
                          p[n].r \in T /\ \A m \in n+1..Len(p) : p[m].r # p[n].r
  BY DEF Closed, p
<1>5. ASSUME NEW i \in 1..Len(q), q[i].r \in T
      PROVE  \E m \in i..Len(p) :
                /\ i > Len(s) => m > i
                /\ p[m].r = q[i].r /\ p[m].k \in Verdicts
  <2>1. PICK m \in i..Len(q) : q[m].r = q[i].r /\ q[m].k \in Verdicts
    BY <1>3, <1>5 DEF Closed
  <2>2. CASE m <= Len(s)
    BY <1>1, <1>2, <2>1, <2>2
  <2>3. CASE m > Len(s)
    <3>1. m + 1 \in i..Len(p) /\ m + 1 > i /\ p[m + 1] = q[m]
      BY <1>1, <1>2, <2>3
    <3> QED
      BY <2>1, <3>1
  <2> QED
    BY <1>1, <2>2, <2>3
<1>6. CASE n = Len(s) + 1
  <2>1. ASSUME j.r \in T
        PROVE  \E m \in n..Len(p) : p[m].r = j.r /\ p[m].k \in Verdicts
    <3>1. PICK i \in Len(s)+1..Len(q) : q[i].r = j.r
      BY <1>4, <2>1
    <3>2. PICK m \in i..Len(p) : p[m].r = q[i].r /\ p[m].k \in Verdicts
      BY <1>1, <1>5, <2>1, <3>1
    <3> QED
      BY <1>1, <1>6, <3>1, <3>2
  <2> QED
    BY <1>2, <1>6, <2>1
<1>7. CASE n \in 1..Len(s)
  <2>1. n \in 1..Len(q) /\ p[n] = q[n]
    BY <1>1, <1>2, <1>7
  <2>2. ASSUME p[n].r \in T
        PROVE  \E m \in n..Len(p) : p[m].r = p[n].r /\ p[m].k \in Verdicts
    BY <1>5, <2>1, <2>2
  <2>3. ASSUME p[n].k \in Verdicts
        PROVE  p[n].r \in T /\ \A m \in n+1..Len(p) : p[m].r # p[n].r
    <3>1. p[n].r \in T /\ \A m \in n+1..Len(q) : q[m].r # p[n].r
      BY <1>3, <2>1, <2>3 DEF Closed
    <3>2. j.r # p[n].r
      <4>1. SUFFICES ASSUME j.r = p[n].r PROVE FALSE
        OBVIOUS
      <4>2. PICK i \in Len(s)+1..Len(q) : q[i].r = j.r
        BY <1>4, <3>1, <4>1
      <4>3. i \in n+1..Len(q)
        BY <1>1, <1>7
      <4> QED
        BY <3>1, <4>1, <4>2, <4>3
    <3>3. ASSUME NEW m \in n+1..Len(p) PROVE p[m].r # p[n].r
      <4>1. CASE m <= Len(s)
        BY <1>1, <1>2, <1>7, <3>1, <4>1
      <4>2. CASE m = Len(s) + 1
        BY <1>2, <3>2, <4>2
      <4>3. CASE m > Len(s) + 1
        <5>1. m - 1 \in Len(s)+1..Len(q) /\ m - 1 \in n+1..Len(q) /\ (m - 1) + 1 = m
          BY <1>1, <1>2, <1>7, <4>3
        <5>2. p[m] = q[m - 1]
          BY <1>2, <5>1
        <5> QED
          BY <3>1, <5>1, <5>2
      <4>4. m \in Int /\ Len(s) \in Int
        BY <1>1, <1>2
      <4>5. m <= Len(s) \/ m = Len(s) + 1 \/ m > Len(s) + 1
        BY <4>4
      <4> QED
        BY <4>1, <4>2, <4>3, <4>5
    <3> QED
      BY <3>1, <3>3
  <2> QED
    BY <2>2, <2>3
<1>8. CASE n > Len(s) + 1
  <2>1. n - 1 \in Len(s)+1..Len(q) /\ n - 1 \in 1..Len(q) /\ (n - 1) + 1 = n
    BY <1>1, <1>2, <1>8
  <2>2. p[n] = q[n - 1]
    BY <1>2, <2>1
  <2>3. ASSUME p[n].r \in T
        PROVE  \E m \in n..Len(p) : p[m].r = p[n].r /\ p[m].k \in Verdicts
    <3>1. PICK m \in n-1..Len(p) :
             /\ n - 1 > Len(s) => m > n - 1
             /\ p[m].r = q[n - 1].r /\ p[m].k \in Verdicts
      BY <1>5, <2>1, <2>2, <2>3
    <3>2. m \in n..Len(p)
      BY <1>1, <1>2, <1>8, <3>1
    <3> QED
      BY <2>2, <3>1, <3>2
  <2>4. ASSUME p[n].k \in Verdicts
        PROVE  p[n].r \in T /\ \A m \in n+1..Len(p) : p[m].r # p[n].r
    <3>1. p[n].r \in T /\ \A m \in n-1+1..Len(q) : q[m].r # p[n].r
      BY <1>3, <2>1, <2>2, <2>4 DEF Closed
    <3>2. ASSUME NEW m \in n+1..Len(p) PROVE p[m].r # p[n].r
      <4>1. /\ m - 1 \in Len(s)+1..Len(q) /\ m - 1 \in n-1+1..Len(q)
            /\ (m - 1) + 1 = m
        BY <1>1, <1>2, <1>8
      <4>2. p[m] = q[m - 1]
        BY <1>2, <4>1
      <4> QED
        BY <3>1, <4>1, <4>2
    <3> QED
      BY <3>1, <3>2
  <2> QED
    BY <2>3, <2>4
<1> QED
  BY <1>1, <1>2, <1>6, <1>7, <1>8

LEMMA HeadClosed ==
    ASSUME NEW q \in Seq(Messages), q # <<>>, NEW T, Closed(q, T)
    PROVE  LET e == Head(q) IN
           e.k \in Verdicts <=> e.r \in T /\ ~Mentions(Tail(q), e.r)
<1> DEFINE e == Head(q)
           p == Tail(q)
<1>1. /\ Len(p) = Len(q) - 1 /\ Len(q) \in Nat \ {0}
      /\ \A n \in 1..Len(q)-1 : p[n] = q[n + 1]
      /\ e = q[1]
  BY PoppedQueue
<1> HIDE DEF p, e
<1>2. ASSUME e.k \in Verdicts PROVE e.r \in T /\ ~Mentions(p, e.r)
  <2>1. e.r \in T /\ \A m \in 2..Len(q) : q[m].r # e.r
    BY <1>1, <1>2 DEF Closed
  <2>2. ASSUME NEW n \in 1..Len(p) PROVE p[n].r # e.r
    <3>1. n + 1 \in 2..Len(q) /\ p[n] = q[n + 1]
      BY <1>1
    <3> QED
      BY <2>1, <3>1
  <2> QED
    BY <2>1, <2>2 DEF Mentions
<1>3. ASSUME e.r \in T, ~Mentions(p, e.r) PROVE e.k \in Verdicts
  <2>1. PICK m \in 1..Len(q) : q[m].r = e.r /\ q[m].k \in Verdicts
    BY <1>1, <1>3 DEF Closed
  <2>2. CASE m = 1
    BY <1>1, <2>1, <2>2
  <2>3. CASE m # 1
    <3>1. m - 1 \in 1..Len(p) /\ p[m - 1] = q[m]
      BY <1>1, <2>3
    <3> QED
      BY <1>3, <2>1, <3>1 DEF Mentions
  <2> QED
    BY <2>2, <2>3
<1>4. e.k \in Verdicts <=> e.r \in T /\ ~Mentions(p, e.r)
  BY <1>2, <1>3
<1> QED
  BY <1>4 DEF p, e

\* What says no verdict leaves the verdict to what comes after.
LEMMA VerdictLater ==
    ASSUME NEW s \in Seq(Messages), NEW t \in Seq(Messages), NEW T, Closed(s \o t, T),
           NEW r \in T, Mentions(s, r), \A n \in 1..Len(s) : s[n].k \notin Verdicts
    PROVE  Mentions(t, r)
<1> DEFINE q == s \o t
<1>1. /\ Len(q) = Len(s) + Len(t) /\ Len(s) \in Nat /\ Len(t) \in Nat
      /\ \A n \in 1..Len(s) : q[n] = s[n]
      /\ \A n \in Len(s)+1..Len(s)+Len(t) : q[n] = t[n - Len(s)]
  BY JoinedQueue
<1>2. Closed(q, T)
  OBVIOUS
<1> HIDE DEF q
<1>3. PICK n \in 1..Len(s) : s[n].r = r
  BY DEF Mentions
<1>4. PICK m \in n..Len(q) : q[m].r = r /\ q[m].k \in Verdicts
  BY <1>1, <1>2, <1>3 DEF Closed
<1>5. m - Len(s) \in 1..Len(t) /\ t[m - Len(s)] = q[m]
  BY <1>1, <1>4
<1> QED
  BY <1>4, <1>5 DEF Mentions
-----------------------------------------------------------------------------
(* The invariant *)

\* Somebody has still to hear of r, of its events in particular.
Spoken(r) == Mentions(channel, r) \/ \E b \in Browsers : Mentions(inbox[b], r)
Published(r) == About(channel, r) \/ \E b \in Browsers : About(inbox[b], r)

\* Recordings that are over have begun, and nobody speaks of others.
BegunInv ==
    /\ lock <= count
    /\ \A b \in Browsers : held[b] <= count /\ badgeOf[b] <= count
    /\ call # "none" => about \in 1..count
    /\ \A r \in Recs : r > count => Told(r) /\ ~Spoken(r)

\* The SFU, the webhook and the finalize job have a recording one after the other.
StageInv ==
    \A r \in Recs :
        /\ r \in capturing \/ (call = "capture" /\ about = r) =>
              ended[r] = "none" /\ job[r] = "none"
        /\ job[r] \in {"queued", "ready", "failed"} => ended[r] = "none"
        /\ job[r] = "empty" => ended[r] \in {"claimed", "released", "told"}

\* While its start may still fail, no event of a recording has been published.
QuietInv == call = "capture" => about \notin capturing /\ ~Published(about)

StoreInv ==
    \A b \in Browsers :
        /\ badge[b] \notin {"idle", "failed"} => badgeOf[b] # 0
        /\ room[b] = "out" => inbox[b] = <<>>

\* What b has still to hear.
Future(b) == inbox[b] \o channel

Over == {r \in Recs : Told(r)}

\* A store shows k of r, with q to come and the recordings of T over.
Shows(q, T, k, r) ==
    /\ Closed(q, T)
    /\ r # 0 => (k = "ready" <=> r \in T /\ ~Mentions(q, r))

FollowInv ==
    \A b \in Browsers \ astray : Shows(Future(b), Over, badge[b], badgeOf[b])


-----------------------------------------------------------------------------
(* Types *)

USE DEF rowVars, workVars, callVars, storeVars

Events == [k : Kinds, r : Recs]

LEMMA EventsTyped ==
    /\ \A k \in Kinds, r \in Recs :
          /\ Event(k, r) \in Events /\ Event(k, r) \in Messages
          /\ Event(k, r).k = k /\ Event(k, r).r = r
    /\ \A r \in Recs :
          Joined(r) \in Messages /\ Joined(r).k = "joined" /\ Joined(r).r = r
    /\ \A e \in Messages :
          /\ e.k \in Kinds \cup {"joined"} /\ e.r \in Recs
          /\ e.k # "joined" => e \in Events
    /\ \A e \in Events : e \in Messages /\ e.k \in Kinds
  BY DEF Event, Joined, Messages, Events, Kinds

QueuesTyped ==
    channel \in Seq(Events) /\ inbox \in [Browsers -> Seq(Messages)]

ControlTyped ==
    /\ row \in [Recs -> Status]
    /\ lock \in 0..NumRecs /\ count \in 0..NumRecs /\ capturing \subseteq Recs
    /\ ended \in [Recs -> {"none", "due", "claimed", "released", "told"}]
    /\ job \in [Recs -> {"none", "empty", "queued", "ready", "failed"}]
    /\ call \in {"none", "capture", "confirm", "tell", "started", "stopping", "stopped"}
    /\ about \in 0..NumRecs
    /\ room \in [Browsers -> {"out", "entered", "read", "in"}]
    /\ held \in [Browsers -> 0..NumRecs]
    /\ badge \in [Browsers -> Kinds \cup {"idle"}]
    /\ badgeOf \in [Browsers -> 0..NumRecs]
    /\ astray \subseteq Browsers /\ misses \in 0..MaxMisses

LEMMA TypeSplit == TypeOK <=> ControlTyped /\ QueuesTyped
  BY Zenon DEF TypeOK, ControlTyped, QueuesTyped, Events, Messages

LEMMA ChannelTyped == QueuesTyped => channel \in Seq(Messages)
<1> SUFFICES ASSUME QueuesTyped PROVE channel \in Seq(Messages)
  OBVIOUS
<1>1. channel \in Seq(Events)
  BY DEF QueuesTyped
<1>2. \A n \in 1..Len(channel) : channel[n] \in Messages
  BY <1>1, EventsTyped
<1> QED
  BY <1>1, <1>2

LEMMA TypeInit == Init => TypeOK
<1> SUFFICES ASSUME Init PROVE ControlTyped /\ QueuesTyped
  BY TypeSplit
<1>1. ControlTyped
  BY BoundsAssumption DEF Init, ControlTyped, Recs, Status, NotYet
<1>2. <<>> \in Seq(Events) /\ <<>> \in Seq(Messages)
  OBVIOUS
<1> QED
  BY <1>1, <1>2 DEF Init, QueuesTyped

PublishTyped ==
    /\ channel' \in Seq(Events)
    /\ astray' \subseteq Browsers /\ misses' \in 0..MaxMisses

LEMMA PublishIsTyped ==
    ASSUME TypeOK, NEW k \in Kinds, NEW r \in Recs, Publish(k, r)
    PROVE  PublishTyped
<1> USE TypeSplit DEF QueuesTyped, ControlTyped
<1>1. CASE channel' = Append(channel, Event(k, r)) /\ UNCHANGED <<astray, misses>>
  BY <1>1, EventsTyped DEF PublishTyped
<1>2. CASE misses < MaxMisses /\ misses' = misses + 1 /\ astray' = Browsers /\ UNCHANGED channel
  BY <1>2, BoundsAssumption DEF PublishTyped
<1> QED
  BY <1>1, <1>2 DEF Publish

LEMMA RecsRange == \A r : r \in Recs <=> r \in 0..NumRecs /\ r # 0
  BY BoundsAssumption DEF Recs

LEMMA TypeNext == TypeOK /\ BegunInv /\ [Next]_vars => TypeOK'
<1> SUFFICES ASSUME TypeOK, BegunInv, [Next]_vars PROVE (ControlTyped /\ QueuesTyped)'
  BY TypeSplit DEF ControlTyped, QueuesTyped, TypeOK, Events, Messages
<1> ControlTyped /\ QueuesTyped
  BY TypeSplit
<1> USE HostAssumption, BoundsAssumption DEF ControlTyped, QueuesTyped
<1>1. CASE Acquire
  BY <1>1 DEF Acquire, Status, Recs
<1>2. CASE CaptureStarts
  BY <1>2 DEF CaptureStarts, Goto, BegunInv, Recs
<1>3. CASE CaptureFails
  <2>1. astray' \subseteq Browsers
    BY <1>3 DEF CaptureFails
  <2>2. /\ row' \in [Recs -> Status] /\ lock' = 0 /\ call' = "none"
        /\ UNCHANGED <<count, capturing, workVars, about, channel, room, held, inbox, storeVars,
                       misses>>
    BY <1>3 DEF CaptureFails, Goto, Status
  <2> QED
    BY <2>1, <2>2
<1>4. CASE Confirm
  BY <1>4 DEF Confirm, Goto, Status
<1>5. CASE TellStarted
  <2>1. about \in Recs
    BY <1>5 DEF TellStarted, BegunInv, Recs
  <2>2. PublishTyped
    <3>1. CASE Told(about)
      <4>1. Event("recording", about) \in Events
        BY <2>1, EventsTyped DEF Kinds
      <4>2. /\ channel' = Append(channel, Event("recording", about))
            /\ astray' = Browsers /\ misses' = misses
        BY <1>5, <3>1 DEF TellStarted
      <4> QED
        BY <4>1, <4>2 DEF PublishTyped
    <3>2. CASE ~Told(about)
      BY <1>5, <2>1, <3>2, PublishIsTyped DEF TellStarted, Kinds
    <3> QED
      BY <3>1, <3>2
  <2> QED
    BY <1>5, <2>2 DEF TellStarted, Goto, PublishTyped
<1>6. CASE StartAnswered
  BY <1>6 DEF StartAnswered, Answered, SetRecording, Goto, Kinds
<1>7. CASE RequestStop
  BY <1>7 DEF RequestStop, Status
<1>8. CASE SfuStopped
  BY <1>8 DEF SfuStopped, SfuStop, Goto
<1>9. CASE StopAnswered
  BY <1>9 DEF StopAnswered, Answered, SetRecording, Goto, Kinds
<1>10. ASSUME NEW r \in Recs, AutoStop(r) PROVE (ControlTyped /\ QueuesTyped)'
  BY <1>10 DEF AutoStop, SfuStop, Status
<1>11. ASSUME NEW r \in Recs, Claim(r) PROVE (ControlTyped /\ QueuesTyped)'
  BY <1>11 DEF Claim, Status
<1>12. ASSUME NEW r \in Recs, ReleaseLock(r) PROVE (ControlTyped /\ QueuesTyped)'
  BY <1>12 DEF ReleaseLock
<1>13. ASSUME NEW r \in Recs, TellStopped(r) PROVE (ControlTyped /\ QueuesTyped)'
  <2>1. PublishTyped
    BY <1>13, PublishIsTyped DEF TellStopped, Kinds
  <2> QED
    BY <1>13, <2>1 DEF TellStopped, PublishTyped
<1>14. ASSUME NEW r \in Recs, TellEmpty(r) PROVE (ControlTyped /\ QueuesTyped)'
  <2>1. PublishTyped
    BY <1>14, PublishIsTyped DEF TellEmpty, Kinds
  <2> QED
    BY <1>14, <2>1 DEF TellEmpty, PublishTyped
<1>15. ASSUME NEW r \in Recs, Enqueue(r) PROVE (ControlTyped /\ QueuesTyped)'
  BY <1>15 DEF Enqueue
<1>16. ASSUME NEW r \in Recs, Finalize(r) PROVE (ControlTyped /\ QueuesTyped)'
  BY <1>16 DEF Finalize, Status
<1>17. ASSUME NEW r \in Recs, TellVerdict(r) PROVE (ControlTyped /\ QueuesTyped)'
  <2>1. PublishTyped
    BY <1>17, PublishIsTyped DEF TellVerdict, Kinds
  <2> QED
    BY <1>17, <2>1 DEF TellVerdict, PublishTyped
<1>18. CASE RoomEmpties
  BY <1>18 DEF RoomEmpties, SfuStop
<1>19. ASSUME NEW b \in Browsers, Enter(b) PROVE (ControlTyped /\ QueuesTyped)'
  BY <1>19 DEF Enter
<1>20. ASSUME NEW b \in Browsers, ReadLock(b) PROVE (ControlTyped /\ QueuesTyped)'
  BY <1>20 DEF ReadLock
<1>21. ASSUME NEW b \in Browsers, SendJoined(b) PROVE (ControlTyped /\ QueuesTyped)'
  <2>1. inbox' \in [Browsers -> Seq(Messages)]
    <3>1. CASE held[b] = 0
      BY <1>21, <3>1 DEF SendJoined
    <3>2. CASE held[b] # 0
      <4>1. Joined(held[b]) \in Messages
        BY <3>2, EventsTyped, RecsRange
      <4> QED
        BY <1>21, <3>2, <4>1 DEF SendJoined
    <3> QED
      BY <3>1, <3>2
  <2> QED
    BY <1>21, <2>1 DEF SendJoined
<1>22. ASSUME NEW b \in Browsers, Drop(b) PROVE (ControlTyped /\ QueuesTyped)'
  <2>1. inbox' \in [Browsers -> Seq(Messages)]
    BY <1>22 DEF Drop
  <2> QED
    BY <1>22, <2>1 DEF Drop
<1>23. ASSUME NEW b \in Browsers, Hear(b) PROVE (ControlTyped /\ QueuesTyped)'
  <2>1. inbox' \in [Browsers -> Seq(Messages)]
    BY <1>23 DEF Hear
  <2>2. Head(inbox[b]) \in Messages
    BY <1>23 DEF Hear
  <2>3. Head(inbox[b]).k \in Kinds \cup {"joined"} /\ Head(inbox[b]).r \in 0..NumRecs
    BY <2>2, EventsTyped, RecsRange
  <2>4. badge' \in [Browsers -> Kinds \cup {"idle"}] /\ badgeOf' \in [Browsers -> 0..NumRecs]
    BY <1>23, <2>3 DEF Hear, SetRecording, Kinds
  <2> QED
    BY <1>23, <2>1, <2>4 DEF Hear
<1>24. CASE Relay
  <2>1. Head(channel) \in Messages
    BY <1>24, ChannelTyped, PoppedQueue DEF Relay
  <2>2. inbox' \in [Browsers -> Seq(Messages)]
    <3>1. \A b \in Browsers : Append(inbox[b], Head(channel)) \in Seq(Messages)
      BY <2>1
    <3> QED
      BY <1>24, <3>1 DEF Relay
  <2>3. channel' \in Seq(Events)
    BY <1>24 DEF Relay
  <2>4. astray' \subseteq Browsers
    BY <1>24 DEF Relay
  <2> QED
    BY <1>24, <2>2, <2>3, <2>4 DEF Relay
<1>25. CASE UNCHANGED vars
  BY <1>25 DEF vars
<1> QED
  BY <1>1, <1>2, <1>3, <1>4, <1>5, <1>6, <1>7, <1>8, <1>9, <1>10, <1>11, <1>12, <1>13,
     <1>14, <1>15, <1>16, <1>17, <1>18, <1>19, <1>20, <1>21, <1>22, <1>23, <1>24, <1>25
     DEF Next, HostStep, EndStep

-----------------------------------------------------------------------------
(* What is said *)

LEMMA AboutMentions == ASSUME NEW q, NEW r, About(q, r) PROVE Mentions(q, r)
  BY DEF About, Mentions

LEMMA PoppedAbout ==
    ASSUME NEW q \in Seq(Messages), q # <<>>, NEW r, About(Tail(q), r)
    PROVE  About(q, r)
<1>1. PICK n \in 1..Len(Tail(q)) : Tail(q)[n].r = r /\ Tail(q)[n].k # "joined"
  BY DEF About
<1>2. n + 1 \in 1..Len(q) /\ q[n + 1] = Tail(q)[n]
  BY PoppedQueue
<1> QED
  BY <1>1, <1>2 DEF About

LEMMA LongerAbout ==
    ASSUME NEW q \in Seq(Messages), NEW e \in Messages, NEW r
    PROVE  About(Append(q, e), r) <=> About(q, r) \/ (e.r = r /\ e.k # "joined")
<1> DEFINE p == Append(q, e)
<1>1. Len(p) = Len(q) + 1 /\ p[Len(q) + 1] = e /\ \A n \in 1..Len(q) : p[n] = q[n]
  BY LongerQueue
<1>2. Len(q) \in Nat
  OBVIOUS
<1> HIDE DEF p
<1>3. About(p, r) <=> About(q, r) \/ (e.r = r /\ e.k # "joined")
  BY <1>1, <1>2 DEF About
<1> QED
  BY <1>3 DEF p

\* recording-events carries no joined message.
LEMMA ChannelAbout ==
    ASSUME QueuesTyped, NEW r
    PROVE  About(channel, r) <=> Mentions(channel, r)
<1>1. \A n \in 1..Len(channel) : channel[n] \in Events
  BY DEF QueuesTyped
<1>2. \A n \in 1..Len(channel) : channel[n].k # "joined"
  BY <1>1, EventsTyped DEF Kinds
<1> QED
  BY <1>2 DEF About, Mentions

LEMMA SameQueues ==
    ASSUME UNCHANGED <<channel, inbox>>
    PROVE  \A r : (Spoken(r)' <=> Spoken(r)) /\ (Published(r)' <=> Published(r))
  BY DEF Spoken, Published

LEMMA AppendSays ==
    ASSUME QueuesTyped, NEW k \in Kinds, NEW r \in Recs, UNCHANGED inbox,
           channel' = Append(channel, Event(k, r))
    PROVE  /\ \A x : Spoken(x)' <=> Spoken(x) \/ x = r
           /\ \A x : Published(x)' <=> Published(x) \/ x = r
<1>1. channel \in Seq(Messages)
  BY ChannelTyped
<1>2. Event(k, r) \in Messages /\ Event(k, r).r = r /\ Event(k, r).k # "joined"
  BY EventsTyped DEF Kinds
<1>3. \A x : Mentions(channel', x) <=> Mentions(channel, x) \/ x = r
  BY <1>1, <1>2, LongerMentions
<1>4. \A x : About(channel', x) <=> About(channel, x) \/ x = r
  BY <1>1, <1>2, LongerAbout
<1> QED
  BY <1>3, <1>4 DEF Spoken, Published

LEMMA PublishSays ==
    ASSUME QueuesTyped, NEW k \in Kinds, NEW r \in Recs, UNCHANGED inbox, Publish(k, r)
    PROVE  /\ \A x : Spoken(x)' => Spoken(x) \/ x = r
           /\ \A x : Published(x)' => Published(x) \/ x = r
<1>1. CASE channel' = Append(channel, Event(k, r))
  BY <1>1, AppendSays
<1>2. CASE UNCHANGED channel
  BY <1>2, SameQueues
<1> QED
  BY <1>1, <1>2 DEF Publish

LEMMA JoinedSays ==
    ASSUME TypeOK, NEW b \in Browsers, SendJoined(b)
    PROVE  /\ \A x : Spoken(x)' => Spoken(x) \/ (x = held[b] /\ x # 0)
           /\ \A x : Published(x)' <=> Published(x)
<1> USE TypeSplit DEF QueuesTyped, ControlTyped
<1>1. CASE held[b] = 0
  <2>1. UNCHANGED <<channel, inbox>>
    BY <1>1 DEF SendJoined
  <2>2. \A x : (Spoken(x)' <=> Spoken(x)) /\ (Published(x)' <=> Published(x))
    BY <2>1, SameQueues
  <2> QED
    BY <2>2
<1>2. CASE held[b] # 0
  <2> DEFINE j == Joined(held[b])
  <2>1. j \in Messages /\ j.r = held[b] /\ j.k = "joined"
    BY <1>2, EventsTyped, RecsRange
  <2>2. /\ inbox'[b] = Append(inbox[b], j) /\ channel' = channel
        /\ \A c \in Browsers \ {b} : inbox'[c] = inbox[c]
    BY <1>2 DEF SendJoined
  <2>3. inbox[b] \in Seq(Messages)
    OBVIOUS
  <2> HIDE DEF j
  <2>4. \A x : Mentions(inbox'[b], x) <=> Mentions(inbox[b], x) \/ held[b] = x
    BY <2>1, <2>2, <2>3, LongerMentions
  <2>5. \A x : About(inbox'[b], x) <=> About(inbox[b], x)
    BY <2>1, <2>2, <2>3, LongerAbout
  <2>6. \A x : Spoken(x)' => Spoken(x) \/ x = held[b]
    BY <2>2, <2>4 DEF Spoken
  <2>7. \A x : Published(x)' <=> Published(x)
    BY <2>2, <2>5 DEF Published
  <2> QED
    BY <1>2, <2>6, <2>7, Zenon
<1> QED
  BY <1>1, <1>2

LEMMA NothingIn == (\A r : ~Mentions(<<>>, r)) /\ (\A r : ~About(<<>>, r))
  BY DEF Mentions, About

LEMMA DropSays ==
    ASSUME TypeOK, NEW b \in Browsers, Drop(b)
    PROVE  \A x : (Spoken(x)' => Spoken(x)) /\ (Published(x)' => Published(x))
<1> USE TypeSplit DEF QueuesTyped
<1>1. /\ inbox'[b] = <<>> /\ channel' = channel
      /\ \A c \in Browsers \ {b} : inbox'[c] = inbox[c]
  BY DEF Drop
<1>2. \A x : Spoken(x)' => Spoken(x)
  BY <1>1, NothingIn DEF Spoken
<1>3. \A x : Published(x)' => Published(x)
  BY <1>1, NothingIn DEF Published
<1> QED
  BY <1>2, <1>3

LEMMA HearSays ==
    ASSUME TypeOK, NEW b \in Browsers, Hear(b)
    PROVE  \A x : (Spoken(x)' => Spoken(x)) /\ (Published(x)' => Published(x))
<1> USE TypeSplit DEF QueuesTyped
<1>1. /\ inbox'[b] = Tail(inbox[b]) /\ inbox[b] # <<>> /\ channel' = channel
      /\ \A c \in Browsers \ {b} : inbox'[c] = inbox[c]
  BY DEF Hear
<1>2. \A x : Mentions(inbox'[b], x) => Mentions(inbox[b], x)
  BY <1>1, PoppedMentions
<1>3. \A x : About(inbox'[b], x) => About(inbox[b], x)
  BY <1>1, PoppedAbout
<1>4. \A x : Spoken(x)' => Spoken(x)
  BY <1>1, <1>2 DEF Spoken
<1>5. \A x : Published(x)' => Published(x)
  BY <1>1, <1>3 DEF Published
<1> QED
  BY <1>4, <1>5

LEMMA RelaySays ==
    ASSUME TypeOK, Relay
    PROVE  \A x : (Spoken(x)' => Spoken(x)) /\ (Published(x)' => Published(x))
<1> USE TypeSplit DEF QueuesTyped
<1> DEFINE e == Head(channel)
<1>1. channel \in Seq(Messages) /\ channel # <<>> /\ channel' = Tail(channel)
  BY ChannelTyped DEF Relay
<1>2. e \in Messages /\ Mentions(channel, e.r) /\ About(channel, e.r)
  BY <1>1, PoppedQueue, HeadMentions, ChannelAbout
<1>3. \A b \in Browsers : inbox'[b] \in {inbox[b], Append(inbox[b], e)}
  BY DEF Relay
<1>4. \A b \in Browsers : inbox[b] \in Seq(Messages)
  OBVIOUS
<1> HIDE DEF e
<1>5. ASSUME NEW x, NEW b \in Browsers
      PROVE  /\ Mentions(inbox'[b], x) => Mentions(inbox[b], x) \/ Mentions(channel, x)
             /\ About(inbox'[b], x) => About(inbox[b], x) \/ About(channel, x)
  <2>1. CASE inbox'[b] = inbox[b]
    BY <2>1
  <2>2. CASE inbox'[b] = Append(inbox[b], e)
    BY <1>2, <1>4, <2>2, LongerMentions, LongerAbout
  <2> QED
    BY <1>3, <2>1, <2>2
<1>6. \A x : Mentions(channel', x) => Mentions(channel, x)
  BY <1>1, PoppedMentions
<1>7. \A x : About(channel', x) => About(channel, x)
  BY <1>1, PoppedAbout
<1>8. \A x : Spoken(x)' => Spoken(x)
  BY <1>5, <1>6 DEF Spoken
<1>9. \A x : Published(x)' => Published(x)
  BY <1>5, <1>7 DEF Published
<1> QED
  BY <1>8, <1>9

-----------------------------------------------------------------------------
(* Recordings, one step of somebody after the other *)

BaseInv == TypeOK /\ BegunInv /\ StageInv /\ QuietInv /\ StoreInv

LEMMA BaseInit == Init => BaseInv
<1> SUFFICES ASSUME Init PROVE BaseInv
  OBVIOUS
<1>1. TypeOK
  BY TypeInit
<1>2. \A r : ~Spoken(r)
  BY NothingIn DEF Init, Spoken
<1>3. BegunInv
  BY <1>2, BoundsAssumption DEF Init, BegunInv, Told, Recs
<1>4. StageInv /\ QuietInv /\ StoreInv
  BY DEF Init, StageInv, QuietInv, StoreInv
<1> QED
  BY <1>1, <1>3, <1>4 DEF BaseInv

\* A step that leaves the queues alone, or takes from them.
QueuesKept ==
    \A r \in Recs : (Spoken(r)' => Spoken(r)) /\ (Published(r)' => Published(r))

LEMMA KeptQueues == UNCHANGED <<channel, inbox>> => QueuesKept
  BY SameQueues DEF QueuesKept

\* A step that says something of r.
SaysOnly(r) ==
    \A x \in Recs \ {r} : (Spoken(x)' => Spoken(x)) /\ (Published(x)' => Published(x))

LEMMA BaseNext == BaseInv /\ [Next]_vars => BaseInv'
<1> SUFFICES ASSUME BaseInv, [Next]_vars PROVE (BegunInv /\ StageInv /\ QuietInv /\ StoreInv)'
  BY TypeNext DEF BaseInv
<1> ControlTyped /\ QueuesTyped
  BY TypeSplit DEF BaseInv
<1> USE HostAssumption, BoundsAssumption
    DEF BaseInv, ControlTyped, BegunInv, StageInv, QuietInv, StoreInv, Told
<1>1. CASE Acquire
  <2>1. QueuesKept
    BY <1>1, KeptQueues DEF Acquire
  <2>2. BegunInv'
    BY <1>1, <2>1 DEF Acquire, QueuesKept, Recs
  <2>3. StageInv'
    BY <1>1, <2>1 DEF Acquire, QueuesKept, Recs
  <2>4. QuietInv'
    <3>1. about' \in Recs /\ about' > count /\ UNCHANGED capturing
      BY <1>1 DEF Acquire, Recs
    <3>2. ~Spoken(about') /\ about' \notin capturing
      BY <3>1
    <3>3. \A r : Published(r) => Spoken(r)
      BY AboutMentions DEF Published, Spoken
    <3>4. \A r \in Recs : Published(r)' => Published(r)
      BY <2>1 DEF QueuesKept
    <3> QED
      BY <3>1, <3>2, <3>3, <3>4
  <2>5. StoreInv'
    BY <1>1, <2>1 DEF Acquire, QueuesKept, Recs
  <2> QED
    BY <2>2, <2>3, <2>4, <2>5
<1>2. CASE CaptureStarts
  <2>1. QueuesKept
    BY <1>2, KeptQueues DEF CaptureStarts
  <2> QED
    BY <1>2, <2>1 DEF CaptureStarts, Goto, QueuesKept, Recs
<1>3. CASE CaptureFails
  <2>1. QueuesKept
    BY <1>3, KeptQueues DEF CaptureFails
  <2> QED
    BY <1>3, <2>1 DEF CaptureFails, Goto, QueuesKept, Recs
<1>4. CASE Confirm
  <2>1. QueuesKept
    BY <1>4, KeptQueues DEF Confirm
  <2> QED
    BY <1>4, <2>1 DEF Confirm, Goto, QueuesKept, Recs
<1>5. CASE TellStarted
  <2>1. about \in Recs
    BY <1>5 DEF TellStarted, Recs
  <2>2. SaysOnly(about)
    <3>1. CASE Publish("recording", about)
      BY <1>5, <2>1, <3>1, PublishSays DEF TellStarted, SaysOnly, Kinds
    <3>2. CASE channel' = Append(channel, Event("recording", about))
      BY <1>5, <2>1, <3>2, AppendSays DEF TellStarted, SaysOnly, Kinds
    <3> QED
      BY <1>5, <3>1, <3>2 DEF TellStarted
  <2>3. BegunInv'
    BY <1>5, <2>1, <2>2 DEF TellStarted, Goto, SaysOnly, Recs
  <2>4. StageInv'
    BY <1>5, <2>1, <2>2 DEF TellStarted, Goto, SaysOnly, Recs
  <2>5. QuietInv'
    BY <1>5, <2>1, <2>2 DEF TellStarted, Goto, SaysOnly, Recs
  <2>6. StoreInv'
    BY <1>5, <2>1, <2>2 DEF TellStarted, Goto, SaysOnly, Recs
  <2> QED
    BY <2>3, <2>4, <2>5, <2>6
<1>6. CASE StartAnswered
  <2>1. QueuesKept
    BY <1>6, KeptQueues DEF StartAnswered, Answered
  <2> QED
    BY <1>6, <2>1 DEF StartAnswered, Answered, SetRecording, Goto, QueuesKept, Recs
<1>7. CASE RequestStop
  <2>1. QueuesKept
    BY <1>7, KeptQueues DEF RequestStop
  <2>2. BegunInv'
    <3>1. badgeOf[Host] # 0 /\ badgeOf[Host] <= count /\ about' = badgeOf[Host]
      BY <1>7 DEF RequestStop
    <3>2. about' \in 1..count'
      BY <1>7, <3>1 DEF RequestStop
    <3>3. \A r \in Recs : r > count' => Told(r)' /\ ~Spoken(r)'
      BY <1>7, <2>1 DEF RequestStop, QueuesKept
    <3> QED
      BY <1>7, <3>2, <3>3 DEF RequestStop
  <2>3. StageInv'
    BY <1>7, <2>1 DEF RequestStop, QueuesKept, Recs
  <2>4. QuietInv'
    BY <1>7, <2>1 DEF RequestStop, QueuesKept, Recs
  <2>5. StoreInv'
    BY <1>7, <2>1 DEF RequestStop, QueuesKept, Recs
  <2> QED
    BY <2>2, <2>3, <2>4, <2>5
<1>8. CASE SfuStopped
  <2>1. QueuesKept
    BY <1>8, KeptQueues DEF SfuStopped
  <2> QED
    BY <1>8, <2>1 DEF SfuStopped, SfuStop, Goto, QueuesKept, Recs
<1>9. CASE StopAnswered
  <2>1. QueuesKept
    BY <1>9, KeptQueues DEF StopAnswered, Answered
  <2> QED
    BY <1>9, <2>1 DEF StopAnswered, Answered, SetRecording, Goto, QueuesKept, Recs
<1>10. ASSUME NEW r \in Recs, AutoStop(r)
       PROVE  (BegunInv /\ StageInv /\ QuietInv /\ StoreInv)'
  <2>1. QueuesKept
    BY <1>10, KeptQueues DEF AutoStop
  <2>2. BegunInv'
    BY <1>10, <2>1 DEF AutoStop, SfuStop, QueuesKept, Recs
  <2>3. StageInv'
    BY <1>10, <2>1 DEF AutoStop, SfuStop, QueuesKept, Recs
  <2>4. QuietInv'
    BY <1>10, <2>1 DEF AutoStop, SfuStop, QueuesKept, Recs
  <2>5. StoreInv'
    BY <1>10, <2>1 DEF AutoStop, SfuStop, QueuesKept, Recs
  <2> QED
    BY <2>2, <2>3, <2>4, <2>5
<1>11. ASSUME NEW r \in Recs, Claim(r)
       PROVE  (BegunInv /\ StageInv /\ QuietInv /\ StoreInv)'
  <2>1. QueuesKept
    BY <1>11, KeptQueues DEF Claim
  <2> QED
    BY <1>11, <2>1 DEF Claim, QueuesKept, Recs
<1>12. ASSUME NEW r \in Recs, ReleaseLock(r)
       PROVE  (BegunInv /\ StageInv /\ QuietInv /\ StoreInv)'
  <2>1. QueuesKept
    BY <1>12, KeptQueues DEF ReleaseLock
  <2>2. BegunInv'
    BY <1>12, <2>1 DEF ReleaseLock, QueuesKept, Recs
  <2>3. StageInv'
    BY <1>12, <2>1 DEF ReleaseLock, QueuesKept, Recs
  <2>4. QuietInv'
    BY <1>12, <2>1 DEF ReleaseLock, QueuesKept, Recs
  <2>5. StoreInv'
    BY <1>12, <2>1 DEF ReleaseLock, QueuesKept, Recs
  <2> QED
    BY <2>2, <2>3, <2>4, <2>5
<1>13. ASSUME NEW r \in Recs, TellStopped(r)
       PROVE  (BegunInv /\ StageInv /\ QuietInv /\ StoreInv)'
  <2>1. SaysOnly(r)
    BY <1>13, PublishSays DEF TellStopped, SaysOnly, Kinds
  <2>2. BegunInv'
    BY <1>13, <2>1 DEF TellStopped, SaysOnly, Recs
  <2>3. StageInv'
    BY <1>13, <2>1 DEF TellStopped, SaysOnly, Recs
  <2>4. QuietInv'
    BY <1>13, <2>1 DEF TellStopped, SaysOnly, Recs
  <2>5. StoreInv'
    BY <1>13, <2>1 DEF TellStopped, SaysOnly, Recs
  <2> QED
    BY <2>2, <2>3, <2>4, <2>5
<1>14. ASSUME NEW r \in Recs, TellEmpty(r)
       PROVE  (BegunInv /\ StageInv /\ QuietInv /\ StoreInv)'
  <2>1. SaysOnly(r)
    BY <1>14, PublishSays DEF TellEmpty, SaysOnly, Kinds
  <2>2. BegunInv'
    BY <1>14, <2>1 DEF TellEmpty, SaysOnly, Recs
  <2>3. StageInv'
    BY <1>14, <2>1 DEF TellEmpty, SaysOnly, Recs
  <2>4. QuietInv'
    BY <1>14, <2>1 DEF TellEmpty, SaysOnly, Recs
  <2>5. StoreInv'
    BY <1>14, <2>1 DEF TellEmpty, SaysOnly, Recs
  <2> QED
    BY <2>2, <2>3, <2>4, <2>5
<1>15. ASSUME NEW r \in Recs, Enqueue(r)
       PROVE  (BegunInv /\ StageInv /\ QuietInv /\ StoreInv)'
  <2>1. QueuesKept
    BY <1>15, KeptQueues DEF Enqueue
  <2> QED
    BY <1>15, <2>1 DEF Enqueue, QueuesKept, Recs
<1>16. ASSUME NEW r \in Recs, Finalize(r)
       PROVE  (BegunInv /\ StageInv /\ QuietInv /\ StoreInv)'
  <2>1. QueuesKept
    BY <1>16, KeptQueues DEF Finalize
  <2>2. BegunInv'
    <3>1. /\ UNCHANGED <<lock, count, capturing, ended, callVars, held, storeVars>>
          /\ job[r] # "none" /\ \A x \in Recs \ {r} : job'[x] = job[x]
      BY <1>16 DEF Finalize
    <3> QED
      BY <2>1, <3>1 DEF QueuesKept, Recs
  <2>3. StageInv'
    BY <1>16, <2>1 DEF Finalize, QueuesKept, Recs
  <2>4. QuietInv'
    BY <1>16, <2>1 DEF Finalize, QueuesKept, Recs
  <2>5. StoreInv'
    BY <1>16, <2>1 DEF Finalize, QueuesKept, Recs
  <2> QED
    BY <2>2, <2>3, <2>4, <2>5
<1>17. ASSUME NEW r \in Recs, TellVerdict(r)
       PROVE  (BegunInv /\ StageInv /\ QuietInv /\ StoreInv)'
  <2>1. SaysOnly(r)
    BY <1>17, PublishSays DEF TellVerdict, SaysOnly, Kinds
  <2>2. BegunInv'
    BY <1>17, <2>1 DEF TellVerdict, SaysOnly, Recs
  <2>3. StageInv'
    BY <1>17, <2>1 DEF TellVerdict, SaysOnly, Recs
  <2>4. QuietInv'
    BY <1>17, <2>1 DEF TellVerdict, SaysOnly, Recs
  <2>5. StoreInv'
    BY <1>17, <2>1 DEF TellVerdict, SaysOnly, Recs
  <2> QED
    BY <2>2, <2>3, <2>4, <2>5
<1>18. CASE RoomEmpties
  <2>1. QueuesKept
    BY <1>18, KeptQueues DEF RoomEmpties
  <2> QED
    BY <1>18, <2>1 DEF RoomEmpties, SfuStop, QueuesKept, Recs
<1>19. ASSUME NEW b \in Browsers, Enter(b)
       PROVE  (BegunInv /\ StageInv /\ QuietInv /\ StoreInv)'
  <2>1. QueuesKept
    BY <1>19, KeptQueues DEF Enter
  <2> QED
    BY <1>19, <2>1 DEF Enter, QueuesKept, Recs
<1>20. ASSUME NEW b \in Browsers, ReadLock(b)
       PROVE  (BegunInv /\ StageInv /\ QuietInv /\ StoreInv)'
  <2>1. QueuesKept
    BY <1>20, KeptQueues DEF ReadLock
  <2>2. BegunInv'
    BY <1>20, <2>1 DEF ReadLock, QueuesKept, Recs
  <2>3. StageInv'
    BY <1>20, <2>1 DEF ReadLock, QueuesKept, Recs
  <2>4. QuietInv'
    BY <1>20, <2>1 DEF ReadLock, QueuesKept, Recs
  <2>5. StoreInv'
    BY <1>20, <2>1 DEF ReadLock, QueuesKept, Recs
  <2> QED
    BY <2>2, <2>3, <2>4, <2>5
<1>21. ASSUME NEW b \in Browsers, SendJoined(b)
       PROVE  (BegunInv /\ StageInv /\ QuietInv /\ StoreInv)'
  <2>1. \A x : Spoken(x)' => Spoken(x) \/ (x = held[b] /\ x # 0)
    BY <1>21, JoinedSays
  <2>2. \A x : Published(x)' => Published(x)
    BY <1>21, JoinedSays
  <2>3. BegunInv' /\ StageInv' /\ QuietInv'
    BY <1>21, <2>1, <2>2 DEF SendJoined, Recs
  <2>4. StoreInv'
    BY <1>21 DEF SendJoined, QueuesTyped
  <2> QED
    BY <2>3, <2>4
<1>22. ASSUME NEW b \in Browsers, Drop(b)
       PROVE  (BegunInv /\ StageInv /\ QuietInv /\ StoreInv)'
  <2>1. QueuesKept
    BY <1>22, DropSays DEF QueuesKept
  <2>2. BegunInv' /\ StageInv' /\ QuietInv'
    BY <1>22, <2>1 DEF Drop, QueuesKept, Recs
  <2>3. StoreInv'
    BY <1>22 DEF Drop, QueuesTyped
  <2> QED
    BY <2>2, <2>3
<1>23. ASSUME NEW b \in Browsers, Hear(b)
       PROVE  (BegunInv /\ StageInv /\ QuietInv /\ StoreInv)'
  <2> DEFINE e == Head(inbox[b])
  <2>1. QueuesKept
    BY <1>23, HearSays DEF QueuesKept
  <2>2. inbox[b] \in Seq(Messages) /\ inbox[b] # <<>>
    BY <1>23 DEF Hear, QueuesTyped
  <2>3. e \in Messages /\ e.r \in Recs /\ Mentions(inbox[b], e.r)
    BY <2>2, PoppedQueue, HeadMentions, EventsTyped
  <2>4. e.r \in 1..NumRecs /\ e.r <= count
    BY <2>3 DEF Spoken, Recs
  <2>5. /\ badgeOf' = [badgeOf EXCEPT ![b] = IF e.k = "failed" THEN 0 ELSE e.r]
        /\ badge' = [badge EXCEPT ![b] = IF e.k = "joined" THEN "recording" ELSE e.k]
        /\ inbox' = [inbox EXCEPT ![b] = Tail(@)]
        /\ UNCHANGED <<rowVars, workVars, callVars, room, held>>
    BY <1>23 DEF Hear, SetRecording
  <2> HIDE DEF e
  <2>6. BegunInv' /\ StageInv' /\ QuietInv'
    BY <2>1, <2>4, <2>5 DEF QueuesKept, Recs
  <2>7. StoreInv'
    BY <2>2, <2>4, <2>5 DEF QueuesTyped
  <2> QED
    BY <2>6, <2>7
<1>24. CASE Relay
  <2>1. QueuesKept
    BY <1>24, RelaySays DEF QueuesKept
  <2>2. BegunInv' /\ StageInv' /\ QuietInv'
    <3>1. UNCHANGED <<rowVars, workVars, callVars, held, storeVars>>
      BY <1>24 DEF Relay
    <3>2. BegunInv'
      BY <2>1, <3>1 DEF QueuesKept, Recs
    <3>3. StageInv' /\ QuietInv'
      BY <2>1, <3>1 DEF QueuesKept, Recs
    <3> QED
      BY <3>2, <3>3
  <2>3. StoreInv'
    BY <1>24 DEF Relay, QueuesTyped
  <2> QED
    BY <2>2, <2>3
<1>25. CASE UNCHANGED vars
  <2>1. QueuesKept
    BY <1>25, KeptQueues DEF vars
  <2> QED
    BY <1>25, <2>1 DEF vars, QueuesKept, Recs
<1> QED
  BY <1>1, <1>2, <1>3, <1>4, <1>5, <1>6, <1>7, <1>8, <1>9, <1>10, <1>11, <1>12, <1>13,
     <1>14, <1>15, <1>16, <1>17, <1>18, <1>19, <1>20, <1>21, <1>22, <1>23, <1>24, <1>25
     DEF Next, HostStep, EndStep

-----------------------------------------------------------------------------
(* What a browser has still to hear *)

LEMMA LaterSaid ==
    ASSUME NEW s \in Seq(Messages), NEW t \in Seq(Messages), NEW e \in Messages
    PROVE  s \o Append(t, e) = Append(s \o t, e)
  OBVIOUS

LEMMA HandedOver ==
    ASSUME NEW s \in Seq(Messages), NEW t \in Seq(Messages), t # <<>>
    PROVE  Append(s, Head(t)) \o Tail(t) = s \o t
<1> DEFINE p == Append(s, Head(t)) \o Tail(t)
           q == s \o t
<1>1. /\ Tail(t) \in Seq(Messages) /\ Len(Tail(t)) = Len(t) - 1 /\ Len(t) \in Nat \ {0}
      /\ \A n \in 1..Len(t)-1 : Tail(t)[n] = t[n + 1]
      /\ Head(t) = t[1] /\ Head(t) \in Messages
  BY PoppedQueue
<1>2. /\ Append(s, Head(t)) \in Seq(Messages) /\ Len(Append(s, Head(t))) = Len(s) + 1
      /\ \A n \in 1..Len(s) : Append(s, Head(t))[n] = s[n]
      /\ Append(s, Head(t))[Len(s) + 1] = t[1] /\ Len(s) \in Nat
  BY <1>1, LongerQueue
<1>3. /\ p \in Seq(Messages) /\ Len(p) = Len(s) + Len(t)
      /\ \A n \in 1..Len(s)+1 : p[n] = Append(s, Head(t))[n]
      /\ \A n \in Len(s)+2..Len(s)+Len(t) : p[n] = Tail(t)[n - (Len(s) + 1)]
  BY <1>1, <1>2, JoinedQueue
<1>4. /\ q \in Seq(Messages) /\ Len(q) = Len(s) + Len(t)
      /\ \A n \in 1..Len(s) : q[n] = s[n]
      /\ \A n \in Len(s)+1..Len(s)+Len(t) : q[n] = t[n - Len(s)]
  BY JoinedQueue
<1> HIDE DEF p, q
<1>5. ASSUME NEW n \in 1..Len(p) PROVE p[n] = q[n]
  <2>1. CASE n <= Len(s)
    <3>1. n \in 1..Len(s) /\ n \in 1..Len(s)+1
      BY <1>2, <2>1
    <3> QED
      BY <1>2, <1>3, <1>4, <3>1
  <2>2. CASE n = Len(s) + 1
    <3>1. p[n] = t[1] /\ n - Len(s) = 1 /\ n \in Len(s)+1..Len(s)+Len(t)
      BY <1>1, <1>2, <1>3, <2>2
    <3> QED
      BY <1>4, <3>1
  <2>3. CASE n > Len(s) + 1
    <3>1. /\ n \in Len(s)+2..Len(s)+Len(t) /\ n \in Len(s)+1..Len(s)+Len(t)
          /\ n - (Len(s) + 1) \in 1..Len(t)-1 /\ n - (Len(s) + 1) + 1 = n - Len(s)
      BY <1>1, <1>2, <1>3, <2>3
    <3>2. p[n] = t[n - Len(s)]
      BY <1>1, <1>3, <3>1
    <3> QED
      BY <1>4, <3>1, <3>2
  <2>4. n \in Int /\ Len(s) \in Int
    BY <1>2
  <2>5. n <= Len(s) \/ n = Len(s) + 1 \/ n > Len(s) + 1
    BY <2>4
  <2> QED
    BY <2>1, <2>2, <2>3, <2>5
<1>6. p = q
  BY <1>3, <1>4, <1>5, SeqEqual
<1> QED
  BY <1>6 DEF p, q

LEMMA HeardFirst ==
    ASSUME NEW s \in Seq(Messages), NEW t \in Seq(Messages), s # <<>>
    PROVE  s \o t # <<>> /\ Head(s \o t) = Head(s) /\ Tail(s \o t) = Tail(s) \o t
<1> DEFINE p == Tail(s) \o t
           q == s \o t
<1>1. /\ Tail(s) \in Seq(Messages) /\ Len(Tail(s)) = Len(s) - 1 /\ Len(s) \in Nat \ {0}
      /\ \A n \in 1..Len(s)-1 : Tail(s)[n] = s[n + 1]
      /\ Head(s) = s[1]
  BY PoppedQueue
<1>2. /\ q \in Seq(Messages) /\ Len(q) = Len(s) + Len(t) /\ Len(t) \in Nat
      /\ \A n \in 1..Len(s) : q[n] = s[n]
      /\ \A n \in Len(s)+1..Len(s)+Len(t) : q[n] = t[n - Len(s)]
  BY JoinedQueue
<1>3. /\ p \in Seq(Messages) /\ Len(p) = Len(s) - 1 + Len(t)
      /\ \A n \in 1..Len(s)-1 : p[n] = Tail(s)[n]
      /\ \A n \in Len(s)-1+1..Len(s)-1+Len(t) : p[n] = t[n - (Len(s) - 1)]
  BY <1>1, JoinedQueue
<1> HIDE DEF p, q
<1>4. q # <<>>
  BY <1>1, <1>2
<1>5. /\ Tail(q) \in Seq(Messages) /\ Len(Tail(q)) = Len(q) - 1
      /\ \A n \in 1..Len(q)-1 : Tail(q)[n] = q[n + 1]
      /\ Head(q) = q[1]
  BY <1>2, <1>4, PoppedQueue
<1>6. ASSUME NEW n \in 1..Len(p) PROVE Tail(q)[n] = p[n]
  <2>1. Tail(q)[n] = q[n + 1]
    BY <1>1, <1>2, <1>3, <1>5
  <2>2. CASE n <= Len(s) - 1
    <3>1. n \in 1..Len(s)-1 /\ n + 1 \in 1..Len(s)
      BY <1>1, <2>2
    <3> QED
      BY <1>1, <1>2, <1>3, <2>1, <3>1
  <2>3. CASE n > Len(s) - 1
    <3>1. /\ n \in Len(s)-1+1..Len(s)-1+Len(t) /\ n + 1 \in Len(s)+1..Len(s)+Len(t)
          /\ n - (Len(s) - 1) = (n + 1) - Len(s)
      BY <1>1, <1>2, <1>3, <2>3
    <3> QED
      BY <1>2, <1>3, <2>1, <3>1
  <2>4. n \in Int /\ Len(s) \in Int
    BY <1>1
  <2>5. n <= Len(s) - 1 \/ n > Len(s) - 1
    BY <2>4
  <2> QED
    BY <2>2, <2>3, <2>5
<1>7. Len(Tail(q)) = Len(p)
  BY <1>1, <1>2, <1>3, <1>5
<1>8. Tail(q) = p
  BY <1>3, <1>5, <1>6, <1>7, SeqEqual
<1>9. Head(q) = Head(s)
  BY <1>1, <1>2, <1>5
<1> QED
  BY <1>4, <1>8, <1>9 DEF p, q

LEMMA NothingFirst == ASSUME NEW t \in Seq(Messages) PROVE <<>> \o t = t
  BY ConcatEmptySeq

LEMMA FutureTyped ==
    ASSUME QueuesTyped, NEW b \in Browsers
    PROVE  inbox[b] \in Seq(Messages) /\ channel \in Seq(Messages)
           /\ Future(b) \in Seq(Messages)
           /\ \A r : Mentions(Future(b), r) <=> Mentions(inbox[b], r) \/ Mentions(channel, r)
<1>1. inbox[b] \in Seq(Messages) /\ channel \in Seq(Messages)
  BY ChannelTyped DEF QueuesTyped
<1>2. Future(b) \in Seq(Messages)
  BY <1>1, JoinedQueue DEF Future
<1>3. \A r : Mentions(Future(b), r) <=> Mentions(inbox[b], r) \/ Mentions(channel, r)
  BY <1>1, JoinedMentions DEF Future
<1> QED
  BY <1>1, <1>2, <1>3

LEMMA Unspoken ==
    ASSUME QueuesTyped, NEW b \in Browsers, NEW r, ~Spoken(r)
    PROVE  ~Mentions(Future(b), r)
  BY FutureTyped DEF Spoken

-----------------------------------------------------------------------------
(* Every browser that follows *)

PanelInv == BaseInv /\ FollowInv

\* The stores and what they wait for stay, and no recording is over or begins.
LEMMA Steady ==
    ASSUME FollowInv, UNCHANGED <<channel, inbox, storeVars>>, astray \subseteq astray',
           \A r \in Recs : Told(r)' <=> Told(r)
    PROVE  FollowInv'
<1>1. Over' = Over
  BY DEF Over
<1>2. \A b \in Browsers : Future(b)' = Future(b)
  BY DEF Future
<1> QED
  BY <1>1, <1>2 DEF FollowInv

LEMMA FollowAcquire == PanelInv /\ Acquire => FollowInv'
<1> SUFFICES ASSUME PanelInv, Acquire, NEW b \in Browsers \ astray
             PROVE  Shows(Future(b), Over, badge[b], badgeOf[b])'
  BY DEF Acquire, FollowInv
<1> ControlTyped /\ QueuesTyped /\ BegunInv
  BY TypeSplit DEF PanelInv, BaseInv
<1> DEFINE n == count + 1
<1>1. n \in Recs /\ n > count /\ count \in Nat
  BY BoundsAssumption DEF Acquire, ControlTyped, Recs
<1>2. ~Mentions(Future(b), n)
  BY <1>1, Unspoken DEF BegunInv
<1>3. \A x : x # n => (x \in Over' <=> x \in Over)
  <2>1. \A x \in Recs \ {n} : Told(x)' <=> Told(x)
    BY DEF Acquire, Told
  <2> QED
    BY <2>1 DEF Over
<1>4. Shows(Future(b), Over, badge[b], badgeOf[b])
  BY DEF PanelInv, FollowInv
<1>5. Closed(Future(b), Over')
  BY <1>2, <1>3, <1>4, UnsaidClosed DEF Shows
<1>6. badgeOf[b] # n
  BY <1>1 DEF BegunInv, ControlTyped
<1>7. Future(b)' = Future(b) /\ badge' = badge /\ badgeOf' = badgeOf
  BY DEF Acquire, Future
<1> QED
  BY <1>3, <1>4, <1>5, <1>6, <1>7 DEF Shows

\* No browser that follows was told of the recording that failed to start.
LEMMA FollowCaptureFails == PanelInv /\ CaptureFails => FollowInv'
<1> SUFFICES ASSUME PanelInv, CaptureFails, NEW b \in Browsers \ astray'
             PROVE  Shows(Future(b), Over, badge[b], badgeOf[b])'
  BY DEF FollowInv
<1> ControlTyped /\ QueuesTyped /\ BegunInv /\ QuietInv
  BY TypeSplit DEF PanelInv, BaseInv
<1>1. b \in Browsers \ astray /\ badgeOf[b] # about
  BY DEF CaptureFails
<1>2. Joined(about) \notin {inbox[b][n] : n \in 1..Len(inbox[b])}
  BY DEF CaptureFails
<1>3. ~About(channel, about) /\ ~About(inbox[b], about)
  BY DEF CaptureFails, QuietInv, Published
<1>4. ~Mentions(Future(b), about)
  <2>1. ~Mentions(channel, about)
    BY <1>3, ChannelAbout
  <2>2. ASSUME NEW n \in 1..Len(inbox[b]), inbox[b][n].r = about PROVE FALSE
    <3>1. inbox[b][n].k = "joined"
      BY <1>3, <2>2 DEF About
    <3>2. inbox[b][n] \in Messages
      BY DEF QueuesTyped
    <3>3. inbox[b][n] = Joined(about)
      BY <2>2, <3>1, <3>2 DEF Messages, Joined
    <3> QED
      BY <1>2, <3>3
  <2>3. ~Mentions(inbox[b], about)
    BY <2>2 DEF Mentions
  <2> QED
    BY <2>1, <2>3, FutureTyped
<1>5. \A x : x # about => (x \in Over' <=> x \in Over)
  <2>1. \A x \in Recs \ {about} : Told(x)' <=> Told(x)
    BY DEF CaptureFails, Goto, Told
  <2> QED
    BY <2>1 DEF Over
<1>6. Shows(Future(b), Over, badge[b], badgeOf[b])
  BY <1>1 DEF PanelInv, FollowInv
<1>7. Closed(Future(b), Over')
  BY <1>4, <1>5, <1>6, UnsaidClosed DEF Shows
<1>8. Future(b)' = Future(b) /\ badge' = badge /\ badgeOf' = badgeOf
  BY DEF CaptureFails, Future
<1> QED
  BY <1>1, <1>5, <1>6, <1>7, <1>8 DEF Shows

\* An answer is of a recording that is not over, or has still its verdict to come.
LEMMA FollowAnswered ==
    ASSUME PanelInv, NEW k, k # "ready", Answered(k), call \in {"started", "stopping", "stopped"}
    PROVE  FollowInv'
<1> SUFFICES ASSUME NEW b \in Browsers \ astray'
             PROVE  Shows(Future(b), Over, badge[b], badgeOf[b])'
  BY DEF FollowInv
<1> ControlTyped /\ QueuesTyped /\ BegunInv
  BY TypeSplit DEF PanelInv, BaseInv
<1>1. Over' = Over
  <2>1. \A x \in Recs : Told(x)' <=> Told(x)
    BY DEF Answered, Goto, Told
  <2> QED
    BY <2>1 DEF Over
<1>2. Future(b)' = Future(b)
  BY DEF Answered, Future
<1>3. b \in Browsers \ astray
  BY DEF Answered
<1>4. Shows(Future(b), Over, badge[b], badgeOf[b])
  BY <1>3 DEF PanelInv, FollowInv
<1>5. CASE b # Host
  <2>1. badge'[b] = badge[b] /\ badgeOf'[b] = badgeOf[b]
    BY <1>5 DEF Answered, SetRecording, ControlTyped
  <2> QED
    BY <1>1, <1>2, <1>4, <2>1 DEF Shows
<1>6. CASE b = Host
  <2>1. badge'[b] = k /\ badgeOf'[b] = about
    BY <1>6 DEF Answered, SetRecording, ControlTyped
  <2>2. ~Last(Host, about)
    BY <1>6 DEF Answered
  <2>3. ~(about \in Over /\ ~Mentions(Future(b), about))
    BY <1>6, <2>2, FutureTyped, AboutMentions DEF Last, Over
  <2> QED
    BY <1>1, <1>2, <1>4, <2>1, <2>3 DEF Shows
<1> QED
  BY <1>5, <1>6

\* An event of a recording that is not over.
LEMMA FollowPublish ==
    ASSUME PanelInv, NEW k \in Kinds \ Verdicts, NEW r \in Recs, Publish(k, r), ~Told(r),
           UNCHANGED <<inbox, storeVars>>, \A x \in Recs : Told(x)' <=> Told(x)
    PROVE  FollowInv'
<1> SUFFICES ASSUME NEW b \in Browsers \ astray'
             PROVE  Shows(Future(b), Over, badge[b], badgeOf[b])'
  BY DEF FollowInv
<1> ControlTyped /\ QueuesTyped
  BY TypeSplit DEF PanelInv, BaseInv
<1> DEFINE e == Event(k, r)
<1>1. channel' = Append(channel, e) /\ astray' = astray
  BY DEF Publish
<1>2. e \in Messages /\ e.k = k /\ e.r = r
  BY EventsTyped
<1>3. Over' = Over
  BY DEF Over
<1>4. Shows(Future(b), Over, badge[b], badgeOf[b])
  BY <1>1 DEF PanelInv, FollowInv
<1>5. inbox[b] \in Seq(Messages) /\ channel \in Seq(Messages) /\ Future(b) \in Seq(Messages)
  BY FutureTyped
<1>6. Future(b)' = Append(Future(b), e)
  BY <1>1, <1>2, <1>5, LaterSaid DEF Future
<1> HIDE DEF e
<1>7. e.r \notin Over /\ e.k \notin Verdicts
  BY <1>2 DEF Over
<1>8. Closed(Append(Future(b), e), Over)
  BY <1>2, <1>4, <1>5, <1>7, OpenLonger DEF Shows
<1>9. \A x : Mentions(Append(Future(b), e), x) <=> Mentions(Future(b), x) \/ e.r = x
  BY <1>2, <1>5, LongerMentions
<1> QED
  BY <1>3, <1>4, <1>6, <1>7, <1>8, <1>9 DEF Shows

\* The verdict of a recording that is over with it.
LEMMA FollowVerdict ==
    ASSUME PanelInv, NEW k \in Verdicts, NEW r \in Recs, Publish(k, r), ~Told(r),
           UNCHANGED <<inbox, storeVars>>, Told(r)', \A x \in Recs \ {r} : Told(x)' <=> Told(x)
    PROVE  FollowInv'
<1> SUFFICES ASSUME NEW b \in Browsers \ astray'
             PROVE  Shows(Future(b), Over, badge[b], badgeOf[b])'
  BY DEF FollowInv
<1> ControlTyped /\ QueuesTyped
  BY TypeSplit DEF PanelInv, BaseInv
<1> DEFINE e == Event(k, r)
<1>1. channel' = Append(channel, e) /\ astray' = astray
  BY DEF Publish
<1>2. e \in Messages /\ e.k = k /\ e.r = r
  BY EventsTyped DEF Verdicts, Kinds
<1>3. Over' = Over \cup {r}
  BY DEF Over
<1>4. Shows(Future(b), Over, badge[b], badgeOf[b])
  BY <1>1 DEF PanelInv, FollowInv
<1>5. inbox[b] \in Seq(Messages) /\ channel \in Seq(Messages) /\ Future(b) \in Seq(Messages)
  BY FutureTyped
<1>6. Future(b)' = Append(Future(b), e)
  BY <1>1, <1>2, <1>5, LaterSaid DEF Future
<1> HIDE DEF e
<1>7. e.r \notin Over /\ e.k \in Verdicts
  BY <1>2 DEF Over
<1>8. Closed(Append(Future(b), e), Over \cup {e.r})
  BY <1>2, <1>4, <1>5, <1>7, VerdictLonger DEF Shows
<1>9. \A x : Mentions(Append(Future(b), e), x) <=> Mentions(Future(b), x) \/ e.r = x
  BY <1>2, <1>5, LongerMentions
<1> QED
  BY <1>2, <1>3, <1>4, <1>6, <1>7, <1>8, <1>9 DEF Shows

LEMMA FollowJoined == ASSUME PanelInv, NEW c \in Browsers, SendJoined(c) PROVE FollowInv'
<1> SUFFICES ASSUME NEW b \in Browsers \ astray'
             PROVE  Shows(Future(b), Over, badge[b], badgeOf[b])'
  BY DEF FollowInv
<1> ControlTyped /\ QueuesTyped
  BY TypeSplit DEF PanelInv, BaseInv
<1>1. Over' = Over
  <2>1. \A x \in Recs : Told(x)' <=> Told(x)
    BY DEF SendJoined, Told
  <2> QED
    BY <2>1 DEF Over
<1>2. b \in Browsers \ astray
  BY DEF SendJoined
<1>3. Shows(Future(b), Over, badge[b], badgeOf[b])
  BY <1>2 DEF PanelInv, FollowInv
<1>4. badge' = badge /\ badgeOf' = badgeOf /\ channel' = channel
  BY DEF SendJoined
<1>5. CASE b # c \/ held[c] = 0
  <2>1. Future(b)' = Future(b)
    BY <1>4, <1>5 DEF SendJoined, Future, QueuesTyped
  <2> QED
    BY <1>1, <1>3, <1>4, <2>1 DEF Shows
<1>6. CASE b = c /\ held[c] # 0
  <2> DEFINE j == Joined(held[c])
  <2>1. j \in Messages /\ j.k = "joined" /\ j.r = held[c] /\ held[c] \in Recs
    BY <1>6, EventsTyped, RecsRange DEF ControlTyped
  <2>2. inbox'[b] = Append(inbox[b], j)
    BY <1>6 DEF SendJoined, QueuesTyped
  <2>3. inbox[b] \in Seq(Messages) /\ channel \in Seq(Messages)
        /\ \A r : Mentions(Future(b), r) <=> Mentions(inbox[b], r) \/ Mentions(channel, r)
    BY FutureTyped
  <2>4. Told(held[c]) => About(channel, held[c])
    BY <1>6 DEF SendJoined
  <2> HIDE DEF j
  <2>5. j.r \in Over => Mentions(channel, j.r)
    BY <2>1, <2>4, AboutMentions DEF Over
  <2>6. j.k \notin Verdicts
    BY <2>1 DEF Verdicts
  <2>7. Closed(inbox[b] \o channel, Over)
    BY <1>3 DEF Shows, Future
  <2>8. Closed(Append(inbox[b], j) \o channel, Over)
    BY <2>1, <2>3, <2>5, <2>6, <2>7, JoinedClosed
  <2>9. Future(b)' = Append(inbox[b], j) \o channel
    BY <1>4, <2>2 DEF Future
  <2>10. Append(inbox[b], j) \in Seq(Messages)
         /\ \A x : Mentions(Append(inbox[b], j), x) <=> Mentions(inbox[b], x) \/ j.r = x
    BY <2>1, <2>3, LongerQueue, LongerMentions
  <2>11. \A x : Mentions(Future(b)', x) <=> Mentions(Future(b), x) \/ j.r = x
    <3>1. \A x : Mentions(Append(inbox[b], j) \o channel, x)
                    <=> Mentions(Append(inbox[b], j), x) \/ Mentions(channel, x)
      BY <2>3, <2>10, JoinedMentions
    <3> QED
      BY <2>3, <2>9, <2>10, <3>1
  <2>12. Closed(Future(b)', Over)
    BY <2>8, <2>9
  <2>13. badgeOf[b] \in Over =>
            (Mentions(Future(b)', badgeOf[b]) <=> Mentions(Future(b), badgeOf[b]))
    BY <2>3, <2>5, <2>11
  <2> QED
    BY <1>1, <1>3, <1>4, <2>12, <2>13 DEF Shows
<1> QED
  BY <1>5, <1>6

LEMMA FollowDrop == ASSUME PanelInv, NEW c \in Browsers, Drop(c) PROVE FollowInv'
<1> SUFFICES ASSUME NEW b \in Browsers \ astray'
             PROVE  Shows(Future(b), Over, badge[b], badgeOf[b])'
  BY DEF FollowInv
<1> ControlTyped /\ QueuesTyped
  BY TypeSplit DEF PanelInv, BaseInv
<1>1. Over' = Over
  <2>1. \A x \in Recs : Told(x)' <=> Told(x)
    BY DEF Drop, Told
  <2> QED
    BY <2>1 DEF Over
<1>2. b \in Browsers \ astray
  BY DEF Drop
<1>3. Shows(Future(b), Over, badge[b], badgeOf[b])
  BY <1>2 DEF PanelInv, FollowInv
<1>4. badge' = badge /\ badgeOf' = badgeOf /\ channel' = channel
  BY DEF Drop
<1>5. CASE b # c
  <2>1. Future(b)' = Future(b)
    BY <1>4, <1>5 DEF Drop, Future, QueuesTyped
  <2> QED
    BY <1>1, <1>3, <1>4, <2>1 DEF Shows
<1>6. CASE b = c
  <2>1. inbox[b] \in Seq(Messages) /\ channel \in Seq(Messages)
        /\ \A r : Mentions(Future(b), r) <=> Mentions(inbox[b], r) \/ Mentions(channel, r)
    BY FutureTyped
  <2>2. inbox'[b] = <<>>
    BY <1>6 DEF Drop, QueuesTyped
  <2>3. Future(b)' = channel
    BY <1>4, <2>1, <2>2, NothingFirst DEF Future
  <2>4. Closed(inbox[b] \o channel, Over)
    BY <1>3 DEF Shows, Future
  <2>5. Closed(channel, Over)
    BY <2>1, <2>4, LaterClosed
  <2>6. \A r \in Recs : ~About(inbox[b], r)
    BY <1>6 DEF Drop
  <2>7. \A n \in 1..Len(inbox[b]) : inbox[b][n].k \notin Verdicts
    <3>1. \A n \in 1..Len(inbox[b]) : inbox[b][n].r \in Recs
      BY <2>1, EventsTyped
    <3>2. \A n \in 1..Len(inbox[b]) : inbox[b][n].k = "joined"
      BY <2>6, <3>1 DEF About
    <3> QED
      BY <3>2 DEF Verdicts
  <2>8. \A r \in Over : Mentions(inbox[b], r) => Mentions(channel, r)
    BY <2>1, <2>4, <2>7, VerdictLater
  <2> QED
    BY <1>1, <1>3, <1>4, <2>1, <2>3, <2>5, <2>8 DEF Shows
<1> QED
  BY <1>5, <1>6

LEMMA FollowHear == ASSUME PanelInv, NEW c \in Browsers, Hear(c) PROVE FollowInv'
<1> SUFFICES ASSUME NEW b \in Browsers \ astray'
             PROVE  Shows(Future(b), Over, badge[b], badgeOf[b])'
  BY DEF FollowInv
<1> ControlTyped /\ QueuesTyped
  BY TypeSplit DEF PanelInv, BaseInv
<1>1. Over' = Over
  <2>1. \A x \in Recs : Told(x)' <=> Told(x)
    BY DEF Hear, Told
  <2> QED
    BY <2>1 DEF Over
<1>2. b \in Browsers \ astray
  BY DEF Hear
<1>3. Shows(Future(b), Over, badge[b], badgeOf[b])
  BY <1>2 DEF PanelInv, FollowInv
<1>4. CASE b # c
  <2>1. Future(b)' = Future(b)
    BY <1>4 DEF Hear, Future, QueuesTyped
  <2>2. badge'[b] = badge[b] /\ badgeOf'[b] = badgeOf[b]
    BY <1>4 DEF Hear, SetRecording, ControlTyped
  <2> QED
    BY <1>1, <1>3, <2>1, <2>2 DEF Shows
<1>5. CASE b = c
  <2> DEFINE e == Head(inbox[b])
             q == Future(b)
  <2>1. inbox[b] \in Seq(Messages) /\ channel \in Seq(Messages) /\ q \in Seq(Messages)
        /\ inbox[b] # <<>>
    BY <1>5, FutureTyped DEF Hear
  <2>2. q # <<>> /\ Head(q) = e /\ Tail(q) = Tail(inbox[b]) \o channel
    BY <2>1, HeardFirst DEF Future
  <2>3. inbox'[b] = Tail(inbox[b]) /\ channel' = channel
    BY <1>5 DEF Hear, QueuesTyped
  <2>4. Future(b)' = Tail(q)
    BY <2>2, <2>3 DEF Future
  <2>5. /\ badge'[b] = IF e.k = "joined" THEN "recording" ELSE e.k
        /\ badgeOf'[b] = IF e.k = "failed" THEN 0 ELSE e.r
    BY <1>5 DEF Hear, SetRecording, ControlTyped
  <2> HIDE DEF q, e
  <2>6. Closed(q, Over)
    BY <1>3 DEF Shows, q
  <2>7. Closed(Tail(q), Over)
    BY <2>1, <2>2, <2>6, PoppedClosed
  <2>8. e.k \in Verdicts <=> e.r \in Over /\ ~Mentions(Tail(q), e.r)
    BY <2>1, <2>2, <2>6, HeadClosed
  <2> QED
    BY <1>1, <2>4, <2>5, <2>7, <2>8 DEF Shows, Verdicts
<1> QED
  BY <1>4, <1>5

LEMMA FollowRelay == PanelInv /\ Relay => FollowInv'
<1> SUFFICES ASSUME PanelInv, Relay, NEW b \in Browsers \ astray'
             PROVE  Shows(Future(b), Over, badge[b], badgeOf[b])'
  BY DEF FollowInv
<1> ControlTyped /\ QueuesTyped /\ StoreInv
  BY TypeSplit DEF PanelInv, BaseInv
<1>1. Over' = Over
  <2>1. \A x \in Recs : Told(x)' <=> Told(x)
    BY DEF Relay, Told
  <2> QED
    BY <2>1 DEF Over
<1>2. b \in Browsers \ astray
  BY DEF Relay
<1>3. Shows(Future(b), Over, badge[b], badgeOf[b])
  BY <1>2 DEF PanelInv, FollowInv
<1>4. badge' = badge /\ badgeOf' = badgeOf /\ channel' = Tail(channel) /\ channel # <<>>
  BY DEF Relay
<1>5. inbox[b] \in Seq(Messages) /\ channel \in Seq(Messages)
  BY FutureTyped
<1>6. CASE room[b] # "out"
  <2>1. inbox'[b] = Append(inbox[b], Head(channel))
    BY <1>6 DEF Relay
  <2>2. Future(b)' = Future(b)
    BY <1>4, <1>5, <2>1, HandedOver DEF Future
  <2> QED
    BY <1>1, <1>3, <1>4, <2>2 DEF Shows
<1>7. CASE room[b] = "out"
  <2>1. inbox[b] = <<>> /\ inbox'[b] = <<>>
    BY <1>7 DEF Relay, StoreInv
  <2>2. badgeOf[b] # Head(channel).r
    BY <1>7 DEF Relay
  <2>3. Tail(channel) \in Seq(Messages) /\ Head(channel) = channel[1]
        /\ Len(channel) \in Nat \ {0} /\ Len(Tail(channel)) = Len(channel) - 1
        /\ \A n \in 1..Len(channel)-1 : Tail(channel)[n] = channel[n + 1]
    BY <1>4, <1>5, PoppedQueue
  <2>4. Future(b) = channel /\ Future(b)' = Tail(channel)
    BY <1>4, <1>5, <2>1, <2>3, NothingFirst DEF Future
  <2>5. Closed(Tail(channel), Over)
    BY <1>3, <1>4, <1>5, <2>4, PoppedClosed DEF Shows
  <2>6. Mentions(channel, badgeOf[b]) => Mentions(Tail(channel), badgeOf[b])
    <3>1. SUFFICES ASSUME NEW n \in 1..Len(channel), channel[n].r = badgeOf[b]
                   PROVE  Mentions(Tail(channel), badgeOf[b])
      BY DEF Mentions
    <3>2. n # 1
      BY <2>2, <2>3, <3>1
    <3>3. n - 1 \in 1..Len(Tail(channel)) /\ Tail(channel)[n - 1] = channel[n]
      BY <2>3, <3>2
    <3> QED
      BY <3>1, <3>3 DEF Mentions
  <2>7. Mentions(Tail(channel), badgeOf[b]) => Mentions(channel, badgeOf[b])
    BY <1>4, <1>5, PoppedMentions
  <2> QED
    BY <1>1, <1>3, <1>4, <2>4, <2>5, <2>6, <2>7 DEF Shows
<1> QED
  BY <1>6, <1>7

LEMMA PanelInit == Init => PanelInv
<1> SUFFICES ASSUME Init PROVE FollowInv
  BY BaseInit DEF PanelInv
<1>1. \A b \in Browsers : Future(b) = <<>> /\ badgeOf[b] = 0
  <2>1. <<>> \o <<>> = <<>>
    BY NothingFirst
  <2> QED
    BY <2>1 DEF Init, Future
<1>2. Closed(<<>>, Over)
  BY DEF Closed
<1> QED
  BY <1>1, <1>2 DEF FollowInv, Shows

LEMMA PanelNext == PanelInv /\ [Next]_vars => PanelInv'
<1> SUFFICES ASSUME PanelInv, [Next]_vars PROVE FollowInv'
  BY BaseNext DEF PanelInv
<1> BaseInv /\ FollowInv /\ ControlTyped /\ StageInv /\ BegunInv
  BY TypeSplit DEF PanelInv, BaseInv
<1>1. CASE Acquire
  BY <1>1, FollowAcquire
<1>2. CASE CaptureStarts
  BY <1>2, Steady DEF CaptureStarts, Goto, Told
<1>3. CASE CaptureFails
  BY <1>3, FollowCaptureFails
<1>4. CASE Confirm
  BY <1>4, Steady DEF Confirm, Goto, Told
<1>5. CASE TellStarted
  <2>1. CASE Told(about)
    <3>1. astray' = Browsers
      BY <1>5, <2>1 DEF TellStarted
    <3> QED
      BY <3>1 DEF FollowInv
  <2>2. CASE ~Told(about)
    <3>1. about \in Recs
      BY <1>5 DEF TellStarted, BegunInv, Recs, ControlTyped
    <3>2. Publish("recording", about)
      BY <1>5, <2>2 DEF TellStarted
    <3>3. \A x \in Recs : Told(x)' <=> Told(x)
      BY <1>5 DEF TellStarted, Goto, Told
    <3> QED
      BY <1>5, <2>2, <3>1, <3>2, <3>3, FollowPublish DEF TellStarted, Kinds, Verdicts
  <2> QED
    BY <2>1, <2>2
<1>6. CASE StartAnswered
  BY <1>6, FollowAnswered DEF StartAnswered
<1>7. CASE RequestStop
  BY <1>7, Steady DEF RequestStop, Told
<1>8. CASE SfuStopped
  BY <1>8, Steady DEF SfuStopped, SfuStop, Goto, Told
<1>9. CASE StopAnswered
  BY <1>9, FollowAnswered DEF StopAnswered
<1>10. ASSUME NEW r \in Recs, AutoStop(r) PROVE FollowInv'
  BY <1>10, Steady DEF AutoStop, SfuStop, Told
<1>11. ASSUME NEW r \in Recs, Claim(r) PROVE FollowInv'
  BY <1>11, Steady DEF Claim, Told, ControlTyped
<1>12. ASSUME NEW r \in Recs, ReleaseLock(r) PROVE FollowInv'
  BY <1>12, Steady DEF ReleaseLock, Told, ControlTyped
<1>13. ASSUME NEW r \in Recs, TellStopped(r) PROVE FollowInv'
  <2>1. \A x \in Recs : Told(x)' <=> Told(x)
    BY <1>13 DEF TellStopped, Told, ControlTyped
  <2>2. ~Told(r) /\ Publish("processing", r)
    BY <1>13 DEF TellStopped, Told
  <2> QED
    BY <1>13, <2>1, <2>2, FollowPublish DEF TellStopped, Kinds, Verdicts
<1>14. ASSUME NEW r \in Recs, TellEmpty(r) PROVE FollowInv'
  <2>1. ~Told(r) /\ Publish("failed", r)
    BY <1>14 DEF TellEmpty, Told
  <2>2. Told(r)'
    BY <1>14 DEF TellEmpty, Told, ControlTyped, StageInv
  <2>3. \A x \in Recs \ {r} : Told(x)' <=> Told(x)
    BY <1>14 DEF TellEmpty, Told, ControlTyped
  <2> QED
    BY <1>14, <2>1, <2>2, <2>3, FollowVerdict DEF TellEmpty, Verdicts
<1>15. ASSUME NEW r \in Recs, Enqueue(r) PROVE FollowInv'
  BY <1>15, Steady DEF Enqueue, Told, ControlTyped
<1>16. ASSUME NEW r \in Recs, Finalize(r) PROVE FollowInv'
  BY <1>16, Steady DEF Finalize, Told, ControlTyped
<1>17. ASSUME NEW r \in Recs, TellVerdict(r) PROVE FollowInv'
  <2>1. ~Told(r) /\ Publish(job[r], r) /\ job[r] \in Verdicts
    BY <1>17 DEF TellVerdict, Told, Verdicts
  <2>2. Told(r)'
    BY <1>17 DEF TellVerdict, Told, ControlTyped, StageInv
  <2>3. \A x \in Recs \ {r} : Told(x)' <=> Told(x)
    BY <1>17 DEF TellVerdict, Told, ControlTyped
  <2> QED
    BY <1>17, <2>1, <2>2, <2>3, FollowVerdict DEF TellVerdict
<1>18. CASE RoomEmpties
  BY <1>18, Steady DEF RoomEmpties, SfuStop, Told, ControlTyped
<1>19. ASSUME NEW b \in Browsers, Enter(b) PROVE FollowInv'
  BY <1>19, Steady DEF Enter, Told
<1>20. ASSUME NEW b \in Browsers, ReadLock(b) PROVE FollowInv'
  BY <1>20, Steady DEF ReadLock, Told
<1>21. ASSUME NEW b \in Browsers, SendJoined(b) PROVE FollowInv'
  BY <1>21, FollowJoined
<1>22. ASSUME NEW b \in Browsers, Drop(b) PROVE FollowInv'
  BY <1>22, FollowDrop
<1>23. ASSUME NEW b \in Browsers, Hear(b) PROVE FollowInv'
  BY <1>23, FollowHear
<1>24. CASE Relay
  BY <1>24, FollowRelay
<1>25. CASE UNCHANGED vars
  BY <1>25, Steady DEF vars, Told
<1> QED
  BY <1>1, <1>2, <1>3, <1>4, <1>5, <1>6, <1>7, <1>8, <1>9, <1>10, <1>11, <1>12, <1>13,
     <1>14, <1>15, <1>16, <1>17, <1>18, <1>19, <1>20, <1>21, <1>22, <1>23, <1>24, <1>25
     DEF Next, HostStep, EndStep

\* A browser that will hear no event of its recording has no joined message of it
\* to come either: that would be one without its verdict.
LEMMA NothingLeft ==
    ASSUME PanelInv, NEW b \in Browsers \ astray, NEW r \in Recs, Last(b, r)
    PROVE  r \in Over /\ ~Mentions(Future(b), r)
<1> QueuesTyped
  BY TypeSplit DEF PanelInv, BaseInv
<1>1. r \in Over /\ ~About(channel, r) /\ ~About(inbox[b], r)
  BY DEF Last, Over
<1>2. /\ inbox[b] \in Seq(Messages) /\ channel \in Seq(Messages)
      /\ Mentions(Future(b), r) <=> Mentions(inbox[b], r) \/ Mentions(channel, r)
  BY FutureTyped
<1>3. ~Mentions(channel, r)
  BY <1>1, ChannelAbout
<1>4. Closed(inbox[b] \o channel, Over)
  BY DEF PanelInv, FollowInv, Shows, Future
<1>5. SUFFICES ASSUME Mentions(inbox[b], r) PROVE FALSE
  BY <1>1, <1>2, <1>3
<1> DEFINE s == inbox[b]
           q == s \o channel
<1>6. /\ Len(q) = Len(s) + Len(channel) /\ Len(s) \in Nat /\ Len(channel) \in Nat
      /\ \A n \in 1..Len(s) : q[n] = s[n]
      /\ \A n \in Len(s)+1..Len(s)+Len(channel) : q[n] = channel[n - Len(s)]
  BY <1>2, JoinedQueue
<1> HIDE DEF q
<1>7. PICK n \in 1..Len(s) : s[n].r = r
  BY <1>5 DEF Mentions
<1>8. n \in 1..Len(q) /\ q[n].r \in Over
  BY <1>1, <1>6, <1>7
<1>9. PICK m \in n..Len(q) : q[m].r = r /\ q[m].k \in Verdicts
  BY <1>4, <1>6, <1>7, <1>8 DEF Closed, q
<1>10. CASE m <= Len(s)
  BY <1>1, <1>6, <1>9, <1>10 DEF About, Verdicts
<1>11. CASE m > Len(s)
  <2>1. m - Len(s) \in 1..Len(channel) /\ channel[m - Len(s)] = q[m]
    BY <1>6, <1>9, <1>11
  <2> QED
    BY <1>3, <1>9, <2>1 DEF Mentions
<1> QED
  BY <1>6, <1>9, <1>10, <1>11

\* TypeCorrect: the declared shape; a joined message is in no queue but a socket's.
THEOREM TypeCorrect == Spec => []TypeOK
<1>1. PanelInv => TypeOK
  BY DEF PanelInv, BaseInv
<1> QED
  BY <1>1, PanelInit, PanelNext, PTL DEF Spec

\* BadgesSettle: a badge that will hear nothing more of its recording shows its
\* verdict, for any browsers and recordings and any losses, but for the browsers
\* that the module names.
THEOREM BadgesSettle == Spec => []NoBadgeSticks
<1>1. PanelInv => NoBadgeSticks
  <2> SUFFICES ASSUME PanelInv, NEW b \in Browsers \ astray, badgeOf[b] # 0,
                      Last(b, badgeOf[b])
               PROVE  badge[b] = "ready"
    BY DEF NoBadgeSticks
  <2>1. badgeOf[b] \in Recs
    BY RecsRange, TypeSplit DEF PanelInv, BaseInv, ControlTyped
  <2>2. badgeOf[b] \in Over /\ ~Mentions(Future(b), badgeOf[b])
    BY <2>1, NothingLeft
  <2> QED
    BY <2>2 DEF PanelInv, FollowInv, Shows
<1> QED
  BY <1>1, PanelInit, PanelNext, PTL DEF Spec

\* No event, joined message or answer takes a verdict back.
LEMMA VerdictKept ==
    ASSUME PanelInv, [Next]_vars, NEW b \in Browsers \ astray', badge[b] = "ready",
           badgeOf'[b] = badgeOf[b]
    PROVE  badge'[b] = "ready"
<1> ControlTyped /\ QueuesTyped /\ StoreInv
  BY TypeSplit DEF PanelInv, BaseInv
<1> USE DEF ControlTyped
<1>1. b \in Browsers \ astray => Shows(Future(b), Over, badge[b], badgeOf[b])
  BY DEF PanelInv, FollowInv
<1>2. badgeOf[b] # 0 /\ badgeOf[b] \in Recs
  BY RecsRange DEF StoreInv
<1>3. ASSUME NEW k, Answered(k) PROVE badge'[b] = "ready"
  <2>1. b \in Browsers \ astray
    BY <1>3 DEF Answered
  <2>2. CASE b # Host
    BY <1>3, <2>2 DEF Answered, SetRecording
  <2>3. CASE b = Host
    <3>1. badgeOf[b] = about
      BY <1>3, <2>3 DEF Answered, SetRecording
    <3>2. Told(about) /\ ~Mentions(Future(b), about)
      BY <1>1, <1>2, <2>1, <3>1 DEF Shows, Over
    <3>3. Last(Host, about)
      BY <2>3, <3>2, FutureTyped, AboutMentions DEF Last
    <3>4. Host \in astray'
      BY <1>3, <3>3 DEF Answered
    <3> QED
      BY <2>3, <3>4
  <2> QED
    BY <2>2, <2>3
<1>4. ASSUME NEW c \in Browsers, Hear(c) PROVE badge'[b] = "ready"
  <2>1. b \in Browsers \ astray
    BY <1>4 DEF Hear
  <2>2. CASE b # c
    BY <1>4, <2>2 DEF Hear, SetRecording
  <2>3. CASE b = c
    <3>1. inbox[b] # <<>> /\ inbox[b] \in Seq(Messages)
      BY <1>4, <2>3 DEF Hear, QueuesTyped
    <3>2. badgeOf'[b] = IF Head(inbox[b]).k = "failed" THEN 0 ELSE Head(inbox[b]).r
      BY <1>4, <2>3 DEF Hear, SetRecording
    <3>3. Head(inbox[b]).r = badgeOf[b]
      BY <1>2, <3>2
    <3>4. Mentions(Future(b), badgeOf[b])
      BY <3>1, <3>3, HeadMentions, FutureTyped
    <3> QED
      BY <1>1, <1>2, <2>1, <3>4 DEF Shows
  <2> QED
    BY <2>2, <2>3
<1>5. CASE UNCHANGED badge
  BY <1>5
<1>6. ASSUME NEW r \in Recs, EndStep(r) \/ AutoStop(r) PROVE UNCHANGED badge
  BY <1>6 DEF EndStep, Claim, ReleaseLock, TellStopped, TellEmpty, Enqueue, Finalize,
              TellVerdict, AutoStop
<1>7. ASSUME NEW c \in Browsers, Enter(c) \/ ReadLock(c) \/ SendJoined(c) \/ Drop(c)
      PROVE  UNCHANGED badge
  BY <1>7 DEF Enter, ReadLock, SendJoined, Drop
<1>8. CASE HostStep
  BY <1>3, <1>5, <1>8
     DEF HostStep, Acquire, CaptureStarts, CaptureFails, Confirm, TellStarted, StartAnswered,
         RequestStop, SfuStopped, StopAnswered
<1>9. CASE RoomEmpties \/ Relay \/ UNCHANGED vars
  BY <1>5, <1>9 DEF RoomEmpties, Relay, vars
<1> QED
  BY <1>4, <1>5, <1>6, <1>7, <1>8, <1>9 DEF Next

\* VerdictsStand: a recording shown as ready is not shown as running or processing
\* again, although webhook and worker publish on one channel from two processes.
THEOREM VerdictsStand == Spec => VerdictIsLast
<1> DEFINE Stands == \A b \in Browsers \ astray' :
                        badge[b] = "ready" /\ badgeOf'[b] = badgeOf[b] => badge'[b] = "ready"
<1>1. PanelInv /\ [Next]_vars => [Stands]_vars
  BY VerdictKept
<1>2. Spec => []PanelInv
  BY PanelInit, PanelNext, PTL DEF Spec
<1> QED
  BY <1>1, <1>2, PTL DEF Spec, VerdictIsLast

-----------------------------------------------------------------------------
(* The emails of a room *)

USE DEF Keys, Final, Fault, reqVars, cancelVars, jobVars

-----------------------------------------------------------------------------
(* The strengthening.  A job that may still run has tries left; a worker     *)
(* step belongs to an active job, and the final failure to a used-up one; a   *)
(* request that is about to add a job is alone with an email nobody has        *)
(* touched.                                                                   *)

JobInv ==
    \A k \in Keys :
        /\ work[k] \in {"load", "send", "record"} <=> mailJob[k] = "active"
        /\ mailJob[k] \in {"waiting", "active"} => tries[k] < MaxTries
        /\ work[k] = "fail" => tries[k] = MaxTries
        /\ status[k] = "none" =>
              mailJob[k] = "none" /\ work[k] = "idle" /\ tries[k] = 0 /\ mails[k] = 0

AddInv ==
    \A q \in Reqs :
        /\ req[q] \in {"create", "add"} <=> cur[q] # NoKey
        /\ req[q] = "add" =>
              /\ status[cur[q]] # "none"
              /\ mailJob[cur[q]] = "none" /\ work[cur[q]] = "idle"
              /\ tries[cur[q]] = 0 /\ mails[cur[q]] = 0
              /\ \A p \in Reqs : req[p] = "add" /\ cur[p] = cur[q] => p = q

TriesInv == EmailTypeOK /\ JobInv /\ AddInv /\ FailedUsedAllTries

LEMMA TriesInit ==
    ASSUME EmailInit
    PROVE  TriesInv
<1>1. EmailTypeOK
  <2>1. roomEnded \in BOOLEAN /\ event \in BOOLEAN
    BY Zenon DEF EmailInit
  <2>2. 0 \in 0..MaxTries /\ 0 \in 0..MaxFaults
    BY TriesAssumption
  <2>3. todo \in [Reqs -> SUBSET Keys]
    BY DEF EmailInit
  <2> QED
    BY <2>1, <2>2, <2>3 DEF EmailInit, EmailTypeOK
<1>2. JobInv
  BY TriesAssumption DEF EmailInit, JobInv
<1>3. AddInv
  BY DEF EmailInit, AddInv
<1>4. FailedUsedAllTries
  BY DEF EmailInit, FailedUsedAllTries
<1> QED
  BY <1>1, <1>2, <1>3, <1>4 DEF TriesInv

LEMMA TriesNext ==
    ASSUME TriesInv, [EmailNext]_emailVars
    PROVE  TriesInv'
<1> USE KeysAssumption, TriesAssumption
    DEF TriesInv, EmailTypeOK, JobInv, AddInv, FailedUsedAllTries
<1>1. ASSUME NEW q \in Reqs, Invite(q) PROVE TriesInv'
  BY <1>1 DEF Invite
<1>2. ASSUME NEW q \in Reqs, FindRow(q) PROVE TriesInv'
  BY <1>2 DEF FindRow
<1>3. ASSUME NEW q \in Reqs, CreateRow(q) PROVE TriesInv'
  BY <1>3 DEF CreateRow
<1>4. ASSUME NEW q \in Reqs, AddJob(q) PROVE TriesInv'
  BY <1>4 DEF AddJob
<1>5. ASSUME NEW q \in Reqs, Respond(q) PROVE TriesInv'
  BY <1>5 DEF Respond
<1>6. CASE EndRoom
  BY <1>6 DEF EndRoom
<1>7. CASE LoseEvent
  <2>1. event' \in BOOLEAN
    BY <1>7, Zenon DEF LoseEvent
  <2> QED
    BY <1>7, <2>1 DEF LoseEvent
<1>8. CASE ReadPending
  <2>1. EmailTypeOK'
    BY <1>8 DEF ReadPending
  <2>2. JobInv'
    BY <1>8 DEF ReadPending
  <2>3. AddInv'
    BY <1>8 DEF ReadPending
  <2>4. FailedUsedAllTries'
    BY <1>8 DEF ReadPending
  <2> QED
    BY <2>1, <2>2, <2>3, <2>4 DEF TriesInv
<1>9. CASE CancelRows
  BY <1>9 DEF CancelRows
<1>10. ASSUME NEW k \in Keys, RemoveJob(k) PROVE TriesInv'
  BY <1>10 DEF RemoveJob
<1>11. ASSUME NEW k \in Keys, TimePasses(k) PROVE TriesInv'
  BY <1>11 DEF TimePasses
<1>12. ASSUME NEW k \in Keys, Take(k) PROVE TriesInv'
  BY <1>12 DEF Take
<1>13. ASSUME NEW k \in Keys, Load(k) PROVE TriesInv'
  BY <1>13 DEF Load
<1>14. ASSUME NEW k \in Keys, Send(k) PROVE TriesInv'
  BY <1>14 DEF Send
<1>15. ASSUME NEW k \in Keys, RecordSent(k) PROVE TriesInv'
  BY <1>15 DEF RecordSent
<1>16. ASSUME NEW k \in Keys, SendFails(k) PROVE TriesInv'
  <2>1. EmailTypeOK'
    BY <1>16 DEF SendFails, AttemptFails
  <2>2. JobInv'
    <3>1. CASE tries[k] + 1 < MaxTries
      BY <1>16, <3>1 DEF SendFails, AttemptFails
    <3>2. CASE ~(tries[k] + 1 < MaxTries)
      <4>1. tries[k] < MaxTries
        BY <1>16 DEF SendFails
      <4>2. tries[k] + 1 = MaxTries
        BY <3>2, <4>1
      <4> QED
        BY <1>16, <3>2, <4>2 DEF SendFails, AttemptFails
    <3> QED
      BY <3>1, <3>2
  <2>3. AddInv'
    BY <1>16 DEF SendFails, AttemptFails
  <2>4. FailedUsedAllTries'
    BY <1>16 DEF SendFails, AttemptFails
  <2> QED
    BY <2>1, <2>2, <2>3, <2>4
<1>17. ASSUME NEW k \in Keys, MarkFailed(k) PROVE TriesInv'
  BY <1>17 DEF MarkFailed
<1>18. ASSUME NEW k \in Keys, RecordFails(k) PROVE TriesInv'
  BY <1>18 DEF RecordFails, AttemptFails
<1>19. ASSUME NEW k \in Keys, MarkFailedThrows(k) PROVE TriesInv'
  BY <1>19 DEF MarkFailedThrows
<1>20. CASE Crash
  <2>1. EmailTypeOK'
    <3>1. event' \in BOOLEAN
      BY <1>20, Zenon DEF Crash
    <3>2. todo' \in [Reqs -> SUBSET Keys]
      BY <1>20 DEF Crash
    <3> QED
      BY <1>20, <3>1, <3>2 DEF Crash
  <2>2. JobInv'
    BY <1>20 DEF Crash
  <2>3. AddInv'
    BY <1>20 DEF Crash
  <2>4. FailedUsedAllTries'
    BY <1>20 DEF Crash
  <2> QED
    BY <2>1, <2>2, <2>3, <2>4 DEF TriesInv
<1>21. CASE UNCHANGED emailVars
  BY <1>21 DEF emailVars
<1> QED
  BY <1>1, <1>2, <1>3, <1>4, <1>5, <1>6, <1>7, <1>8,
     <1>9, <1>10, <1>11, <1>12, <1>13, <1>14, <1>15, <1>16,
     <1>17, <1>18, <1>19, <1>20, <1>21
     DEF EmailNext, RequestStep, CancelStep, WorkerStep

\* TypeCorrect: the declared shape, the bound on the tries of a job included.
THEOREM EmailTypeCorrect == EmailSpec => []EmailTypeOK
<1>1. TriesInv => EmailTypeOK
  BY DEF TriesInv
<1> QED
  BY <1>1, TriesInit, TriesNext, PTL DEF EmailSpec

\* "Only after the last failure is the row marked FAILED", whatever stalls,
\* crashes or fails to be written.
THEOREM FailedIsLast == EmailSpec => []FailedUsedAllTries
<1>1. TriesInv => FailedUsedAllTries
  BY DEF TriesInv
<1> QED
  BY <1>1, TriesInit, TriesNext, PTL DEF EmailSpec

-----------------------------------------------------------------------------
(* Without faults: an email that is out is about to be recorded, or recorded; *)
(* a PENDING row is on somebody's list; a cancellation that is over has none. *)

MailIsOut ==
    \A k \in Keys :
        mails[k] > 0 =>
            /\ mails[k] = 1
            /\ \/ work[k] = "record"
               \/ /\ status[k] = "SENT" /\ work[k] = "idle"
                  /\ mailJob[k] \notin {"waiting", "active"}

CleanInv ==
    faults = 0 => MailIsOut /\ NoStrandedRow /\ (cancel = "idle" => snap = {})

EmailInv == TriesInv /\ CleanInv

LEMMA CleanInit ==
    ASSUME EmailInit
    PROVE  EmailInv
<1>1. TriesInv
  BY TriesInit
<1>2. CleanInv
  BY KeysAssumption DEF EmailInit, CleanInv, MailIsOut, NoStrandedRow
<1> QED
  BY <1>1, <1>2 DEF EmailInv

LEMMA CleanNext ==
    ASSUME EmailInv, [EmailNext]_emailVars
    PROVE  EmailInv'
<1> SUFFICES CleanInv'
  BY TriesNext DEF EmailInv
<1> USE KeysAssumption, TriesAssumption
    DEF EmailInv, TriesInv, EmailTypeOK, JobInv, AddInv, CleanInv, MailIsOut, NoStrandedRow
<1>1. ASSUME NEW q \in Reqs, Invite(q) PROVE CleanInv'
  BY <1>1 DEF Invite
<1>2. ASSUME NEW q \in Reqs, FindRow(q) PROVE CleanInv'
  BY <1>2 DEF FindRow
<1>3. ASSUME NEW q \in Reqs, CreateRow(q) PROVE CleanInv'
  BY <1>3 DEF CreateRow
<1>4. ASSUME NEW q \in Reqs, AddJob(q) PROVE CleanInv'
  BY <1>4 DEF AddJob
<1>5. ASSUME NEW q \in Reqs, Respond(q) PROVE CleanInv'
  BY <1>5 DEF Respond
<1>6. CASE EndRoom
  BY <1>6 DEF EndRoom
<1>7. CASE LoseEvent
  BY <1>7 DEF LoseEvent
<1>8. CASE ReadPending
  BY <1>8 DEF ReadPending
<1>9. CASE CancelRows
  BY <1>9 DEF CancelRows
<1>10. ASSUME NEW k \in Keys, RemoveJob(k) PROVE CleanInv'
  BY <1>10 DEF RemoveJob
<1>11. ASSUME NEW k \in Keys, TimePasses(k) PROVE CleanInv'
  BY <1>11 DEF TimePasses
<1>12. ASSUME NEW k \in Keys, Take(k) PROVE CleanInv'
  BY <1>12 DEF Take
<1>13. ASSUME NEW k \in Keys, Load(k) PROVE CleanInv'
  BY <1>13 DEF Load
<1>14. ASSUME NEW k \in Keys, Send(k) PROVE CleanInv'
  <2>1. SUFFICES ASSUME faults = 0 PROVE CleanInv'
    BY <1>14 DEF Send
  <2>2. mails[k] = 0
    BY <1>14, <2>1 DEF Send
  <2>3. mails'[k] = 1 /\ work'[k] = "record"
    BY <1>14, <2>2 DEF Send
  <2>4. MailIsOut'
    BY <1>14, <2>1, <2>3 DEF Send
  <2>5. NoStrandedRow' /\ (cancel' = "idle" => snap' = {})
    BY <1>14, <2>1 DEF Send
  <2> QED
    BY <2>4, <2>5
<1>15. ASSUME NEW k \in Keys, RecordSent(k) PROVE CleanInv'
  BY <1>15 DEF RecordSent
<1>16. ASSUME NEW k \in Keys, SendFails(k) PROVE CleanInv'
  BY <1>16 DEF SendFails, AttemptFails
<1>17. ASSUME NEW k \in Keys, MarkFailed(k) PROVE CleanInv'
  BY <1>17 DEF MarkFailed
<1>18. ASSUME NEW k \in Keys, RecordFails(k) PROVE CleanInv'
  BY <1>18 DEF RecordFails, AttemptFails
<1>19. ASSUME NEW k \in Keys, MarkFailedThrows(k) PROVE CleanInv'
  BY <1>19 DEF MarkFailedThrows
<1>20. CASE Crash
  BY <1>20 DEF Crash
<1>21. CASE UNCHANGED emailVars
  BY <1>21 DEF emailVars
<1> QED
  BY <1>1, <1>2, <1>3, <1>4, <1>5, <1>6, <1>7, <1>8,
     <1>9, <1>10, <1>11, <1>12, <1>13, <1>14, <1>15, <1>16,
     <1>17, <1>18, <1>19, <1>20, <1>21
     DEF EmailNext, RequestStep, CancelStep, WorkerStep

LEMMA EmailsAreSound ==
    ASSUME EmailInv
    PROVE  OneEmailEach /\ NoStrandedRow /\ CancelledWasNotSent
  BY KeysAssumption
     DEF EmailInv, CleanInv, MailIsOut, TriesInv, EmailTypeOK, OneEmailEach,
         NoStrandedRow, CancelledWasNotSent

\* createAndEnqueue, processEmailJob: no request, retry or cancellation makes a
\* second email of one jobId.
THEOREM EmailOnlyOnce == EmailSpec => []OneEmailEach
  BY EmailsAreSound, CleanInit, CleanNext, PTL DEF EmailSpec

\* createAndEnqueue, cancelReminders: no PENDING row is forgotten.
THEOREM NoRowIsStranded == EmailSpec => []NoStrandedRow
  BY EmailsAreSound, CleanInit, CleanNext, PTL DEF EmailSpec

\* processEmailJob: CANCELLED is not said of an email that is out.
THEOREM CancelledIsTrue == EmailSpec => []CancelledWasNotSent
  BY EmailsAreSound, CleanInit, CleanNext, PTL DEF EmailSpec
=============================================================================
