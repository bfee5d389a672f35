------------------------------ MODULE QueueLemmas ------------------------------
(***************************************************************************)
(* What the proofs about the quote gateways have in common: how the last   *)
(* callback in a queue decides what is so, and induction over sequences.   *)
(***************************************************************************)
EXTENDS Integers, Sequences, SequencesExt, SequenceTheorems, WellFoundedInduction, TLAPS

-----------------------------------------------------------------------------
(* Queues of callbacks. In a queue q those of B begin a subscription to c,  *)
(* those of E end it; on is what the gateway takes for subscribed and sent  *)
(* what the exchange sends.                                                 *)

\* What the last callback about c says is so, and what the gateway has, if none
\* takes it back.
Stands(q, B, E, c, on, sent) ==
    /\ \A i \in DOMAIN q : q[i] \in B /\ (\A j \in DOMAIN q : j > i => q[j] \notin E) => c \in sent
    /\ c \in on /\ (\A i \in DOMAIN q : q[i] \notin E) => c \in sent

\* The same both ways, of the subscriptions of T and of their absence.
Agrees(q, B, E, T, c, on, sent) ==
    /\ Stands(q, B, E, c, on, sent)
    /\ Stands(q, E, B, c, T \ on, T \ sent)

\* One more callback takes back what was said before, or is true, or says nothing.
LEMMA StandsAppend ==
    ASSUME NEW X, NEW q \in Seq(X), NEW e \in X, NEW B, NEW E, B \cap E = {},
           NEW c, NEW on, NEW sent, NEW sent2,
           e \in E \/ c \in sent2 \/ (Stands(q, B, E, c, on, sent) /\ c \notin sent /\ e \notin B)
    PROVE  Stands(Append(q, e), B, E, c, on, sent2)
<1> DEFINE t == Append(q, e)
<1>1. /\ \A i \in DOMAIN q : i \in DOMAIN t /\ t[i] = q[i] /\ Len(q) + 1 > i
      /\ Len(q) + 1 \in DOMAIN t /\ t[Len(q) + 1] = e
      /\ \A i \in DOMAIN t : i \in DOMAIN q \/ i = Len(q) + 1
  BY AppendProperties
<1> HIDE DEF t
<1> QED BY <1>1 DEF Stands, t

\* One less does what it says.
LEMMA StandsTail ==
    ASSUME NEW X, NEW q \in Seq(X), q # <<>>, NEW B, NEW E, NEW c, NEW on, NEW sent, NEW on2,
           Stands(q, B, E, c, on, sent),
           c \notin on2 \/ Head(q) \in B \/ (Head(q) \notin E /\ c \in on)
    PROVE  Stands(Tail(q), B, E, c, on2, sent)
<1> DEFINE t == Tail(q)
<1>1. /\ \A i \in DOMAIN t : i + 1 \in DOMAIN q /\ t[i] = q[i + 1]
      /\ 1 \in DOMAIN q /\ Head(q) = q[1]
      /\ \A j \in DOMAIN q : j > 1 => j - 1 \in DOMAIN t /\ t[j - 1] = q[j]
      /\ \A j \in DOMAIN q : j = 1 \/ j > 1
      /\ DOMAIN t \subseteq Nat /\ DOMAIN q \subseteq Nat
  BY HeadTailProperties
<1> HIDE DEF t
<1>2. ASSUME NEW i \in DOMAIN t, t[i] \in B, \A j \in DOMAIN t : j > i => t[j] \notin E PROVE c \in sent
  <2>1. \A j \in DOMAIN q : j > i + 1 => q[j] \notin E
    BY <1>1, <1>2
  <2> QED BY <1>1, <1>2, <2>1 DEF Stands
<1>3. ASSUME c \in on2, \A i \in DOMAIN t : t[i] \notin E PROVE c \in sent
  <2>1. \A j \in DOMAIN q : j > 1 => q[j] \notin E
    BY <1>1, <1>3
  <2> QED BY <1>1, <1>3, <2>1 DEF Stands
<1> QED BY <1>2, <1>3 DEF Stands, t

\* The same both ways.
LEMMA AgreesAppend ==
    ASSUME NEW X, NEW q \in Seq(X), NEW e \in X, NEW B, NEW E, B \cap E = {},
           NEW T, NEW c \in T, NEW on, NEW sent, NEW sent2,
           \/ e \in B /\ c \in sent2
           \/ e \in E /\ c \notin sent2
           \/ Agrees(q, B, E, T, c, on, sent) /\ e \notin B \cup E /\ (c \in sent2 <=> c \in sent)
    PROVE  Agrees(Append(q, e), B, E, T, c, on, sent2)
<1>1. E \cap B = {}
  OBVIOUS
<1>2. \/ e \in E \/ c \in sent2
      \/ Stands(q, B, E, c, on, sent) /\ c \notin sent /\ e \notin B
  BY DEF Agrees
<1>3. \/ e \in B \/ c \in T \ sent2
      \/ Stands(q, E, B, c, T \ on, T \ sent) /\ c \notin T \ sent /\ e \notin E
  BY DEF Agrees
<1> QED BY <1>1, <1>2, <1>3, StandsAppend DEF Agrees

LEMMA AgreesTail ==
    ASSUME NEW X, NEW q \in Seq(X), q # <<>>, NEW B, NEW E,
           NEW T, NEW c \in T, NEW on, NEW sent, NEW on2,
           Agrees(q, B, E, T, c, on, sent),
           \/ Head(q) \in B /\ c \in on2
           \/ Head(q) \in E /\ c \notin on2
           \/ Head(q) \notin B \cup E /\ (c \in on2 <=> c \in on)
    PROVE  Agrees(Tail(q), B, E, T, c, on2, sent)
<1>1. c \notin on2 \/ Head(q) \in B \/ (Head(q) \notin E /\ c \in on)
  OBVIOUS
<1>2. c \notin T \ on2 \/ Head(q) \in E \/ (Head(q) \notin B /\ c \in T \ on)
  OBVIOUS
<1> QED BY <1>1, <1>2, StandsTail DEF Agrees

\* Nothing is due: the gateway and the exchange agree.
LEMMA AgreesEmpty ==
    ASSUME NEW B, NEW E, NEW T, NEW c \in T, NEW on, NEW sent, c \in on <=> c \in sent
    PROVE  Agrees(<<>>, B, E, T, c, on, sent)
BY DEF Agrees, Stands

\* What the queue says depends on nothing but c.
LEMMA AgreesSame ==
    ASSUME NEW q, NEW B, NEW E, NEW T, NEW c \in T, NEW on, NEW sent, NEW on2, NEW sent2,
           Agrees(q, B, E, T, c, on, sent), c \in on2 <=> c \in on, c \in sent2 <=> c \in sent
    PROVE  Agrees(q, B, E, T, c, on2, sent2)
BY DEF Agrees, Stands

-----------------------------------------------------------------------------
(* Queues of calls. In a queue q those of B begin what is asked for as c,    *)
(* those of E end it.                                                        *)

\* Is c sent when all of q is served.
Sends(q, B, E, c, sent) ==
    \/ \E i \in DOMAIN q : q[i] \in B /\ \A j \in DOMAIN q : j > i => q[j] \notin E
    \/ c \in sent /\ \A i \in DOMAIN q : q[i] \notin E

LEMMA SendsTail ==
    ASSUME NEW X, NEW q \in Seq(X), q # <<>>, NEW B, NEW E, B \cap E = {},
           NEW c, NEW sent, NEW sent2,
           c \in sent2 <=> Head(q) \in B \/ (c \in sent /\ Head(q) \notin E)
    PROVE  Sends(Tail(q), B, E, c, sent2) <=> Sends(q, B, E, c, sent)
<1>1. PICK t, h : t = Tail(q) /\ h = Head(q)
  OBVIOUS
<1>2. /\ \A i \in DOMAIN t : i + 1 \in DOMAIN q /\ t[i] = q[i + 1] /\ i \in Nat /\ i + 1 > 1
      /\ 1 \in DOMAIN q /\ h = q[1]
      /\ \A j \in DOMAIN q : j \in Nat /\ (j = 1 \/ (j > 1 /\ j - 1 \in DOMAIN t /\ t[j - 1] = q[j]))
  BY <1>1, HeadTailProperties
<1>3. ASSUME Sends(t, B, E, c, sent2) PROVE Sends(q, B, E, c, sent)
  <2>1. CASE \E i \in DOMAIN t : t[i] \in B /\ \A j \in DOMAIN t : j > i => t[j] \notin E
    <3>1. PICK i \in DOMAIN t : t[i] \in B /\ \A j \in DOMAIN t : j > i => t[j] \notin E
      BY <2>1
    <3>2. \A j \in DOMAIN q : j > i + 1 => q[j] \notin E
      BY <1>2, <3>1
    <3> QED BY <1>2, <3>1, <3>2 DEF Sends
  <2>2. CASE c \in sent2 /\ \A i \in DOMAIN t : t[i] \notin E
    <3>1. ASSUME NEW j \in DOMAIN q, j > 1 PROVE q[j] \notin E
      <4>1. j - 1 \in DOMAIN t /\ t[j - 1] = q[j]
        BY <1>2, <3>1
      <4> QED BY <2>2, <4>1
    <3>2. CASE h \in B
      BY <1>2, <3>1, <3>2 DEF Sends
    <3>3. CASE c \in sent /\ h \notin E
      <4>1. \A j \in DOMAIN q : q[j] \notin E
        BY <1>2, <3>1, <3>3
      <4> QED BY <3>3, <4>1 DEF Sends
    <3> QED BY <1>1, <2>2, <3>2, <3>3
  <2> QED BY <1>3, <2>1, <2>2 DEF Sends
<1>4. ASSUME Sends(q, B, E, c, sent) PROVE Sends(t, B, E, c, sent2)
  <2>1. CASE \E i \in DOMAIN q : q[i] \in B /\ \A j \in DOMAIN q : j > i => q[j] \notin E
    <3>1. PICK i \in DOMAIN q : q[i] \in B /\ \A j \in DOMAIN q : j > i => q[j] \notin E
      BY <2>1
    <3>2. CASE i = 1
      <4>1. c \in sent2
        BY <1>1, <1>2, <3>1, <3>2
      <4>2. \A j \in DOMAIN t : t[j] \notin E
        BY <1>2, <3>1, <3>2
      <4> QED BY <4>1, <4>2 DEF Sends
    <3>3. CASE i # 1
      <4>1. i - 1 \in DOMAIN t /\ t[i - 1] \in B
        BY <1>2, <3>1, <3>3
      <4>2. \A j \in DOMAIN t : j > i - 1 => t[j] \notin E
        BY <1>2, <3>1
      <4> QED BY <4>1, <4>2 DEF Sends
    <3> QED BY <3>2, <3>3
  <2>2. CASE c \in sent /\ \A i \in DOMAIN q : q[i] \notin E
    <3>1. c \in sent2 /\ \A j \in DOMAIN t : t[j] \notin E
      BY <1>1, <1>2, <2>2
    <3> QED BY <3>1 DEF Sends
  <2> QED BY <1>4, <2>1, <2>2 DEF Sends
<1> QED BY <1>1, <1>3, <1>4

\* One queue after the other.
LEMMA SendsConcat ==
    ASSUME NEW X, NEW a \in Seq(X), NEW b \in Seq(X), NEW B, NEW E,
           NEW c, NEW sent, NEW sent2, c \in sent2 <=> Sends(a, B, E, c, sent)
    PROVE  Sends(a \o b, B, E, c, sent) <=> Sends(b, B, E, c, sent2)
<1>1. PICK t : t = a \o b
  OBVIOUS
<1>2. /\ \A i \in DOMAIN a : i \in DOMAIN t /\ t[i] = a[i] /\ i \in Nat /\ i <= Len(a)
      /\ \A i \in DOMAIN b : i + Len(a) \in DOMAIN t /\ t[i + Len(a)] = b[i] /\ i \in Nat /\ i > 0
      /\ \A i \in DOMAIN t : i \in DOMAIN a \/ (i - Len(a) \in DOMAIN b /\ i \in Nat)
      /\ Len(a) \in Nat
  BY <1>1, ConcatProperties
<1>3. ASSUME Sends(t, B, E, c, sent) PROVE Sends(b, B, E, c, sent2)
  <2>1. CASE \E i \in DOMAIN t : t[i] \in B /\ \A j \in DOMAIN t : j > i => t[j] \notin E
    <3>1. PICK i \in DOMAIN t : t[i] \in B /\ \A j \in DOMAIN t : j > i => t[j] \notin E
      BY <2>1
    <3>2. CASE i \in DOMAIN a
      <4>1. \A j \in DOMAIN b : b[j] \notin E
        BY <1>2, <3>1, <3>2
      <4>2. a[i] \in B /\ \A j \in DOMAIN a : j > i => a[j] \notin E
        BY <1>2, <3>1, <3>2
      <4>3. Sends(a, B, E, c, sent)
        BY <3>2, <4>2 DEF Sends
      <4> QED BY <4>1, <4>3 DEF Sends
    <3>3. CASE i \notin DOMAIN a
      <4>1. i - Len(a) \in DOMAIN b /\ b[i - Len(a)] \in B
        <5>1. i - Len(a) \in DOMAIN b /\ i \in Nat
          BY <1>2, <3>3
        <5>2. (i - Len(a)) + Len(a) = i
          BY <1>2, <5>1
        <5> QED BY <1>2, <3>1, <5>1, <5>2
      <4>2. \A j \in DOMAIN b : j > i - Len(a) => b[j] \notin E
        <5>1. i \in Nat
          BY <1>2, <3>3
        <5>2. \A j \in DOMAIN b : j > i - Len(a) => j + Len(a) > i
          BY <1>2, <5>1
        <5> QED BY <1>2, <3>1, <5>2
      <4> QED BY <4>1, <4>2 DEF Sends
    <3> QED BY <3>2, <3>3
  <2>2. CASE c \in sent /\ \A i \in DOMAIN t : t[i] \notin E
    <3>1. (\A i \in DOMAIN a : a[i] \notin E) /\ (\A i \in DOMAIN b : b[i] \notin E)
      BY <1>2, <2>2
    <3>2. Sends(a, B, E, c, sent)
      BY <2>2, <3>1 DEF Sends
    <3> QED BY <3>1, <3>2 DEF Sends
  <2> QED BY <1>3, <2>1, <2>2 DEF Sends
<1>4. ASSUME Sends(b, B, E, c, sent2) PROVE Sends(t, B, E, c, sent)
  <2>1. CASE \E i \in DOMAIN b : b[i] \in B /\ \A j \in DOMAIN b : j > i => b[j] \notin E
    <3>1. PICK i \in DOMAIN b : b[i] \in B /\ \A j \in DOMAIN b : j > i => b[j] \notin E
      BY <2>1
    <3>2. i + Len(a) \in DOMAIN t /\ t[i + Len(a)] \in B
      BY <1>2, <3>1
    <3>3. ASSUME NEW j \in DOMAIN t, j > i + Len(a) PROVE t[j] \notin E
      <4>1. j - Len(a) \in DOMAIN b /\ j \in Nat
        BY <1>2, <3>1, <3>3
      <4>2. j - Len(a) > i /\ (j - Len(a)) + Len(a) = j
        BY <1>2, <3>1, <3>3, <4>1
      <4> QED BY <1>2, <3>1, <4>1, <4>2
    <3> QED BY <3>2, <3>3 DEF Sends
  <2>2. CASE c \in sent2 /\ \A i \in DOMAIN b : b[i] \notin E
    <3>0. ASSUME NEW j \in DOMAIN t, j \notin DOMAIN a PROVE t[j] \notin E
      <4>1. j - Len(a) \in DOMAIN b /\ (j - Len(a)) + Len(a) = j
        BY <1>2, <3>0
      <4> QED BY <1>2, <2>2, <4>1
    <3>1. CASE \E i \in DOMAIN a : a[i] \in B /\ \A j \in DOMAIN a : j > i => a[j] \notin E
      <4>1. PICK i \in DOMAIN a : a[i] \in B /\ \A j \in DOMAIN a : j > i => a[j] \notin E
        BY <3>1
      <4>2. i \in DOMAIN t /\ t[i] \in B /\ \A j \in DOMAIN t : j > i => t[j] \notin E
        BY <1>2, <3>0, <4>1
      <4> QED BY <4>2 DEF Sends
    <3>2. CASE c \in sent /\ \A i \in DOMAIN a : a[i] \notin E
      <4>1. \A j \in DOMAIN t : t[j] \notin E
        BY <1>2, <3>0, <3>2
      <4> QED BY <3>2, <4>1 DEF Sends
    <3> QED BY <2>2, <3>1, <3>2 DEF Sends
  <2> QED BY <1>4, <2>1, <2>2 DEF Sends
<1> QED BY <1>1, <1>3, <1>4

\* One call more.
LEMMA SendsAppend ==
    ASSUME NEW X, NEW q \in Seq(X), NEW e \in X, NEW B, NEW E, B \cap E = {}, NEW c, NEW sent
    PROVE  Sends(Append(q, e), B, E, c, sent) <=> e \in B \/ (Sends(q, B, E, c, sent) /\ e \notin E)
<1>1. PICK t : t = Append(q, e)
  OBVIOUS
<1>2. /\ \A i \in DOMAIN q : i \in DOMAIN t /\ t[i] = q[i] /\ i \in Nat /\ i < Len(q) + 1
      /\ Len(q) + 1 \in DOMAIN t /\ t[Len(q) + 1] = e /\ Len(q) \in Nat
      /\ \A i \in DOMAIN t : i \in DOMAIN q \/ i = Len(q) + 1
  BY <1>1, AppendProperties
<1>3. ASSUME Sends(t, B, E, c, sent) PROVE e \in B \/ (Sends(q, B, E, c, sent) /\ e \notin E)
  BY <1>2, <1>3 DEF Sends
<1>4. ASSUME e \in B PROVE Sends(t, B, E, c, sent)
  <2>1. \A j \in DOMAIN t : ~(j > Len(q) + 1)
    BY <1>2
  <2> QED BY <1>2, <1>4, <2>1 DEF Sends
<1>5. ASSUME Sends(q, B, E, c, sent), e \notin E PROVE Sends(t, B, E, c, sent)
  BY <1>2, <1>5 DEF Sends
<1> QED BY <1>1, <1>3, <1>4, <1>5

-----------------------------------------------------------------------------
(* Induction. The least element of a set of numbers is a theorem of the      *)
(* library without parameters; with a set in the place of a predicate it     *)
(* gives induction, and what a recursive function computes.                  *)

LEMMA LessIs == OpToRel(<, Nat) = {ss \in Nat \X Nat : ss[1] < ss[2]}
BY DEF OpToRel

\* Every set of numbers has a least one.
LEMMA Least == ASSUME NEW T \in SUBSET Nat, T # {} PROVE \E m \in T : \A k \in T : m <= k
<1>1. PICK m \in T : \A k \in T : ~(<<k, m>> \in OpToRel(<, Nat))
  BY NatLessThanWellFounded, WFMin, Zenon
<1>2. PICK R : R = OpToRel(<, Nat)
  BY Zenon
<1>3. R = {ss \in Nat \X Nat : ss[1] < ss[2]}
  BY <1>2, LessIs, Zenon
<1>4. \A k \in T : <<k, m>> \notin R
  BY <1>1, <1>2, Zenon
<1>5. \A k \in T : ~(k < m)
  BY <1>3, <1>4
<1> QED BY <1>5

\* Induction.
LEMMA Induct == ASSUME NEW T, 0 \in T, \A n \in Nat : n \in T => n + 1 \in T PROVE Nat \subseteq T
<1> SUFFICES ASSUME NEW b \in Nat, b \notin T PROVE FALSE
  OBVIOUS
<1> DEFINE W == {n \in Nat : n \notin T}
<1>1. PICK m \in W : \A k \in W : m <= k
  <2>1. W \in SUBSET Nat /\ W # {}
    OBVIOUS
  <2> HIDE DEF W
  <2> QED BY <2>1, Least
<1>2. m \in Nat /\ m \notin T /\ m # 0
  BY <1>1
<1>3. m - 1 \in Nat /\ m - 1 \notin W
  BY <1>1, <1>2
<1>4. m - 1 \in T
  BY <1>3
<1>5. (m - 1) + 1 \in T
  BY <1>3, <1>4
<1> QED BY <1>2, <1>5

\* FlattenSeq is the function it is defined by, which there is.
LEMMA FlattenIs ==
    ASSUME NEW s, Len(s) \in Nat, Len(s) # 0
    PROVE  \E f : /\ f[1] = s[1]
                  /\ \A i \in 2..Len(s) : f[i] = f[i - 1] \o s[i]
                  /\ FlattenSeq(s) = f[Len(s)]
<1> DEFINE n == Len(s)
           step(f, i) == IF i = 1 THEN s[i] ELSE f[i - 1] \o s[i]
           T == {m \in Nat : \E f : f = [i \in 1..m |-> step(f, i)]}
<1>1. 0 \in T
  <2>1. PICK f : f = [i \in 1..0 |-> <<>>]
    OBVIOUS
  <2>2. f = [i \in 1..0 |-> step(f, i)]
    BY <2>1
  <2> QED BY <2>2
<1>2. ASSUME NEW m \in Nat, m \in T PROVE m + 1 \in T
  <2>1. PICK f : f = [i \in 1..m |-> step(f, i)]
    BY <1>2
  <2>2. PICK g : g = [i \in 1..(m + 1) |-> IF i = m + 1 THEN step(f, i) ELSE f[i]]
    OBVIOUS
  <2>3. \A i \in 1..m : g[i] = f[i] /\ i # m + 1 /\ i \in 1..(m + 1)
    BY <2>2
  <2>4. ASSUME NEW i \in 1..(m + 1) PROVE g[i] = step(g, i)
    <3>1. CASE i \in 1..m
      <4>1. g[i] = f[i] /\ (i = 1 \/ (i # 1 /\ i - 1 \in 1..m /\ g[i - 1] = f[i - 1]))
        BY <2>3, <3>1
      <4>2. f[i] = step(f, i)
        <5> HIDE DEF step
        <5> QED BY <2>1, <3>1
      <4> QED BY <3>1, <4>1, <4>2
    <3>2. CASE i = m + 1
      <4>1. g[i] = step(f, i) /\ (i = 1 \/ (i # 1 /\ i - 1 \in 1..m /\ g[i - 1] = f[i - 1]))
        BY <2>2, <2>3, <3>2
      <4> QED BY <3>2, <4>1
    <3> QED BY <3>1, <3>2
  <2>5. g = [i \in 1..(m + 1) |-> step(g, i)]
    BY <2>2, <2>4
  <2> HIDE DEF step
  <2>6. \E h : h = [i \in 1..(m + 1) |-> step(h, i)]
    BY <2>5
  <2> QED BY <2>6
<1>3. n \in T
  <2> HIDE DEF T
  <2> QED BY <1>1, <1>2, Induct
<1>4. PICK f : f = [i \in 1..n |-> step(f, i)]
  BY <1>3
<1> DEFINE F == CHOOSE h : h = [i \in 1..n |-> step(h, i)]
<1>5. F = [i \in 1..n |-> step(F, i)]
  BY <1>4
<1>6. FlattenSeq(s) = F[n]
  BY DEF FlattenSeq
<1> HIDE DEF F
<1>7. \A i \in 1..n : F[i] = step(F, i)
  <2> HIDE DEF step
  <2> QED BY <1>5
<1>8. F[1] = s[1] /\ \A i \in 2..n : F[i] = F[i - 1] \o s[i]
  <2>1. n \in Nat /\ n # 0 /\ 1 \in 1..n /\ \A i \in 2..n : i \in 1..n /\ i # 1
    OBVIOUS
  <2> HIDE DEF n
  <2>2. F[1] = s[1]
    BY <1>7, <2>1
  <2>3. ASSUME NEW i \in 2..n PROVE F[i] = F[i - 1] \o s[i]
    BY <1>7, <2>1
  <2> QED BY <2>2, <2>3
<1> QED BY <1>6, <1>8

\* What every part has and one more part keeps, the whole has.
LEMMA FlattenIn ==
    ASSUME NEW X, NEW s \in Seq(X), NEW T, <<>> \in T,
           \A i \in 1..Len(s) : s[i] \in T /\ \A a \in T : a \o s[i] \in T
    PROVE  FlattenSeq(s) \in T
<1>0. Len(s) \in Nat
  OBVIOUS
<1>1. CASE Len(s) = 0
  <2>1. s = <<>>
    BY <1>1, EmptySeq
  <2> QED BY <1>1, <2>1 DEF FlattenSeq
<1>2. CASE Len(s) # 0
  <2>1. PICK f : /\ f[1] = s[1]
                 /\ \A i \in 2..Len(s) : f[i] = f[i - 1] \o s[i]
                 /\ FlattenSeq(s) = f[Len(s)]
    BY <1>0, <1>2, FlattenIs
  <2> DEFINE W == {m \in Nat : m + 1 <= Len(s) => f[m + 1] \in T}
  <2>2. 0 \in W
    BY <1>0, <1>2, <2>1
  <2>3. ASSUME NEW m \in Nat, m \in W PROVE m + 1 \in W
    <3>1. SUFFICES ASSUME (m + 1) + 1 <= Len(s) PROVE f[(m + 1) + 1] \in T
      OBVIOUS
    <3>2. m + 1 <= Len(s) /\ (m + 1) + 1 \in 2..Len(s) /\ ((m + 1) + 1) - 1 = m + 1
          /\ (m + 1) + 1 \in 1..Len(s)
      BY <1>0, <3>1
    <3>3. f[m + 1] \in T
      BY <2>3, <3>2
    <3>4. f[(m + 1) + 1] = f[m + 1] \o s[(m + 1) + 1]
      BY <2>1, <3>2
    <3> QED BY <3>2, <3>3, <3>4
  <2>4. Len(s) - 1 \in W
    <3> HIDE DEF W
    <3> QED BY <1>0, <1>2, <2>2, <2>3, Induct
  <2> QED BY <1>0, <1>2, <2>1, <2>4
<1> QED BY <1>1, <1>2
================================================================================
