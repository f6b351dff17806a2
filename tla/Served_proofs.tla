---------------------------- MODULE Served_proofs ----------------------------
(***************************************************************************)
(* What a client is served, proved for every number of requests, of pieces *)
(* of a page, of copies and of turns of the panel's knobs, whatever the    *)
(* qualities are set to.                                                   *)
(***************************************************************************)
EXTENDS Served, SequenceTheorems, TLAPS

-----------------------------------------------------------------------------
(* The pieces of a page. *)

(* Those after the a-th, up to the b-th. *)
Run(a, b) == [i \in 1 .. b - a |-> a + i]

LEMMA RunShape ==
    ASSUME NEW a \in Nat, NEW b \in Nat, a <= b
    PROVE  /\ Run(a, b) \in Seq(Nat)
           /\ Len(Run(a, b)) = b - a
           /\ \A i \in 1 .. b - a : Run(a, b)[i] = a + i
<1> DEFINE n == b - a
           r == Run(a, b)
<1>1. n \in Nat
  OBVIOUS
<1>2. \A i \in 1 .. n : a + i \in Nat
  BY <1>1
<1>3. r = [i \in 1 .. n |-> a + i]
  BY DEF Run
<1> HIDE DEF n, r
<1>4. r \in [1 .. n -> Nat] /\ DOMAIN r = 1 .. n /\ \A i \in 1 .. n : r[i] = a + i
  BY <1>2, <1>3
<1>5. r \in Seq(Nat)
  BY <1>1, <1>4, SeqDef
<1>6. Len(r) = n
  BY <1>1, <1>4, <1>5
<1>7. QED
  BY <1>4, <1>5, <1>6 DEF n, r

LEMMA RunOfNone ==
    ASSUME NEW a \in Nat
    PROVE  Run(a, a) = <<>>
<1>1. Run(a, a) \in Seq(Nat) /\ Len(Run(a, a)) = a - a
  BY RunShape
<1>2. Len(Run(a, a)) = 0
  BY <1>1
<1>3. QED
  BY <1>1, <1>2

LEMMA RunOfOne ==
    ASSUME NEW a \in Nat
    PROVE  <<a + 1>> = Run(a, a + 1)
<1>1. /\ Run(a, a + 1) \in Seq(Nat) /\ Len(Run(a, a + 1)) = (a + 1) - a
      /\ \A i \in 1 .. (a + 1) - a : Run(a, a + 1)[i] = a + i
  <2>1. a + 1 \in Nat /\ a <= a + 1
    OBVIOUS
  <2>2. QED
    BY <2>1, RunShape
<1>2. Len(Run(a, a + 1)) = 1 /\ Run(a, a + 1)[1] = a + 1
  BY <1>1
<1>3. <<a + 1>> \in Seq(Nat) /\ Len(<<a + 1>>) = 1 /\ <<a + 1>>[1] = a + 1
  OBVIOUS
<1>4. \A i \in 1 .. 1 : <<a + 1>>[i] = Run(a, a + 1)[i]
  BY <1>2, <1>3
<1> HIDE DEF Run
<1>5. QED
  BY <1>1, <1>2, <1>3, <1>4, SeqEqual

LEMMA RunsJoin ==
    ASSUME NEW a \in Nat, NEW b \in Nat, NEW c \in Nat, a <= b, b <= c
    PROVE  Run(a, b) \o Run(b, c) = Run(a, c)
<1> DEFINE p == Run(a, b)
           q == Run(b, c)
           r == Run(a, c)
<1>1. /\ p \in Seq(Nat) /\ Len(p) = b - a /\ \A i \in 1 .. b - a : p[i] = a + i
      /\ q \in Seq(Nat) /\ Len(q) = c - b /\ \A i \in 1 .. c - b : q[i] = b + i
  BY RunShape
<1>2. r \in Seq(Nat) /\ Len(r) = c - a /\ \A i \in 1 .. c - a : r[i] = a + i
  <2>1. a <= c
    OBVIOUS
  <2>2. QED
    BY <2>1, RunShape
<1> HIDE DEF p, q, r
<1>3. /\ p \o q \in Seq(Nat) /\ Len(p \o q) = Len(p) + Len(q)
      /\ \A i \in 1 .. Len(p) + Len(q) : (p \o q)[i] = IF i <= Len(p) THEN p[i] ELSE q[i - Len(p)]
  BY <1>1, ConcatProperties
<1>4. Len(p \o q) = Len(r)
  BY <1>1, <1>2, <1>3
<1>5. ASSUME NEW i \in 1 .. Len(r) PROVE (p \o q)[i] = r[i]
  <2>1. i \in 1 .. c - a /\ r[i] = a + i /\ i \in 1 .. Len(p) + Len(q)
    BY <1>1, <1>2
  <2>2. CASE i <= b - a
    BY <1>1, <1>3, <2>1, <2>2
  <2>3. CASE ~(i <= b - a)
    <3>1. i - (b - a) \in 1 .. c - b /\ b + (i - (b - a)) = a + i
      BY <2>1, <2>3
    <3>2. (p \o q)[i] = q[i - (b - a)]
      BY <1>1, <1>3, <2>1, <2>3
    <3>3. QED
      BY <1>1, <2>1, <3>1, <3>2
  <2>4. QED
    BY <2>2, <2>3
<1>6. p \o q = r
  BY <1>2, <1>3, <1>4, <1>5, SeqEqual
<1>7. QED
  BY <1>6 DEF p, q, r

(* A run that is cut has a run before the cut and one after it. *)
LEMMA RunIsCut ==
    ASSUME NEW a \in Nat, NEW b \in Nat, a <= b, NEW n \in 0 .. b - a
    PROVE  /\ SubSeq(Run(a, b), 1, n) = Run(a, a + n)
           /\ SubSeq(Run(a, b), n + 1, Len(Run(a, b))) = Run(a + n, b)
<1> DEFINE r == Run(a, b)
<1>1. r \in Seq(Nat) /\ Len(r) = b - a /\ \A i \in 1 .. b - a : r[i] = a + i
  BY RunShape
<1> HIDE DEF r
<1>2. \A i \in 1 .. b - a : r[i] \in Nat
  BY <1>1
<1>3. SubSeq(r, 1, n) = Run(a, a + n)
  <2> DEFINE m == a + n
             s == SubSeq(r, 1, n)
             t == Run(a, m)
  <2>1. m \in Nat /\ a <= m /\ m - a = n
    OBVIOUS
  <2>2. t \in Seq(Nat) /\ Len(t) = n /\ \A i \in 1 .. n : t[i] = a + i
    BY <2>1, RunShape
  <2>3. \A i \in 1 .. n : r[i] \in Nat
    BY <1>2
  <2>4. /\ s \in Seq(Nat) /\ Len(s) = (IF 1 <= n THEN n - 1 + 1 ELSE 0)
        /\ \A i \in 1 .. n - 1 + 1 : s[i] = r[1 + i - 1]
    BY <2>3, SubSeqProperties
  <2> HIDE DEF s, t, m
  <2>5. Len(s) = n /\ \A i \in 1 .. n : s[i] = r[i]
    BY <2>4
  <2>6. ASSUME NEW i \in 1 .. n PROVE s[i] = t[i]
    <3>1. i \in 1 .. b - a
      OBVIOUS
    <3>2. QED
      BY <1>1, <2>2, <2>5, <3>1
  <2>7. s = t
    BY <2>2, <2>4, <2>5, <2>6, SeqEqual
  <2>8. QED
    BY <2>7 DEF s, t, m
<1>4. SubSeq(r, n + 1, Len(r)) = Run(a + n, b)
  <2> DEFINE m == a + n
             k == n + 1
             s == SubSeq(r, k, Len(r))
             t == Run(m, b)
  <2>1. m \in Nat /\ m <= b /\ k \in Int /\ Len(r) \in Int
    BY <1>1
  <2>2. t \in Seq(Nat) /\ Len(t) = b - m /\ \A i \in 1 .. b - m : t[i] = m + i
    BY <2>1, RunShape
  <2>3. \A i \in k .. Len(r) : r[i] \in Nat
    BY <1>1, <1>2
  <2>4. /\ s \in Seq(Nat) /\ Len(s) = (IF k <= Len(r) THEN Len(r) - k + 1 ELSE 0)
        /\ \A i \in 1 .. Len(r) - k + 1 : s[i] = r[k + i - 1]
    BY <2>1, <2>3, SubSeqProperties
  <2> HIDE DEF s, t
  <2>5. Len(s) = b - m
    BY <1>1, <2>1, <2>4
  <2>6. ASSUME NEW i \in 1 .. b - m PROVE s[i] = t[i]
    <3>1. i \in 1 .. Len(r) - k + 1 /\ k + i - 1 \in 1 .. b - a /\ a + (k + i - 1) = m + i
      BY <1>1
    <3> HIDE DEF m, k
    <3>2. s[i] = r[k + i - 1]
      BY <2>4, <3>1
    <3>3. r[k + i - 1] = a + (k + i - 1)
      BY <1>1, <3>1
    <3>4. QED
      BY <2>2, <3>1, <3>2, <3>3
  <2> HIDE DEF m, k
  <2>7. s = t
    BY <2>2, <2>4, <2>5, <2>6, SeqEqual
  <2>8. QED
    BY <2>7 DEF s, t, m, k
<1>5. QED
  BY <1>3, <1>4 DEF r

-----------------------------------------------------------------------------
(* The streamer. *)

(* What it made of the first n pieces.  It may have let some go, and then,
   where it gave up, others that came after them. *)
Made(by, sent, n) ==
    \E m, k, l \in 0 .. n :
        /\ m <= k /\ k <= l
        /\ sent = Run(0, m) \o Run(k, l)
        /\ by.state = "rewriting" => k = l /\ by.held = Run(m, n)
        /\ by.state = "passing" => k < l /\ l = n

LEMMA RunsAssociate ==
    \A p, q, r \in Seq(Nat) : (p \o q) \o r = p \o (q \o r)
  BY ConcatAssociative, SMTT(30)

LEMMA MadeAtFirst ==
    ASSUME NEW by \in Streamers, by.state = "rewriting", by.held = <<>>
    PROVE  Made(by, <<>>, 0)
<1>1. Run(0, 0) = <<>>
  BY RunOfNone
<1>2. <<>> \o <<>> = <<>>
  OBVIOUS
<1>3. 0 \in 0 .. 0 /\ 0 <= 0
  OBVIOUS
<1>4. <<>> = Run(0, 0) \o Run(0, 0)
  BY <1>1, <1>2
<1>5. QED
  BY <1>1, <1>3, <1>4 DEF Made

(* Run(0, m) and nothing more. *)
LEMMA RunAlone ==
    ASSUME NEW m \in Nat, NEW k \in Nat
    PROVE  Run(0, m) \o Run(k, k) = Run(0, m)
<1>1. Run(k, k) = <<>>
  BY RunOfNone
<1>2. Run(0, m) \in Seq(Nat)
  BY RunShape
<1>3. QED
  BY <1>1, <1>2, ConcatEmptySeq

(* A push keeps to that: push() of inject.rs. *)
LEMMA PushKeeps ==
    ASSUME NEW by \in Streamers, NEW sent, NEW n \in Nat, NEW x \in Nat, n < x, NEW sound \in BOOLEAN,
           Made(by, sent, n), NEW p \in Pushes(by, Run(n, x), sound)
    PROVE  p.now \in Streamers /\ Made(p.now, sent \o p.out, x)
<1>1. PICK m \in 0 .. n, k \in 0 .. n, l \in 0 .. n :
        /\ m <= k /\ k <= l
        /\ sent = Run(0, m) \o Run(k, l)
        /\ by.state = "rewriting" => k = l /\ by.held = Run(m, n)
        /\ by.state = "passing" => k < l /\ l = n
  BY DEF Made
<1>2. /\ m \in 0 .. x /\ k \in 0 .. x /\ l \in 0 .. x /\ n \in 0 .. x /\ x \in 0 .. x
      /\ m \in Nat /\ k \in Nat /\ l \in Nat /\ n <= x /\ m <= n /\ 0 \in Nat /\ 0 <= m
  OBVIOUS
<1>3. sent \in Seq(Nat) /\ Run(0, m) \in Seq(Nat) /\ Run(k, l) \in Seq(Nat) /\ Run(n, x) \in Seq(Nat)
  <2>1. Run(0, m) \in Seq(Nat) /\ Run(k, l) \in Seq(Nat) /\ Run(n, x) \in Seq(Nat)
    BY <1>1, <1>2, RunShape
  <2>2. QED
    BY <1>1, <2>1, ConcatProperties
<1>4. ASSUME p.now \in Streamers, p.now.state = "stopped", p.out = <<>>
      PROVE  p.now \in Streamers /\ Made(p.now, sent \o p.out, x)
  <2>1. sent \o p.out = sent
    BY <1>3, <1>4, ConcatEmptySeq
  <2>2. Made(p.now, sent, x)
    BY <1>1, <1>2, <1>4 DEF Made
  <2>3. QED
    BY <1>4, <2>1, <2>2
<1>5. CASE by.state = "stopped"
  BY <1>4, <1>5 DEF Pushes
<1>6. CASE by.state # "stopped" /\ p = Garbled(by)
  <2>1. p.now = [by EXCEPT !.state = "stopped"] /\ p.out = <<>>
    BY <1>6 DEF Garbled
  <2>2. p.now \in Streamers /\ p.now.state = "stopped"
    BY <2>1 DEF Streamers
  <2>3. QED
    BY <1>4, <2>1, <2>2
<1>7. CASE by.state = "passing" /\ p = [now |-> by, out |-> Run(n, x)]
  <2>1. (Run(0, m) \o Run(k, l)) \o Run(n, x) = Run(0, m) \o (Run(k, l) \o Run(n, x))
    BY <1>3, RunsAssociate
  <2>2. Run(k, l) \o Run(n, x) = Run(k, x)
    <3>1. k <= n /\ l = n
      BY <1>1, <1>7
    <3>2. Run(k, n) \o Run(n, x) = Run(k, x)
      BY <1>2, <3>1, RunsJoin
    <3>3. QED
      BY <3>1, <3>2
  <2>3. sent \o p.out = Run(0, m) \o Run(k, x)
    BY <1>1, <1>7, <2>1, <2>2
  <2>4. k < x /\ k <= x
    BY <1>1, <1>7
  <2>5. QED
    BY <1>1, <1>2, <1>7, <2>3, <2>4 DEF Made
<1>8. CASE by.state = "rewriting" /\ p \in Refused(by, Run(n, x))
  <2>1. p.now = [by EXCEPT !.state = "passing", !.held = <<>>] /\ p.out = Run(n, x)
    BY <1>8 DEF Refused
  <2>2. p.now \in Streamers /\ p.now.state = "passing"
    <3>1. <<>> \in Seq(Nat)
      OBVIOUS
    <3>2. QED
      BY <2>1, <3>1 DEF Streamers
  <2>3. sent = Run(0, m)
    BY <1>1, <1>2, <1>8, RunAlone
  <2>4. QED
    BY <1>2, <2>1, <2>2, <2>3 DEF Made
<1>9. CASE by.state = "rewriting" /\ p \in Rewritten(by, Run(n, x))
  <2> DEFINE whole == by.held \o Run(n, x)
  <2>1. PICK j \in 0 .. Len(whole) :
            p = [now |-> [by EXCEPT !.held = SubSeq(whole, j + 1, Len(whole))],
                 out |-> SubSeq(whole, 1, j)]
    BY <1>9 DEF Rewritten
  <2>2. whole = Run(m, x)
    <3>1. Run(m, n) \o Run(n, x) = Run(m, x)
      BY <1>2, RunsJoin
    <3>2. by.held = Run(m, n)
      BY <1>1, <1>9
    <3>3. QED
      BY <3>1, <3>2
  <2>3. Len(whole) = x - m /\ m <= x
    BY <1>2, <2>2, RunShape
  <2> HIDE DEF whole
  <2>4. j \in 0 .. x - m
    BY <2>1, <2>3
  <2>5. p.out = Run(m, m + j) /\ SubSeq(whole, j + 1, Len(whole)) = Run(m + j, x)
    BY <1>2, <2>1, <2>2, <2>3, <2>4, RunIsCut
  <2>6. p.now = [by EXCEPT !.held = Run(m + j, x)]
    BY <2>1, <2>5
  <2> DEFINE y == m + j
  <2>7. y \in Nat /\ y \in 0 .. x /\ m <= y /\ y <= x
    BY <1>2, <2>4
  <2> HIDE DEF y
  <2>8. Run(y, x) \in Seq(Nat)
    BY <2>7, RunShape
  <2>9. p.now \in Streamers /\ p.now.state = "rewriting" /\ p.now.held = Run(y, x)
    BY <1>9, <2>6, <2>8 DEF Streamers, y
  <2>10. sent = Run(0, m)
    BY <1>1, <1>2, <1>9, RunAlone
  <2>11. sent \o p.out = Run(0, y)
    <3>1. Run(0, m) \o Run(m, y) = Run(0, y)
      BY <1>2, <2>7, RunsJoin
    <3>2. p.out = Run(m, y)
      BY <2>5 DEF y
    <3>3. QED
      BY <2>10, <3>1, <3>2
  <2>12. sent \o p.out = Run(0, y) \o Run(y, y)
    BY <2>7, <2>11, RunAlone
  <2>13. Made(p.now, sent \o p.out, x)
    <3>1. y \in 0 .. x /\ y <= y /\ y = y
      BY <2>7
    <3>2. p.now.state # "passing"
      BY <2>9
    <3>3. QED
      BY <2>9, <2>12, <3>1, <3>2 DEF Made
  <2>14. QED
    BY <2>9, <2>13
<1>10. by.state \in {"rewriting", "passing", "stopped"}
  BY DEF Streamers
<1>11. QED
  BY <1>5, <1>6, <1>7, <1>8, <1>9, <1>10 DEF Pushes

(* And lets out nothing but numbers of pieces. *)
LEMMA PushesSend ==
    ASSUME NEW by \in Streamers, NEW n \in Nat, NEW x \in Nat, n < x, NEW sound \in BOOLEAN,
           NEW p \in Pushes(by, Run(n, x), sound)
    PROVE  p.out \in Seq(Nat)
<1>1. Run(n, x) \in Seq(Nat) /\ <<>> \in Seq(Nat) /\ by.held \in Seq(Nat)
  <2>1. n <= x
    OBVIOUS
  <2>2. QED
    BY <2>1, RunShape DEF Streamers
<1>2. CASE p.out \in {<<>>, Run(n, x)}
  BY <1>1, <1>2
<1>3. CASE p \in Rewritten(by, Run(n, x))
  <2> DEFINE whole == by.held \o Run(n, x)
  <2>1. whole \in Seq(Nat)
    BY <1>1, ConcatProperties
  <2>2. PICK j \in 0 .. Len(whole) :
            p = [now |-> [by EXCEPT !.held = SubSeq(whole, j + 1, Len(whole))],
                 out |-> SubSeq(whole, 1, j)]
    BY <1>3 DEF Rewritten
  <2> HIDE DEF whole
  <2>3. \A i \in 1 .. j : whole[i] \in Nat
    BY <2>1
  <2>4. SubSeq(whole, 1, j) \in Seq(Nat)
    BY <2>3, SubSeqProperties
  <2>5. QED
    BY <2>2, <2>4
<1>4. QED
  BY <1>2, <1>3 DEF Pushes, Garbled, Refused

(* What the page comes to, once the parser was asked for what it held. *)
LEMMA MadeIsInOrder ==
    ASSUME NEW by \in Streamers, NEW sent, NEW n \in Nat, Made(by, sent, n)
    PROVE  LET all == sent \o Flushed(by)
               lost == (1 .. n) \ Range(all)
           IN  /\ Increasing(all)
               /\ by.state = "rewriting" => lost = {}
               /\ by.state = "passing" =>
                    /\ n > 0 => n \in Range(all)
                    /\ \A a, b \in lost : \A i \in a .. b : i \in lost
<1> DEFINE all == sent \o Flushed(by)
           lost == (1 .. n) \ Range(all)
<1>1. PICK m \in 0 .. n, k \in 0 .. n, l \in 0 .. n :
        /\ m <= k /\ k <= l
        /\ sent = Run(0, m) \o Run(k, l)
        /\ by.state = "rewriting" => k = l /\ by.held = Run(m, n)
        /\ by.state = "passing" => k < l /\ l = n
  BY DEF Made
<1>2. m \in Nat /\ k \in Nat /\ l \in Nat /\ l <= n /\ m <= n /\ 0 \in Nat /\ 0 <= m
  OBVIOUS
<1>3. by.state = "rewriting" => all = Run(0, n) \o Run(n, n)
  <2> SUFFICES ASSUME by.state = "rewriting" PROVE all = Run(0, n) \o Run(n, n)
    OBVIOUS
  <2>1. sent = Run(0, m) /\ Flushed(by) = Run(m, n)
    BY <1>1, <1>2, RunAlone DEF Flushed
  <2>2. Run(0, m) \o Run(m, n) = Run(0, n)
    BY <1>2, RunsJoin
  <2>3. Run(0, n) = Run(0, n) \o Run(n, n)
    BY RunAlone
  <2>4. QED
    BY <2>1, <2>2, <2>3
<1>4. by.state # "rewriting" => all = Run(0, m) \o Run(k, l)
  <2> SUFFICES ASSUME by.state # "rewriting" PROVE all = Run(0, m) \o Run(k, l)
    OBVIOUS
  <2>1. Run(0, m) \in Seq(Nat) /\ Run(k, l) \in Seq(Nat)
    BY <1>1, <1>2, RunShape
  <2>2. sent \in Seq(Nat)
    BY <1>1, <2>1, ConcatProperties
  <2>3. Flushed(by) = <<>>
    BY DEF Flushed
  <2>4. QED
    BY <1>1, <2>2, <2>3, ConcatEmptySeq
<1> HIDE DEF all
<1>5. PICK u \in Nat, v \in Nat, w \in Nat :
        /\ u <= v /\ v <= w /\ w <= n /\ all = Run(0, u) \o Run(v, w)
        /\ by.state = "rewriting" => u = n
        /\ by.state = "passing" => v < w /\ w = n
  <2>1. CASE by.state = "rewriting"
    <3>1. n <= n
      OBVIOUS
    <3>2. QED
      BY <1>3, <2>1, <3>1
  <2>2. CASE by.state # "rewriting"
    BY <1>1, <1>2, <1>4, <2>2
  <2>3. QED
    BY <2>1, <2>2
<1>6. /\ DOMAIN all = 1 .. u + (w - v)
      /\ \A i \in 1 .. u + (w - v) : all[i] = IF i <= u THEN i ELSE v + (i - u)
  <2> DEFINE p == Run(0, u)
             q == Run(v, w)
  <2>1. /\ p \in Seq(Nat) /\ Len(p) = u - 0 /\ \A i \in 1 .. u - 0 : p[i] = 0 + i
        /\ q \in Seq(Nat) /\ Len(q) = w - v /\ \A i \in 1 .. w - v : q[i] = v + i
    <3>1. 0 <= u /\ 0 \in Nat
      OBVIOUS
    <3>2. QED
      BY <1>5, <3>1, RunShape
  <2> HIDE DEF p, q
  <2>2. /\ p \o q \in Seq(Nat) /\ Len(p \o q) = Len(p) + Len(q)
        /\ \A i \in 1 .. Len(p) + Len(q) : (p \o q)[i] = IF i <= Len(p) THEN p[i] ELSE q[i - Len(p)]
    BY <2>1, ConcatProperties
  <2>3. all = p \o q
    BY <1>5 DEF p, q
  <2>4. all \in Seq(Nat) /\ Len(all) = u + (w - v)
    BY <2>1, <2>2, <2>3
  <2>5. ASSUME NEW i \in 1 .. u + (w - v)
        PROVE  all[i] = IF i <= u THEN i ELSE v + (i - u)
    <3>1. all[i] = IF i <= u THEN p[i] ELSE q[i - u]
      <4>1. Len(p) = u /\ Len(q) = w - v /\ u - 0 = u
        BY <2>1
      <4>2. QED
        BY <2>2, <2>3, <4>1
    <3>2. i <= u => p[i] = i
      BY <2>1
    <3>3. ~(i <= u) => i - u \in 1 .. w - v
      OBVIOUS
    <3>4. QED
      BY <2>1, <3>1, <3>2, <3>3
  <2>6. DOMAIN all = 1 .. Len(all)
    BY <2>4
  <2>7. QED
    BY <2>4, <2>5, <2>6
<1>7. Increasing(all)
  <2> SUFFICES ASSUME NEW i \in 1 .. u + (w - v), NEW j \in 1 .. u + (w - v), i < j
               PROVE  all[i] < all[j]
    BY <1>6 DEF Increasing
  <2>1. /\ all[i] = IF i <= u THEN i ELSE v + (i - u)
        /\ all[j] = IF j <= u THEN j ELSE v + (j - u)
    BY <1>6
  <2>2. i \in Nat /\ j \in Nat
    OBVIOUS
  <2>3. CASE i <= u /\ ~(j <= u)
    <3>1. all[i] = i /\ all[j] = v + (j - u)
      BY <2>1, <2>3
    <3>2. i < v + (j - u)
      BY <1>5, <2>2, <2>3
    <3>3. QED
      BY <3>1, <3>2
  <2>4. CASE i <= u /\ j <= u
    BY <2>1, <2>4
  <2>5. CASE ~(i <= u)
    <3>1. all[i] = v + (i - u) /\ all[j] = v + (j - u)
      BY <2>1, <2>2, <2>5
    <3>2. v + (i - u) < v + (j - u)
      BY <2>2
    <3>3. QED
      BY <3>1, <3>2
  <2>6. QED
    BY <2>3, <2>4, <2>5
<1>8. \A b : b \in Range(all) <=> b \in 1 .. u \/ b \in v + 1 .. w
  <2>1. ASSUME NEW b, b \in Range(all) PROVE b \in 1 .. u \/ b \in v + 1 .. w
    <3>1. PICK i \in 1 .. u + (w - v) : b = all[i]
      BY <1>6, <2>1 DEF Range
    <3>2. b = IF i <= u THEN i ELSE v + (i - u)
      BY <1>6, <3>1
    <3>3. QED
      BY <1>5, <3>2
  <2>2. ASSUME NEW b \in 1 .. u PROVE b \in Range(all)
    <3>1. b \in 1 .. u + (w - v) /\ b <= u
      BY <1>5
    <3>2. all[b] = b
      BY <1>6, <3>1
    <3>3. QED
      BY <1>6, <3>1, <3>2 DEF Range
  <2>3. ASSUME NEW b \in v + 1 .. w PROVE b \in Range(all)
    <3>1. u + (b - v) \in 1 .. u + (w - v) /\ ~(u + (b - v) <= u) /\ v + ((u + (b - v)) - u) = b
      BY <1>5
    <3>2. all[u + (b - v)] = b
      BY <1>6, <3>1
    <3>3. QED
      BY <1>6, <3>1, <3>2 DEF Range
  <2>4. QED
    BY <2>1, <2>2, <2>3
<1>9. by.state = "rewriting" => lost = {}
  BY <1>5, <1>8
<1>10. ASSUME by.state = "passing"
       PROVE  /\ n \in Range(all)
              /\ \A a, b \in lost : \A i \in a .. b : i \in lost
  <2>1. v < n /\ w = n
    BY <1>5, <1>10
  <2>2. n \in Range(all)
    <3>1. n \in v + 1 .. w
      BY <2>1
    <3>2. QED
      BY <1>8, <3>1
  <2>3. \A b : b \in lost <=> b \in u + 1 .. v
    BY <1>5, <1>8, <2>1
  <2>4. \A a, b \in u + 1 .. v : \A i \in a .. b : i \in u + 1 .. v
    OBVIOUS
  <2> HIDE DEF lost
  <2>5. QED
    BY <2>2, <2>3, <2>4
<1>11. QED
  BY <1>7, <1>9, <1>10 DEF all

-----------------------------------------------------------------------------
(* What a picture is served as. *)

Qualities == {"auto", "high", "low", "off", "none"}

TierNames == {"full", "reduced", "grey", "placeholder", "nothing"}

Forms == {"colour", "grey", "placeholder"}

Servings == {Serving(q, t) : q \in Qualities, t \in TierNames}

LEMMA TiersNamed ==
    /\ {Tiers[i] : i \in DOMAIN Tiers} = TierNames
    /\ Settings \subseteq Qualities
  BY ImagesAssumption DEF Tiers, TierNames, Qualities

LEMMA ServingShape ==
    ASSUME NEW s \in Servings
    PROVE  \/ s = Untouched
           \/ s = Nothing
           \/ s.as = "encoded" /\ s = Convert(s.quality, s.form) /\ s.form \in Forms
<1>1. PICK q \in Qualities, t \in TierNames : s = Serving(q, t)
  BY DEF Servings
<1>2. \/ s = Untouched
      \/ s = Nothing
      \/ \E n : \E f \in Forms : s = Convert(n, f)
  BY <1>1 DEF Serving, TierNames, Forms
<1>3. ASSUME NEW n, NEW f \in Forms, s = Convert(n, f)
      PROVE  s.as = "encoded" /\ s = Convert(s.quality, s.form) /\ s.form \in Forms
  BY <1>3 DEF Convert
<1>4. QED
  BY <1>2, <1>3

Encodings == {s \in Servings : s.as = "encoded"}

CodingNames == {"br", "gzip", Identity, Unknown}

Kinds ==
    [is : {"none", "original", "pixel", "failure", "tagged", "streamed"}]
    \cup {Copy(s) : s \in Encodings}

Numbers == {0, 1}
Types == {"none", "jpeg", "svg", "html", "text", "gif", "webp"}
Statuses == {0, 200, 502}
Keepings == {"as origin", "no-store"}
Flags == BOOLEAN

Responses ==
    [id : Numbers, type : Types, status : Statuses, declared : CodingNames, under : CodingNames,
     what : Kinds, kept : Keepings, long : Flags, large : Flags, shrinks : Flags,
     sound : Flags, picture : Flags]

Original == [is |-> "original"]

(* What the origin answered, to a request that accepts these codings. *)
FromOrigin(r, accepts) ==
    /\ r \in Responses
    /\ r.what = Original /\ r.kept = "as origin" /\ r.status = 200
    /\ r.declared = r.under /\ r.declared \in accepts \cup {Identity, Unknown}
    /\ r.type = subject.type
    /\ r.shrinks => r.picture

(* Each copy is what its key says. *)
AsKeyed(cs) ==
    \A c \in cs : \E id \in {0, 1}, s \in Encodings :
        c = [key |-> <<id, s.quality, s.form>>, holds |-> Copy(s)]

CopyInv == AsKeyed(copies)

LEMMA KindsNamed ==
    /\ Original \in Kinds /\ Pixel \in Kinds
    /\ \A k \in {"none", "failure", "tagged", "streamed"} : [is |-> k] \in Kinds
    /\ Original.is = "original" /\ Pixel.is = "pixel"
    /\ \A s \in Encodings : Copy(s) \in Kinds /\ Copy(s).is = "copy"
  BY DEF Kinds, Original, Pixel, Copy

LEMMA PartsNamed ==
    /\ {0, 1} \subseteq Numbers /\ {0, 200, 502} \subseteq Statuses
    /\ {"none", "jpeg", "svg", "html", "text", "gif", "webp"} \subseteq Types
    /\ {"as origin", "no-store"} \subseteq Keepings
    /\ {TRUE, FALSE} \subseteq Flags
    /\ {Identity, Unknown} \subseteq CodingNames
  BY DEF Numbers, Types, Statuses, Keepings, Flags, CodingNames

LEMMA BlankShape ==
    /\ Blank \in Responses /\ [is |-> "none"] \in Kinds
    /\ Blank.declared = Identity /\ Blank.under = Identity /\ Blank.what = [is |-> "none"]
<1>1. [is |-> "none"] \in Kinds
  BY KindsNamed
<1>2. /\ 0 \in Numbers /\ 0 \in Statuses /\ "none" \in Types /\ "as origin" \in Keepings
      /\ Identity \in CodingNames /\ TRUE \in Flags /\ FALSE \in Flags
  BY PartsNamed
<1>3. QED
  BY <1>1, <1>2 DEF Blank, Responses

LEMMA BestTaken ==
    ASSUME NEW accepts \in SUBSET Codes
    PROVE  Best(accepts) \in accepts \cup {Identity} /\ Best(accepts) \in CodingNames
<1> DEFINE taken == {i \in DOMAIN Supported : Supported[i] \in accepts}
<1>1. DOMAIN Supported = {1, 2} /\ Supported[1] = "br" /\ Supported[2] = "gzip"
  BY DEF Supported
<1>2. CASE taken = {}
  BY <1>2 DEF Best, CodingNames
<1>3. CASE taken # {}
  <2>1. \E i \in taken : \A j \in taken : i <= j
    BY <1>1, <1>3
  <2>2. (CHOOSE i \in taken : \A j \in taken : i <= j) \in taken
    BY <2>1
  <2>3. Best(accepts) = Supported[CHOOSE i \in taken : \A j \in taken : i <= j]
    BY <1>3 DEF Best
  <2>4. QED
    BY <1>1, <2>2, <2>3 DEF CodingNames
<1>4. QED
  BY <1>2, <1>3

LEMMA KnownCodings ==
    /\ \A c : Known(c) <=> c \in Codes
    /\ ~Known(Identity) /\ ~Known(Unknown) /\ Identity # Unknown
<1>1. DOMAIN Supported = {1, 2} /\ Supported[1] = "br" /\ Supported[2] = "gzip"
  BY DEF Supported
<1>2. QED
  BY <1>1 DEF Known, Codes, Identity, Unknown

(* A copy that is found, or made, is what is served now. *)
LEMMA CopiesAreCurrent ==
    ASSUME CopyInv, NEW s \in Encodings, NEW r \in Responses, NEW c \in Copies(r, s)
    PROVE  c.copy = Copy(s) /\ \A d \in c.copies : d \in copies \/ d = [key |-> Key(r, s), holds |-> Copy(s)]
<1>1. CASE Hits(r, s) # {}
  <2>1. PICK d \in copies : d.key = <<r.id, s.quality, s.form>> /\ c = [copy |-> d.holds, copies |-> copies]
    BY <1>1 DEF Copies, Hits, Key
  <2>2. PICK id \in {0, 1}, u \in Encodings : d = [key |-> <<id, u.quality, u.form>>, holds |-> Copy(u)]
    BY <2>1 DEF CopyInv, AsKeyed
  <2>3. u.quality = s.quality /\ u.form = s.form
    BY <2>1, <2>2
  <2>4. d.holds = Copy(s)
    BY <2>2, <2>3 DEF Copy
  <2>5. QED
    BY <2>1, <2>4
<1>2. CASE Hits(r, s) = {}
  <2>1. PICK left \in Put(r, s) : c = [copy |-> Copy(s), copies |-> left]
    BY <1>2 DEF Copies
  <2>2. left \subseteq copies \cup {[key |-> Key(r, s), holds |-> Copy(s)]}
    BY <2>1 DEF Put
  <2>3. QED
    BY <2>1, <2>2
<1>3. QED
  BY <1>1, <1>2

-----------------------------------------------------------------------------
(* The inductive invariant. *)

TypeInv ==
    /\ quality \in Qualities /\ tier \in TierNames
    /\ subject \in Subjects /\ req \in Requests
    /\ origin \in [ends : {"whole", "toobig", "breaks"}, eligible : BOOLEAN]
    /\ resp \in Responses
    /\ seen \subseteq Qualities \X TierNames

(* An entry of the http cache is an answer of the origin, whole, to a request
   that took the codings that it is keyed on. *)
StoredInv ==
    stored # NoEntry =>
        /\ stored.ends = "whole"
        /\ FromOrigin(stored.resp, stored.key[1])

PageStreams ==
    [by : Streamers, out : CodingNames, read : Nat, kept : Seq(Nat), sent : Seq(Nat),
     codings : SUBSET CodingNames, closed : BOOLEAN]

(* A page on its way: what a plugin holds back are the last of the pieces that
   were read, the streamer had the others. *)
PageInv ==
    /\ resp.type = "html" /\ subject.type = "html" /\ resp.kept = "as origin"
    /\ resp.declared \in req.accepts \cup {Identity, Unknown}
    /\ stream \in PageStreams
    /\ stream.out = resp.declared /\ stream.codings \subseteq {resp.declared}
    /\ \E n \in 0 .. stream.read :
        stream.kept = Run(n, stream.read) /\ Made(stream.by, stream.sent, n)

(* Until it is rewritten, the response is the origin's. *)
RespInv ==
    /\ pc \in {"answered", "holding", "whole", "relaying"} => FromOrigin(resp, req.accepts)
    /\ pc = "reading" =>
        IF resp.what.is = "streamed" THEN PageInv ELSE FromOrigin(resp, req.accepts)

Allowed == {Serving(s[1], s[2]) : s \in seen}

(* What is asked for now is among what was. *)
SeenInv == pc \notin {"idle", "done"} => <<quality, tier>> \in seen

(* A picture that goes past untouched may. *)
PassInv ==
    pc \in {"relaying", "reading"} /\ subject.about = "picture" =>
        \/ Untouched \in Allowed
        \/ ~Claims(req, resp) /\ \E s \in Allowed : s.as = "encoded"
        \/ origin.ends = "toobig"

IInv ==
    /\ TypeInv /\ CopyInv /\ StoredInv /\ RespInv /\ SeenInv /\ PassInv
    /\ CodingIsAsDeclared /\ ServedAsAllowed /\ KeptIsTheOrigins /\ PageIsInOrder

-----------------------------------------------------------------------------
(* What becomes of an answer on its way through the chain. *)

LEMMA PicturesAreNoPages ==
    ASSUME NEW s \in Subjects
    PROVE  /\ s.type \in {"jpeg", "svg", "html", "text"}
           /\ s.about = "picture" => s.type \in {"jpeg", "svg"}
  BY DEF Subjects

LEMMA UnderShape ==
    ASSUME NEW r \in Responses, NEW c \in CodingNames
    PROVE  /\ Under(r, c) \in Responses
           /\ Under(r, c).declared = c /\ Under(r, c).under = c
           /\ Under(r, c).what = r.what /\ Under(r, c).type = r.type
           /\ Under(r, c).status = r.status /\ Under(r, c).kept = r.kept
           /\ Under(r, c).long = r.long /\ Under(r, c).large = r.large
           /\ Under(r, c).shrinks = r.shrinks /\ Under(r, c).sound = r.sound
           /\ Under(r, c).picture = r.picture
  BY DEF Under, Responses

Bodied(r, k) == [r EXCEPT !.what = k]

LEMMA BodiedShape ==
    ASSUME NEW r \in Responses, NEW k \in Kinds
    PROVE  /\ Bodied(r, k) \in Responses /\ Bodied(r, k).what = k
           /\ Bodied(r, k).declared = r.declared /\ Bodied(r, k).under = r.under
           /\ Bodied(r, k).type = r.type /\ Bodied(r, k).status = r.status
           /\ Bodied(r, k).kept = r.kept /\ Bodied(r, k).shrinks = r.shrinks
           /\ Bodied(r, k).sound = r.sound /\ Bodied(r, k).picture = r.picture
  BY DEF Bodied, Responses

Headed(r, c, k) == [r EXCEPT !.declared = c, !.what = k]

LEMMA HeadShape ==
    ASSUME NEW r \in Responses, NEW c \in CodingNames, NEW k \in Kinds
    PROVE  /\ Headed(r, c, k) \in Responses
           /\ Headed(r, c, k).declared = c /\ Headed(r, c, k).what = k
           /\ Headed(r, c, k).type = r.type /\ Headed(r, c, k).status = r.status
           /\ Headed(r, c, k).kept = r.kept
  BY DEF Headed, Responses

LEMMA NotKeptShape ==
    ASSUME NEW r \in Responses
    PROVE  /\ NotKept(r) \in Responses /\ NotKept(r).kept = "no-store"
           /\ NotKept(r).what = r.what
           /\ NotKept(r).declared = r.declared /\ NotKept(r).under = r.under
<1>1. "no-store" \in Keepings
  BY PartsNamed
<1>2. QED
  BY <1>1 DEF NotKept, Responses

Gif(n, k) == [n EXCEPT !.type = "gif", !.what = k]

Short(n) == [n EXCEPT !.long = FALSE]

LEMMA GifShape ==
    ASSUME NEW n \in Responses, NEW k \in Kinds
    PROVE  Gif(n, k) \in Responses /\ Gif(n, k).what = k /\ Gif(n, k).kept = n.kept
<1>1. "gif" \in Types
  BY PartsNamed
<1>2. QED
  BY <1>1 DEF Gif, Responses

LEMMA ShortShape ==
    ASSUME NEW n \in Responses
    PROVE  /\ Short(n) \in Responses /\ Short(n).what = n.what /\ Short(n).kept = n.kept
           /\ Short(n).declared = n.declared /\ Short(n).under = n.under
<1>1. FALSE \in Flags
  BY PartsNamed
<1>2. QED
  BY <1>1 DEF Short, Responses

Failed(r, n, t, k) == [r EXCEPT !.status = n, !.type = t, !.what = k]

LEMMA FailedShape ==
    ASSUME NEW r \in Responses, NEW n \in Statuses, NEW t \in Types, NEW k \in Kinds
    PROVE  /\ Failed(r, n, t, k) \in Responses
           /\ Failed(r, n, t, k).what = k /\ Failed(r, n, t, k).status = n
           /\ Failed(r, n, t, k).declared = r.declared /\ Failed(r, n, t, k).under = r.under
  BY DEF Failed, Responses

LEMMA FailureShape ==
    /\ Failure \in Responses /\ Failure.what = [is |-> "failure"] /\ Failure.status = 502
    /\ Failure.declared = Identity /\ Failure.under = Identity
<1>1. Failure = Failed(Blank, 502, "text", [is |-> "failure"])
  BY DEF Failure, Failed
<1>2. 502 \in Statuses /\ "text" \in Types /\ [is |-> "failure"] \in Kinds
  BY PartsNamed, KindsNamed
<1>3. QED
  BY <1>1, <1>2, BlankShape, FailedShape

LEMMA StrippedShape ==
    ASSUME NEW r \in Responses
    PROVE  /\ Stripped(r) \in Responses /\ Stripped(r).what = Pixel
           /\ Stripped(r).declared = Identity /\ Stripped(r).under = Identity
           /\ Stripped(r).kept = "no-store"
<1>1. NotKept(r) \in Responses /\ NotKept(r).kept = "no-store"
  BY NotKeptShape
<1>2. Stripped(r) = Short(Under(Gif(NotKept(r), Pixel), Identity))
  BY DEF Stripped, Short, Under, Gif
<1>3. Pixel \in Kinds /\ Identity \in CodingNames
  BY KindsNamed DEF CodingNames
<1>4. /\ Gif(NotKept(r), Pixel) \in Responses /\ Gif(NotKept(r), Pixel).what = Pixel
      /\ Gif(NotKept(r), Pixel).kept = "no-store"
  BY <1>1, <1>3, GifShape
<1> DEFINE u == Under(Gif(NotKept(r), Pixel), Identity)
<1>5. /\ u \in Responses /\ u.what = Pixel /\ u.kept = "no-store"
      /\ u.declared = Identity /\ u.under = Identity
  BY <1>3, <1>4, UnderShape
<1> HIDE DEF u
<1>6. Stripped(r) = Short(u)
  BY <1>2 DEF u
<1>7. QED
  BY <1>5, <1>6, ShortShape

LEMMA ConvertedShape ==
    ASSUME NEW r \in Responses, NEW k \in Kinds
    PROVE  /\ Converted(r, k) \in Responses /\ Converted(r, k).what = k
           /\ Converted(r, k).declared = r.declared /\ Converted(r, k).under = r.under
           /\ k.form \in {"grey", "placeholder"} => Converted(r, k).kept = "no-store"
<1> DEFINE v == [r EXCEPT !.type = "webp"]
           w == [v EXCEPT !.what = k]
<1>1. v \in Responses /\ v.declared = r.declared /\ v.under = r.under
  <2>1. "webp" \in Types
    BY PartsNamed
  <2>2. QED
    BY <2>1 DEF Responses
<1> HIDE DEF v
<1>2. w \in Responses
  BY <1>1 DEF Responses
<1>3. w.what = k /\ w.declared = r.declared /\ w.under = r.under
  BY <1>1 DEF Responses
<1> USE DEF v
<1>4. Converted(r, k) = IF k.form \in {"grey", "placeholder"} THEN NotKept(w) ELSE w
  BY DEF Converted
<1> HIDE DEF w
<1>5. QED
  BY <1>2, <1>3, <1>4, NotKeptShape

(* decode(): what is under no coding any more, or one that cannot be taken off. *)
LEMMA DecodedShape ==
    ASSUME NEW accepts \in SUBSET Codes, NEW r, FromOrigin(r, accepts)
    PROVE  /\ FromOrigin(Decoded(r), accepts)
           /\ CodingTaken(r) \in accepts \cup {Identity} /\ CodingTaken(r) \in CodingNames
           /\ Decoded(r).declared # Unknown \/ CodingTaken(r) = Identity
           /\ Decoded(r).declared = Identity \/ Decoded(r).declared = Unknown \/ ~Decoded(r).sound
<1>1. r \in Responses /\ r.declared \in CodingNames /\ r.declared = r.under /\ r.sound \in BOOLEAN
  BY DEF FromOrigin, Responses, Flags
<1>2. r.declared \in accepts \cup {Identity, Unknown}
  BY DEF FromOrigin
<1>3. Identity \in CodingNames
  BY DEF CodingNames
<1>4. CASE Decodable(r)
  <2>1. Decoded(r) = Under(r, Identity)
    BY <1>4 DEF Decoded, Under
  <2>2. CodingTaken(r) = r.declared /\ Known(r.declared)
    BY <1>4 DEF CodingTaken, Decodable
  <2>3. r.declared \in accepts \cup {Identity}
    BY <1>2, <2>2, KnownCodings
  <2>4. FromOrigin(Decoded(r), accepts)
    <3> DEFINE d == Decoded(r)
    <3>1. /\ d \in Responses /\ d.declared = Identity /\ d.under = Identity
          /\ d.what = r.what /\ d.type = r.type /\ d.status = r.status /\ d.kept = r.kept
          /\ d.shrinks = r.shrinks /\ d.picture = r.picture
      BY <1>1, <1>3, <2>1, UnderShape
    <3> HIDE DEF d
    <3>2. FromOrigin(d, accepts)
      BY <3>1 DEF FromOrigin
    <3>3. QED
      BY <3>2 DEF d
  <2>5. Decoded(r).declared = Identity
    BY <1>1, <1>3, <2>1, UnderShape
  <2>6. QED
    BY <1>1, <2>2, <2>3, <2>4, <2>5, KnownCodings
<1>5. CASE ~Decodable(r)
  <2>1. Decoded(r) = r /\ CodingTaken(r) = Identity
    BY <1>5 DEF Decoded, CodingTaken
  <2>2. ~Known(r.declared) \/ ~r.sound
    BY <1>5 DEF Decodable
  <2>3. r.declared = Identity \/ r.declared = Unknown \/ ~r.sound
    BY <1>1, <2>2, KnownCodings DEF CodingNames, Codes
  <2>4. QED
    BY <1>3, <2>1, <2>3
<1>6. QED
  BY <1>4, <1>5

(* encode() and ensure_compressed(): the body and its head stay of one mind, and
   nothing else changes. *)
LEMMA FinishedShape ==
    ASSUME NEW accepts \in SUBSET Codes, NEW r \in Responses, r.declared = r.under,
           r.declared \in accepts \cup {Identity, Unknown},
           NEW c \in CodingNames, c \in accepts \cup {Identity}
    PROVE  LET f == Ensured(accepts, Encoded(r, c))
           IN  /\ f \in Responses
               /\ f.declared = f.under /\ f.declared \in accepts \cup {Identity, Unknown}
               /\ f.what = r.what /\ f.type = r.type /\ f.status = r.status /\ f.kept = r.kept
               /\ f.large = r.large /\ f.shrinks = r.shrinks /\ f.sound = r.sound
               /\ r.declared = Unknown /\ c = Identity => f.declared = Unknown
<1> DEFINE e == Encoded(r, c)
           f == Ensured(accepts, e)
<1>1. /\ e \in Responses
      /\ e.declared = e.under /\ e.declared \in accepts \cup {Identity, Unknown}
      /\ e.what = r.what /\ e.type = r.type /\ e.status = r.status /\ e.kept = r.kept
      /\ e.large = r.large /\ e.shrinks = r.shrinks /\ e.sound = r.sound
      /\ r.declared = Unknown /\ c = Identity => e.declared = Unknown
  <2>1. CASE c = Identity
    <3>1. e = r
      BY <2>1 DEF Encoded
    <3>2. QED
      BY <3>1
  <2>2. CASE c # Identity
    <3>1. e = Under(r, c)
      BY <2>2 DEF Encoded
    <3> HIDE DEF e
    <3>2. QED
      BY <2>2, <3>1, UnderShape
  <2>3. QED
    BY <2>1, <2>2
<1> HIDE DEF e
<1>2. CASE f = e
  <2> HIDE DEF f
  <2>1. QED
    BY <1>1, <1>2 DEF f, e
<1>3. CASE e.declared = Identity /\ f = Under(e, Best(accepts))
  <2> HIDE DEF f
  <2>1. Best(accepts) \in accepts \cup {Identity} /\ Best(accepts) \in CodingNames
    BY BestTaken
  <2>2. ~(r.declared = Unknown /\ c = Identity)
    BY <1>1, <1>3, KnownCodings
  <2>3. QED
    BY <1>1, <1>3, <2>1, <2>2, UnderShape DEF f, e
<1>4. f = e \/ (e.declared = Identity /\ f = Under(e, Best(accepts)))
  BY DEF Ensured
<1>5. QED
  BY <1>2, <1>3, <1>4

(* Images::on_response: what it leaves. *)
(* What the images link makes of r: the pixel, a copy, or r, and that only when
   the serving does not ask for more. *)
LookedAt(r, m) ==
    \/ m = Stripped(r) /\ Now = Nothing
    \/ m = Converted(r, Copy(Now)) /\ Now \in Encodings
    \/ /\ m = r
       /\ Now = Nothing => ~IsImage(r)
       /\ Now \in Encodings =>
              ~(Claims(req, r) /\ r.large /\ r.shrinks /\ r.what = Original /\ r.under = Identity)

LEMMA LooksShape ==
    ASSUME TypeInv, CopyInv, NEW r \in Responses, r.shrinks => r.picture,
           NEW after \in Looks(req, r)
    PROVE  LookedAt(r, after.resp) /\ AsKeyed(after.copies)
<1>1. Now \in Servings
  BY DEF TypeInv, Now, Servings
<1>2. \/ Now = Untouched
      \/ Now = Nothing
      \/ Now.as = "encoded"
  BY <1>1, ServingShape
<1>3. Untouched.as = "untouched" /\ Nothing.as = "nothing"
  BY DEF Untouched, Nothing
<1>4. r.id \in {0, 1}
  BY DEF Responses, Numbers
<1>5. CASE Now.as = "nothing" /\ IsImage(r)
  <2>1. after = [resp |-> Stripped(r), copies |-> copies]
    BY <1>5 DEF Looks
  <2>2. Now = Nothing
    BY <1>2, <1>3, <1>5
  <2>3. QED
    BY <2>1, <2>2 DEF CopyInv, AsKeyed, LookedAt
<1>6. CASE Now.as = "encoded" /\ Claims(req, r) /\ r.large /\ Readable(r)
  <2>1. PICK c \in Copies(r, Now) :
            after = [resp |-> IF r.shrinks THEN Converted(r, c.copy) ELSE r, copies |-> c.copies]
    BY <1>6 DEF Looks
  <2>2. Now \in Encodings
    BY <1>1, <1>6 DEF Encodings
  <2>3. c.copy = Copy(Now) /\ \A d \in c.copies : d \in copies \/ d = [key |-> Key(r, Now), holds |-> Copy(Now)]
    BY <2>2, CopiesAreCurrent
  <2>4. AsKeyed(after.copies)
    BY <1>4, <2>1, <2>2, <2>3 DEF CopyInv, AsKeyed, Key
  <2>5. CASE r.shrinks
    BY <2>1, <2>2, <2>3, <2>4, <2>5 DEF LookedAt
  <2>6. CASE ~r.shrinks
    BY <1>3, <1>6, <2>1, <2>4, <2>6 DEF LookedAt
  <2>7. QED
    BY <2>5, <2>6
<1>7. CASE /\ ~(Now.as = "nothing" /\ IsImage(r))
           /\ ~(Now.as = "encoded" /\ Claims(req, r) /\ r.large /\ Readable(r))
  <2>1. after = [resp |-> r, copies |-> copies]
    BY <1>7 DEF Looks
  <2>2. Now = Nothing => ~IsImage(r)
    BY <1>3, <1>7
  <2>3. ASSUME Now \in Encodings, Claims(req, r), r.large, r.shrinks, r.what = Original, r.under = Identity
        PROVE  FALSE
    BY <1>7, <2>3 DEF Encodings, Readable, Original
  <2>4. QED
    BY <2>1, <2>2, <2>3 DEF CopyInv, AsKeyed, LookedAt
<1>8. QED
  BY <1>5, <1>6, <1>7

-----------------------------------------------------------------------------
(* Every step keeps the invariant. *)

LEMMA ServedAtFirst == Init => IInv
<1> SUFFICES ASSUME Init PROVE IInv
  OBVIOUS
<1>1. Blank \in Responses
  BY BlankShape
<1>2. TypeInv
  BY <1>1 DEF Init, TypeInv, Qualities, TierNames, NoRequest, Requests, NoOrigin
<1>3. QED
  BY <1>2 DEF Init, IInv, CopyInv, AsKeyed, StoredInv, RespInv, SeenInv, PassInv, CodingIsAsDeclared,
              ServedAsAllowed, KeptIsTheOrigins, PageIsInOrder

(* Of an answer that is not out yet there is nothing to say. *)
LEMMA NotOutYet ==
    ASSUME StoredInv', pc' # "done"
    PROVE  CodingIsAsDeclared' /\ ServedAsAllowed' /\ KeptIsTheOrigins' /\ PageIsInOrder'
  BY DEF StoredInv, FromOrigin, Original, CodingIsAsDeclared, ServedAsAllowed, KeptIsTheOrigins,
         PageIsInOrder

LEMMA StoredStays ==
    ASSUME StoredInv, UNCHANGED <<stored, subject>>
    PROVE  StoredInv'
  BY DEF StoredInv, FromOrigin

LEMMA ArrivesKeeps ==
    ASSUME IInv, Arrives
    PROVE  IInv'
<1> DEFINE pixel == [Stripped(Blank) EXCEPT !.status = 200]
<1>1. TypeInv /\ CopyInv /\ StoredInv
  BY DEF IInv
<1>2. UNCHANGED <<quality, tier, copies, subject, stored, origin>> /\ seen' = {<<quality, tier>>}
  BY DEF Arrives, imageVars
<1>3. StoredInv'
  BY <1>1, <1>2, StoredStays
<1>4. CopyInv'
  BY <1>1, <1>2 DEF CopyInv, AsKeyed
<1>5. req' \in Requests
  BY DEF Arrives, Asks
<1>6. CASE resp' = pixel /\ pc' = "done" /\ Now.as = "nothing"
  <2>1. /\ pixel \in Responses /\ pixel.what = Pixel /\ pixel.declared = Identity
        /\ pixel.under = Identity /\ pixel.kept = "no-store"
    <3> DEFINE p == Stripped(Blank)
    <3>1. /\ p \in Responses /\ p.what = Pixel /\ p.declared = Identity /\ p.under = Identity
          /\ p.kept = "no-store"
      BY BlankShape, StrippedShape
    <3> HIDE DEF p
    <3>2. 200 \in Statuses
      BY PartsNamed
    <3>3. pixel = [p EXCEPT !.status = 200]
      BY DEF p
    <3> HIDE DEF pixel
    <3>4. QED
      BY <3>1, <3>2, <3>3 DEF Responses
  <2> HIDE DEF pixel
  <2>2. TypeInv'
    BY <1>1, <1>2, <1>5, <1>6, <2>1 DEF TypeInv
  <2>3. resp'.what.is = "pixel"
    BY <1>6, <2>1, KindsNamed
  <2>4. ServedAsAllowed'
    <3>1. Now \in Servings
      BY <1>1 DEF TypeInv, Now, Servings
    <3>2. Now = Nothing
      BY <1>6, <3>1, ServingShape DEF Untouched
    <3>3. Nothing \in {Serving(s[1], s[2]) : s \in seen'}
      BY <1>2, <3>2 DEF Now
    <3>4. QED
      BY <2>3, <3>3 DEF ServedAsAllowed
  <2>5. CodingIsAsDeclared' /\ PageIsInOrder'
    BY <1>6, <2>1, <2>3 DEF CodingIsAsDeclared, PageIsInOrder
  <2>6. KeptIsTheOrigins'
    BY <1>3, <1>6, <2>1 DEF KeptIsTheOrigins, StoredInv, FromOrigin, Original
  <2>7. RespInv' /\ SeenInv' /\ PassInv'
    BY <1>6 DEF RespInv, SeenInv, PassInv
  <2>8. QED
    BY <1>3, <1>4, <2>2, <2>4, <2>5, <2>6, <2>7 DEF IInv
<1>7. CASE resp' = Blank /\ pc' = "fetching"
  <2>1. Blank \in Responses
    BY BlankShape
  <2>2. TypeInv'
    BY <1>1, <1>2, <1>5, <1>7, <2>1 DEF TypeInv
  <2>3. RespInv' /\ SeenInv' /\ PassInv'
    BY <1>2, <1>7 DEF RespInv, SeenInv, PassInv
  <2>4. CodingIsAsDeclared' /\ ServedAsAllowed' /\ KeptIsTheOrigins' /\ PageIsInOrder'
    BY <1>3, <1>7, NotOutYet
  <2>5. QED
    BY <1>3, <1>4, <2>2, <2>3, <2>4 DEF IInv
<1>8. QED
  BY <1>6, <1>7 DEF Arrives, Finished

LEMMA AnswersAreTheOrigins ==
    ASSUME TypeInv, NEW r \in Answers
    PROVE  FromOrigin(r, req.accepts)
<1>1. req.accepts \in SUBSET Codes /\ subject.type \in {"jpeg", "svg", "html", "text"}
  BY PicturesAreNoPages DEF TypeInv, Requests, Codes
<1>2. PICK coding \in {Identity, Best(req.accepts), Unknown}, sound \in BOOLEAN :
        r = Answer(coding, sound)
  BY DEF Answers
<1>3. coding \in req.accepts \cup {Identity, Unknown} /\ coding \in CodingNames
  BY <1>1, BestTaken DEF CodingNames
<1> DEFINE shrinks == subject.fit = "shrinks"
           large == subject.fit # "small"
           long == subject.fit # "short"
           picture == subject.fit \notin {"garbled", "long", "short"}
<1>4. shrinks \in BOOLEAN /\ large \in BOOLEAN /\ long \in BOOLEAN /\ picture \in BOOLEAN
  OBVIOUS
<1>5. shrinks => picture
  OBVIOUS
<1>6. r = [id |-> 1, type |-> subject.type, status |-> 200, declared |-> coding, under |-> coding,
           what |-> Original, kept |-> "as origin", long |-> long, large |-> large,
           shrinks |-> shrinks, sound |-> sound, picture |-> picture]
  BY <1>2 DEF Answer, Original
<1> HIDE DEF shrinks, large, long, picture
<1>7. r \in Responses
  <2>1. Original \in Kinds
    BY KindsNamed
  <2>2. 1 \in Numbers /\ subject.type \in Types /\ 200 \in Statuses /\ "as origin" \in Keepings
    BY <1>1 DEF Numbers, Types, Statuses, Keepings
  <2>3. {long, large, shrinks, sound, picture} \subseteq Flags
    BY <1>4 DEF Flags
  <2>4. QED
    BY <1>3, <1>6, <2>1, <2>2, <2>3 DEF Responses
<1>8. r.shrinks => r.picture
  BY <1>6, <1>5
<1>9. QED
  BY <1>3, <1>6, <1>7, <1>8 DEF FromOrigin

LEMMA FetchesKeeps ==
    ASSUME IInv, Fetches
    PROVE  IInv'
<1>1. TypeInv /\ CopyInv /\ StoredInv /\ SeenInv
  BY DEF IInv
<1>2. UNCHANGED <<quality, tier, copies, subject, stored, req, seen>> /\ pc = "fetching" /\ pc' = "answered"
  BY DEF Fetches, imageVars
<1>3. StoredInv'
  BY <1>1, <1>2, StoredStays
<1>4. CopyInv'
  BY <1>1, <1>2 DEF CopyInv, AsKeyed
<1>5. FromOrigin(resp', req.accepts)
  BY <1>1, AnswersAreTheOrigins DEF Fetches
<1>6. TypeInv'
  <2>1. resp' \in Responses
    BY <1>5 DEF FromOrigin
  <2>2. origin' \in [ends : {"whole", "toobig", "breaks"}, eligible : BOOLEAN]
    BY DEF Fetches
  <2>3. QED
    BY <1>1, <1>2, <2>1, <2>2 DEF TypeInv
<1>7. RespInv'
  BY <1>2, <1>5 DEF RespInv, FromOrigin
<1>8. SeenInv' /\ PassInv'
  BY <1>1, <1>2 DEF SeenInv, PassInv
<1>9. CodingIsAsDeclared' /\ ServedAsAllowed' /\ KeptIsTheOrigins' /\ PageIsInOrder'
  BY <1>2, <1>3, NotOutYet
<1>10. QED
  BY <1>3, <1>4, <1>6, <1>7, <1>8, <1>9 DEF IInv

LEMMA FromStoreKeeps ==
    ASSUME IInv, FromStore
    PROVE  IInv'
<1>1. TypeInv /\ CopyInv /\ StoredInv /\ SeenInv
  BY DEF IInv
<1>2. UNCHANGED <<quality, tier, copies, subject, stored, req, seen>> /\ pc = "fetching" /\ pc' = "whole"
  BY DEF FromStore, imageVars
<1>3. StoredInv'
  BY <1>1, <1>2, StoredStays
<1>4. CopyInv'
  BY <1>1, <1>2 DEF CopyInv, AsKeyed
<1>5. FromOrigin(resp', req.accepts)
  <2>1. resp' = stored.resp /\ stored # NoEntry /\ stored.key = EntryKey
    BY DEF FromStore
  <2>2. stored.key[1] = req.accepts
    BY <2>1 DEF EntryKey
  <2>3. QED
    BY <1>1, <2>1, <2>2 DEF StoredInv
<1>6. TypeInv'
  <2>1. resp' \in Responses
    BY <1>5 DEF FromOrigin
  <2>2. origin' \in [ends : {"whole", "toobig", "breaks"}, eligible : BOOLEAN]
    BY <1>1 DEF FromStore, StoredInv
  <2>3. QED
    BY <1>1, <1>2, <2>1, <2>2 DEF TypeInv
<1>7. RespInv'
  BY <1>2, <1>5 DEF RespInv, FromOrigin
<1>8. SeenInv' /\ PassInv'
  BY <1>1, <1>2 DEF SeenInv, PassInv
<1>9. CodingIsAsDeclared' /\ ServedAsAllowed' /\ KeptIsTheOrigins' /\ PageIsInOrder'
  BY <1>2, <1>3, NotOutYet
<1>10. QED
  BY <1>3, <1>4, <1>6, <1>7, <1>8, <1>9 DEF IInv

(* What the panel and the link say is among what they said. *)
LEMMA NowIsAllowed ==
    ASSUME TypeInv, SeenInv, pc \notin {"idle", "done"}
    PROVE  Now \in Servings /\ Now \in Allowed
  BY DEF TypeInv, SeenInv, Now, Servings, Allowed

LEMMA HoldsKeeps ==
    ASSUME IInv, Holds
    PROVE  IInv'
<1>1. TypeInv /\ CopyInv /\ StoredInv /\ SeenInv /\ RespInv
  BY DEF IInv
<1>2. /\ UNCHANGED <<quality, tier, copies, subject, stored, req, origin, resp, seen>>
      /\ pc = "answered" /\ pc' \in {"holding", "relaying"}
  BY DEF Holds, imageVars
<1>3. StoredInv'
  BY <1>1, <1>2, StoredStays
<1>4. CopyInv'
  BY <1>1, <1>2 DEF CopyInv, AsKeyed
<1>5. TypeInv'
  BY <1>1, <1>2 DEF TypeInv
<1>6. FromOrigin(resp, req.accepts)
  BY <1>1, <1>2 DEF RespInv
<1>7. RespInv'
  BY <1>2, <1>6 DEF RespInv, FromOrigin
<1>8. SeenInv'
  BY <1>1, <1>2 DEF SeenInv
<1>9. PassInv'
  <2> SUFFICES ASSUME pc' = "relaying", subject.about = "picture"
               PROVE  Untouched \in Allowed \/ (~Claims(req, resp) /\ \E s \in Allowed : s.as = "encoded")
    BY <1>2 DEF PassInv, Allowed, Claims
  <2>1. ~WantsBody(req, resp)
    BY DEF Holds
  <2>2. Now \in Servings /\ Now \in Allowed
    BY <1>1, <1>2, NowIsAllowed
  <2>3. IsImage(resp)
    BY <1>1, <1>6, PicturesAreNoPages DEF IsImage, FromOrigin, TypeInv
  <2>4. CASE Now = Untouched
    BY <2>2, <2>4
  <2>5. CASE Now = Nothing
    BY <2>1, <2>3, <2>5 DEF WantsBody, Nothing
  <2>6. CASE Now.as = "encoded"
    BY <2>1, <2>2, <2>6 DEF WantsBody
  <2>7. QED
    BY <2>2, <2>4, <2>5, <2>6, ServingShape
<1>10. CodingIsAsDeclared' /\ ServedAsAllowed' /\ KeptIsTheOrigins' /\ PageIsInOrder'
  BY <1>2, <1>3, NotOutYet
<1>11. QED
  BY <1>3, <1>4, <1>5, <1>7, <1>8, <1>9, <1>10 DEF IInv

(* store() of what came whole, while it is still the origin's. *)
LEMMA ReadsKeeps ==
    ASSUME IInv, Reads
    PROVE  IInv'
<1>1. TypeInv /\ CopyInv /\ StoredInv /\ SeenInv /\ RespInv
  BY DEF IInv
<1>2. UNCHANGED <<quality, tier, copies, subject, req, origin, seen>> /\ pc = "holding"
  BY DEF Reads, imageVars
<1>3. CopyInv'
  BY <1>1, <1>2 DEF CopyInv, AsKeyed
<1>4. FromOrigin(resp, req.accepts)
  BY <1>1, <1>2 DEF RespInv
<1>5. SeenInv'
  BY <1>1, <1>2 DEF SeenInv
<1>6. CASE /\ origin.ends = "whole" /\ UNCHANGED resp /\ pc' = "whole"
           /\ stored' = IF origin.eligible /\ req.method = "GET" THEN Entry(resp) ELSE stored
  <2>1. StoredInv'
    <3>1. CASE stored' = stored
      BY <1>1, <1>2, <3>1, StoredStays
    <3>2. CASE stored' = Entry(resp)
      <4>1. stored'.ends = "whole" /\ stored'.resp = resp /\ stored'.key[1] = req.accepts
        BY <1>6, <3>2 DEF Entry, EntryKey
      <4>2. FromOrigin(stored.resp, stored.key[1])'
        BY <1>2, <1>4, <4>1 DEF FromOrigin
      <4>3. QED
        BY <4>1, <4>2 DEF StoredInv
    <3>3. QED
      BY <1>6, <3>1, <3>2
  <2>2. TypeInv'
    BY <1>1, <1>2, <1>6 DEF TypeInv
  <2>3. RespInv' /\ PassInv'
    BY <1>2, <1>4, <1>6 DEF RespInv, PassInv, FromOrigin
  <2>4. CodingIsAsDeclared' /\ ServedAsAllowed' /\ KeptIsTheOrigins' /\ PageIsInOrder'
    BY <1>6, <2>1, NotOutYet
  <2>5. QED
    BY <1>3, <1>5, <2>1, <2>2, <2>3, <2>4 DEF IInv
<1>7. CASE origin.ends = "toobig" /\ pc' = "relaying" /\ UNCHANGED <<stored, resp>>
  <2>1. StoredInv'
    BY <1>1, <1>2, <1>7, StoredStays
  <2>2. TypeInv'
    BY <1>1, <1>2, <1>7 DEF TypeInv
  <2>3. RespInv' /\ PassInv'
    BY <1>2, <1>4, <1>7 DEF RespInv, PassInv, FromOrigin
  <2>4. CodingIsAsDeclared' /\ ServedAsAllowed' /\ KeptIsTheOrigins' /\ PageIsInOrder'
    BY <1>7, <2>1, NotOutYet
  <2>5. QED
    BY <1>3, <1>5, <2>1, <2>2, <2>3, <2>4 DEF IInv
<1>8. CASE origin.ends = "breaks" /\ pc' = "done" /\ resp' = Failure /\ UNCHANGED stored
  <2>1. StoredInv'
    BY <1>1, <1>2, <1>8, StoredStays
  <2>2. /\ Failure \in Responses /\ Failure.what = [is |-> "failure"] /\ Failure.status = 502
        /\ Failure.declared = Identity /\ Failure.under = Identity
    BY FailureShape
  <2>3. TypeInv'
    BY <1>1, <1>2, <1>8, <2>2 DEF TypeInv
  <2>4. RespInv' /\ PassInv'
    BY <1>8 DEF RespInv, PassInv
  <2>5. resp'.what.is = "failure"
    BY <1>8, <2>2
  <2>6. CodingIsAsDeclared' /\ ServedAsAllowed' /\ PageIsInOrder'
    BY <1>8, <2>2, <2>5 DEF CodingIsAsDeclared, ServedAsAllowed, PageIsInOrder
  <2>7. KeptIsTheOrigins'
    BY <2>1, <2>5 DEF KeptIsTheOrigins, StoredInv, FromOrigin, Original
  <2>8. QED
    BY <1>3, <1>5, <2>1, <2>3, <2>4, <2>6, <2>7 DEF IInv
<1>9. origin.ends \in {"whole", "toobig", "breaks"}
  BY <1>1 DEF TypeInv
<1>10. QED
  BY <1>6, <1>7, <1>8, <1>9 DEF Reads, Finished

LEMMA LeavesKeeps ==
    ASSUME IInv, Leaves
    PROVE  IInv'
<1>1. TypeInv /\ CopyInv /\ StoredInv
  BY DEF IInv
<1>2. /\ UNCHANGED <<quality, tier, copies, subject, stored>> /\ pc' = "idle"
      /\ req' = NoRequest /\ origin' = NoOrigin /\ resp' = Blank /\ seen' = {}
  BY DEF Leaves, imageVars
<1>3. StoredInv'
  BY <1>1, <1>2, StoredStays
<1>4. CopyInv'
  BY <1>1, <1>2 DEF CopyInv, AsKeyed
<1>5. TypeInv'
  <2>1. [is |-> "none"] \in Kinds
    BY KindsNamed
  <2>2. Blank \in Responses
    BY BlankShape
  <2>3. NoRequest \in Requests
    BY DEF NoRequest, Requests
  <2>4. NoOrigin \in [ends : {"whole", "toobig", "breaks"}, eligible : BOOLEAN]
    BY DEF NoOrigin
  <2>5. QED
    BY <1>1, <1>2, <2>2, <2>3, <2>4 DEF TypeInv
<1>6. RespInv' /\ SeenInv' /\ PassInv'
  BY <1>2 DEF RespInv, SeenInv, PassInv
<1>7. CodingIsAsDeclared' /\ ServedAsAllowed' /\ KeptIsTheOrigins' /\ PageIsInOrder'
  BY <1>2, <1>3, NotOutYet
<1>8. QED
  BY <1>3, <1>4, <1>5, <1>6, <1>7 DEF IInv

LEMMA ClearsKeeps ==
    ASSUME IInv, Clears
    PROVE  IInv'
<1>1. TypeInv /\ CopyInv /\ StoredInv
  BY DEF IInv
<1>2. /\ UNCHANGED <<quality, tier, subject, stored, req, origin, resp, seen>> /\ pc = "idle" /\ pc' = "idle"
      /\ copies' = {}
  BY DEF Clears, CopiesCleared
<1>3. StoredInv'
  BY <1>1, <1>2, StoredStays
<1>4. CopyInv'
  BY <1>2 DEF CopyInv, AsKeyed
<1>5. TypeInv'
  BY <1>1, <1>2 DEF TypeInv
<1>6. RespInv' /\ SeenInv' /\ PassInv'
  BY <1>2 DEF RespInv, SeenInv, PassInv
<1>7. CodingIsAsDeclared' /\ ServedAsAllowed' /\ KeptIsTheOrigins' /\ PageIsInOrder'
  BY <1>2, <1>3, NotOutYet
<1>8. QED
  BY <1>3, <1>4, <1>5, <1>6, <1>7 DEF IInv

(* A knob that is turned, or a link that changes, under a request only adds to
   what may be served. *)
LEMMA ChangesKeep ==
    ASSUME IInv, Knob \/ Wire \/ Switch
    PROVE  IInv'
<1>1. TypeInv /\ CopyInv /\ StoredInv /\ RespInv /\ SeenInv /\ PassInv
  BY DEF IInv
<1>2. /\ UNCHANGED <<copies, subject, stored, req, origin, resp, stream, pc>> /\ pc # "done"
      /\ seen' = IF pc = "idle" THEN seen ELSE seen \cup {<<quality', tier'>>}
      /\ quality' \in Qualities /\ tier' \in TierNames
  <2>1. quality \in Qualities /\ tier \in TierNames
    BY <1>1 DEF TypeInv
  <2>2. CASE Knob
    BY <2>1, <2>2, TiersNamed DEF Knob, Changing, PanelChanges
  <2>3. CASE Wire
    BY <2>1, <2>3, TiersNamed DEF Wire, Changing, LinkChanges
  <2>4. CASE Switch
    BY <2>1, <2>4 DEF Switch, Changing, imageVars
  <2>5. QED
    BY <2>2, <2>3, <2>4
<1>3. StoredInv'
  BY <1>1, <1>2, StoredStays
<1>4. CopyInv'
  BY <1>1, <1>2 DEF CopyInv, AsKeyed
<1>5. seen \subseteq seen' /\ seen' \subseteq Qualities \X TierNames
  BY <1>1, <1>2 DEF TypeInv
<1>6. TypeInv'
  BY <1>1, <1>2, <1>5 DEF TypeInv
<1>7. RespInv'
  BY <1>1, <1>2 DEF RespInv, FromOrigin, PageInv
<1>8. SeenInv'
  BY <1>1, <1>2 DEF SeenInv
<1>9. PassInv'
  <2>1. \A s \in Allowed : s \in Allowed'
    BY <1>5 DEF Allowed
  <2>2. Claims(req, resp)' <=> Claims(req, resp)
    BY <1>2 DEF Claims
  <2>3. QED
    BY <1>1, <1>2, <2>1, <2>2 DEF PassInv
<1>10. CodingIsAsDeclared' /\ ServedAsAllowed' /\ KeptIsTheOrigins' /\ PageIsInOrder'
  BY <1>2, <1>3, NotOutYet
<1>11. QED
  BY <1>3, <1>4, <1>6, <1>7, <1>8, <1>9, <1>10 DEF IInv

LEMMA StutterKeeps ==
    ASSUME IInv, UNCHANGED vars
    PROVE  IInv'
<1>1. UNCHANGED <<quality, tier, copies, subject, stored, req, origin, resp, stream, pc, seen>>
  BY DEF vars, imageVars
<1>2. StoredInv'
  BY <1>1, StoredStays DEF IInv
<1>3. TypeInv' /\ CopyInv' /\ SeenInv'
  BY <1>1 DEF IInv, TypeInv, CopyInv, AsKeyed, SeenInv
<1>4. RespInv'
  BY <1>1 DEF IInv, RespInv, PageInv, FromOrigin
<1>5. PassInv'
  BY <1>1 DEF IInv, PassInv, Allowed, Claims
<1>6. CodingIsAsDeclared' /\ KeptIsTheOrigins' /\ PageIsInOrder'
  BY <1>1 DEF IInv, CodingIsAsDeclared, KeptIsTheOrigins, PageIsInOrder
<1>7. ServedAsAllowed'
  BY <1>1 DEF IInv, ServedAsAllowed, Claims
<1>8. QED
  BY <1>2, <1>3, <1>4, <1>5, <1>6, <1>7 DEF IInv

(* The chain over a body that is whole. *)
LEMMA RewritesKeeps ==
    ASSUME IInv, Rewrites
    PROVE  IInv'
<1>1. TypeInv /\ CopyInv /\ StoredInv /\ RespInv /\ SeenInv
  BY DEF IInv
<1>2. UNCHANGED <<quality, tier, subject, stored, req, origin, seen>> /\ pc = "whole" /\ pc' = "done"
  BY DEF Rewrites, Finished
<1>3. FromOrigin(resp, req.accepts) /\ req.accepts \in SUBSET Codes
  BY <1>1, <1>2 DEF RespInv, TypeInv, Requests, Codes
<1> DEFINE d == Decoded(resp)
           r == Injected(d)
           c == CodingTaken(resp)
<1>4. PICK after \in Looks(req, r) :
        resp' = Ensured(req.accepts, Encoded(after.resp, c)) /\ copies' = after.copies
  BY DEF Rewrites
<1> DEFINE m == after.resp
<1>5. /\ FromOrigin(d, req.accepts)
      /\ c \in req.accepts \cup {Identity} /\ c \in CodingNames
      /\ d.declared # Unknown \/ c = Identity
      /\ d.declared = Identity \/ d.declared = Unknown \/ ~d.sound
  BY <1>3, DecodedShape
<1> HIDE DEF d, c
<1>6. /\ d \in Responses /\ d.what = Original /\ d.kept = "as origin" /\ d.status = 200
      /\ d.declared = d.under /\ d.declared \in req.accepts \cup {Identity, Unknown}
      /\ d.type = subject.type
      /\ d.shrinks => d.picture
  BY <1>5 DEF FromOrigin
<1>7. /\ r \in Responses /\ r.kept = "as origin" /\ r.status = 200
      /\ r.declared = d.declared /\ r.under = d.under /\ r.type = d.type /\ r.sound = d.sound
      /\ r.shrinks => r.picture
      /\ r.what = Original \/ (r.what = [is |-> "tagged"] /\ r.type = "html")
  <2>1. CASE r = d
    <3> HIDE DEF r
    <3>1. QED
      BY <1>6, <2>1
  <2>2. CASE r = Bodied(d, [is |-> "tagged"]) /\ d.type = "html"
    <3> DEFINE k == [is |-> "tagged"]
    <3>1. k \in Kinds /\ r = Bodied(d, k)
      BY <2>2, KindsNamed
    <3> HIDE DEF r, k
    <3>2. /\ r \in Responses /\ r.what = k /\ r.declared = d.declared /\ r.under = d.under
          /\ r.type = d.type /\ r.status = d.status /\ r.kept = d.kept
          /\ r.shrinks = d.shrinks /\ r.sound = d.sound /\ r.picture = d.picture
      BY <1>6, <3>1, BodiedShape
    <3>3. QED
      BY <1>6, <2>2, <3>2 DEF k
  <2>3. QED
    BY <2>1, <2>2 DEF Injected, Bodied
<1> HIDE DEF r
<1>8. /\ r.declared = r.under /\ r.declared \in req.accepts \cup {Identity, Unknown}
      /\ r.type = subject.type
  BY <1>6, <1>7
<1>9. \/ r.what.is = "original" /\ r.what = Original
      \/ r.what.is = "tagged" /\ r.type = "html"
  <2>1. CASE r.what = Original
    BY <2>1, KindsNamed
  <2>2. CASE r.what = [is |-> "tagged"] /\ r.type = "html"
    BY <2>2
  <2>3. QED
    BY <1>7, <2>1, <2>2
<1>10. LookedAt(r, m) /\ AsKeyed(copies')
  BY <1>1, <1>4, <1>7, LooksShape
<1> HIDE DEF m
<1>11. Now \in Servings /\ Now \in Allowed /\ Allowed' = Allowed
  BY <1>1, <1>2, NowIsAllowed DEF Allowed
<1>12. /\ m \in Responses /\ m.declared = m.under
       /\ m.declared \in req.accepts \cup {Identity, Unknown}
       /\ m.what.is # "streamed"
       /\ m.kept = "as origin" =>
            m.what.is \notin {"pixel", "copy"} \/ (m.what.is = "copy" /\ m.what.form = "colour")
       /\ m.what.is = "pixel" => Now = Nothing
       /\ m.what.is = "copy" => Now = Convert(m.what.quality, m.what.form)
       /\ m.what.is = "original" => m = r /\ r.what = Original
       /\ m.what.is \in {"pixel", "copy", "original"} \/ r.type = "html"
  <2>1. CASE m = Stripped(r) /\ Now = Nothing
    <3>1. Pixel \in Kinds /\ Pixel.is = "pixel"
      BY KindsNamed
    <3>2. /\ m \in Responses /\ m.what = Pixel /\ m.declared = Identity /\ m.under = Identity
          /\ m.kept = "no-store"
      BY <1>7, <2>1, StrippedShape
    <3>3. QED
      BY <2>1, <3>1, <3>2
  <2>2. CASE m = Converted(r, Copy(Now)) /\ Now \in Encodings
    <3> DEFINE k == Copy(Now)
    <3>1. k \in Kinds /\ k.is = "copy" /\ k.quality = Now.quality /\ k.form = Now.form
      BY <2>2, KindsNamed DEF Copy
    <3>2. Now = Convert(Now.quality, Now.form) /\ Now.form \in Forms
      BY <1>11, <2>2, ServingShape DEF Encodings, Untouched, Nothing
    <3> HIDE DEF k
    <3>3. /\ m \in Responses /\ m.what = k /\ m.declared = r.declared /\ m.under = r.under
          /\ k.form \in {"grey", "placeholder"} => m.kept = "no-store"
      <4>1. m = Converted(r, k)
        BY <2>2 DEF k
      <4>2. QED
        BY <1>7, <3>1, <4>1, ConvertedShape
    <3>4. m.what.is = "copy" /\ m.what.quality = Now.quality /\ m.what.form = Now.form
      BY <3>1, <3>3
    <3>5. m.kept = "as origin" => m.what.form = "colour"
      BY <3>1, <3>2, <3>3 DEF Forms
    <3>6. m.declared = m.under /\ m.declared \in req.accepts \cup {Identity, Unknown}
      BY <1>8, <3>3
    <3>7. QED
      BY <3>2, <3>3, <3>4, <3>5, <3>6
  <2>3. CASE m = r
    BY <1>7, <1>8, <1>9, <2>3
  <2>4. QED
    BY <1>10, <2>1, <2>2, <2>3 DEF LookedAt
<1> DEFINE f == Ensured(req.accepts, Encoded(m, c))
<1>13. /\ f \in Responses
       /\ f.declared = f.under /\ f.declared \in req.accepts \cup {Identity, Unknown}
       /\ f.what = m.what /\ f.type = m.type /\ f.status = m.status /\ f.kept = m.kept
       /\ f.large = m.large /\ f.shrinks = m.shrinks /\ f.sound = m.sound
       /\ m.declared = Unknown /\ c = Identity => f.declared = Unknown
  BY <1>3, <1>5, <1>12, FinishedShape
<1>14. resp' = f
  BY <1>4 DEF m
<1> HIDE DEF f
<1>15. TypeInv'
  BY <1>1, <1>2, <1>13, <1>14 DEF TypeInv
<1>16. StoredInv'
  BY <1>1, <1>2, StoredStays
<1>17. CopyInv'
  BY <1>10 DEF CopyInv, AsKeyed
<1>18. RespInv' /\ SeenInv' /\ PassInv'
  BY <1>2 DEF RespInv, SeenInv, PassInv
<1>19. CodingIsAsDeclared' /\ PageIsInOrder'
  BY <1>2, <1>12, <1>13, <1>14 DEF CodingIsAsDeclared, PageIsInOrder
<1>20. KeptIsTheOrigins'
  BY <1>12, <1>13, <1>14, <1>16 DEF KeptIsTheOrigins, StoredInv, FromOrigin, Original
<1>21. ServedAsAllowed'
  <2> DEFINE convertible == /\ Claims(req, f) /\ f.large /\ f.shrinks
                            /\ f.declared # Unknown /\ f.sound
  <2>1. ASSUME subject.about = "picture", f.what.is = "original"
        PROVE  Untouched \in Allowed \/ \E s \in Allowed : s.as = "encoded" /\ ~convertible
    <3>1. m = r /\ r.what = Original
      BY <1>12, <1>13, <2>1
    <3>2. CASE Now = Untouched
      BY <1>11, <3>2
    <3>3. Now # Nothing
      <4>1. r.type \in {"jpeg", "svg"}
        BY <1>1, <1>6, <1>7, <2>1, PicturesAreNoPages DEF TypeInv
      <4>2. IsImage(r)
        BY <4>1 DEF IsImage
      <4>3. ASSUME Now = Nothing PROVE FALSE
        <5>1. m # Stripped(r)
          BY <1>7, <3>1, StrippedShape DEF Pixel, Original
        <5>2. Now \notin Encodings
          BY <4>3 DEF Encodings, Nothing
        <5>3. QED
          BY <1>10, <4>2, <4>3, <5>1, <5>2 DEF LookedAt
      <4>4. QED
        BY <4>3
    <3>4. CASE Now.as = "encoded"
      <4>1. Now \in Encodings /\ Now # Nothing
        BY <1>11, <3>3, <3>4 DEF Encodings
      <4>2. m # Converted(r, Copy(Now))
        <5>1. f.what.is # "copy"
          BY <2>1
        <5>2. Copy(Now).is = "copy"
          BY <4>1, KindsNamed
        <5>3. Converted(r, Copy(Now)).what = Copy(Now)
          BY <1>7, <4>1, KindsNamed, ConvertedShape
        <5>4. QED
          BY <1>13, <5>1, <5>2, <5>3
      <4>3. ~(Claims(req, r) /\ r.large /\ r.shrinks /\ r.what = Original /\ r.under = Identity)
        BY <1>10, <4>1, <4>2 DEF LookedAt
      <4>4. ASSUME convertible PROVE FALSE
        <5>1. Claims(req, r) /\ r.large /\ r.shrinks /\ r.sound
          BY <1>13, <3>1, <4>4 DEF Claims
        <5>2. r.under # Identity
          BY <3>1, <4>3, <5>1
        <5>3. r.declared = Unknown
          BY <1>5, <1>6, <1>7, <5>1, <5>2
        <5>4. f.declared = Unknown
          BY <1>5, <1>7, <1>13, <3>1, <5>3
        <5>5. QED
          BY <4>4, <5>4
      <4>5. QED
        BY <1>11, <3>4, <4>4
    <3>5. QED
      BY <1>11, <3>2, <3>3, <3>4, ServingShape
  <2>2. f.what.is = "pixel" => Nothing \in Allowed
    BY <1>11, <1>12, <1>13
  <2>3. f.what.is = "copy" => Convert(f.what.quality, f.what.form) \in Allowed
    BY <1>11, <1>12, <1>13
  <2>4. subject.about = "picture" => f.what.is \in {"pixel", "copy", "original"}
    <3>1. subject.about = "picture" => r.type # "html"
      BY <1>1, <1>8, PicturesAreNoPages DEF TypeInv
    <3>2. QED
      BY <1>12, <1>13, <3>1
  <2> HIDE DEF convertible
  <2>5. /\ Allowed = {Serving(s[1], s[2]) : s \in seen'}
        /\ convertible = (/\ Claims(req', resp') /\ resp'.large /\ resp'.shrinks
                          /\ resp'.declared # Unknown /\ resp'.sound)
    BY <1>2, <1>14 DEF Allowed, convertible
  <2>6. SUFFICES ASSUME subject.about = "picture"
                 PROVE  CASE f.what.is = "pixel" -> Nothing \in Allowed
                          [] f.what.is = "copy" -> Convert(f.what.quality, f.what.form) \in Allowed
                          [] f.what.is = "original" ->
                                \/ Untouched \in Allowed
                                \/ \E s \in Allowed : s.as = "encoded" /\ ~convertible
                                \/ origin.ends = "toobig"
    BY <1>2, <1>14, <2>5 DEF ServedAsAllowed
  <2>7. QED
    BY <2>1, <2>2, <2>3, <2>4, <2>6
<1>22. QED
  BY <1>15, <1>16, <1>17, <1>18, <1>19, <1>20, <1>21 DEF IInv

(* Through() and Sent(): a push onto a page that is on its way. *)
LEMMA SentShape ==
    ASSUME NEW s \in PageStreams, NEW out \in Seq(Nat), s.codings \subseteq {s.out}
    PROVE  /\ Sent(s, out) \in PageStreams
           /\ Sent(s, out).sent = s.sent \o out
           /\ Sent(s, out).by = s.by /\ Sent(s, out).kept = s.kept /\ Sent(s, out).read = s.read
           /\ Sent(s, out).out = s.out /\ Sent(s, out).closed = s.closed
           /\ Sent(s, out).codings \subseteq {s.out}
<1>1. /\ s.sent \in Seq(Nat) /\ s.by \in Streamers /\ s.out \in CodingNames /\ s.read \in Nat
      /\ s.kept \in Seq(Nat) /\ s.closed \in BOOLEAN /\ s.codings \in SUBSET CodingNames
  BY DEF PageStreams
<1>2. CASE out = <<>>
  <2>1. Sent(s, out) = s
    BY <1>2 DEF Sent
  <2>2. s.sent \o out = s.sent
    BY <1>1, <1>2, ConcatEmptySeq
  <2>3. QED
    BY <2>1, <2>2
<1>3. CASE out # <<>>
  <2> DEFINE more == s.sent \o out
             codings == s.codings \cup {s.out}
  <2>1. more \in Seq(Nat)
    BY <1>1, ConcatProperties
  <2>2. codings \in SUBSET CodingNames /\ codings \subseteq {s.out}
    BY <1>1
  <2> HIDE DEF more, codings
  <2>3. Sent(s, out) = [s EXCEPT !.sent = more, !.codings = codings]
    BY <1>3 DEF Sent, PageStreams, more, codings
  <2>4. QED
    BY <2>1, <2>2, <2>3 DEF PageStreams, more
<1>4. QED
  BY <1>2, <1>3

(* A page of which n pieces went through the streamer. *)
OnItsWay(s, n) ==
    /\ s \in PageStreams /\ s.codings \subseteq {s.out}
    /\ Made(s.by, s.sent, n)

LEMMA ThroughKeeps ==
    ASSUME NEW s \in PageStreams, NEW n \in Nat, NEW x \in Nat, n < x, OnItsWay(s, n),
           resp.sound \in BOOLEAN, NEW t \in Through(s, Run(n, x))
    PROVE  /\ OnItsWay(t, x)
           /\ t.kept = s.kept /\ t.read = s.read /\ t.out = s.out /\ t.closed = s.closed
<1>1. s.by \in Streamers /\ s.by # NoEntry
  BY ServedAssumption DEF PageStreams
<1>2. PICK p \in Pushes(s.by, Run(n, x), resp.sound) : t = Sent([s EXCEPT !.by = p.now], p.out)
  BY <1>1 DEF Through
<1>3. p.now \in Streamers /\ Made(p.now, s.sent \o p.out, x)
  BY <1>1, PushKeeps DEF OnItsWay
<1>4. p.out \in Seq(Nat)
  BY <1>1, PushesSend
<1> DEFINE q == [s EXCEPT !.by = p.now]
<1>5. /\ q \in PageStreams /\ q.by = p.now /\ q.sent = s.sent /\ q.kept = s.kept /\ q.read = s.read
      /\ q.out = s.out /\ q.closed = s.closed /\ q.codings = s.codings
  BY <1>3 DEF PageStreams
<1> HIDE DEF q
<1>6. /\ t \in PageStreams /\ t.sent = q.sent \o p.out /\ t.by = q.by /\ t.kept = q.kept
      /\ t.read = q.read /\ t.out = q.out /\ t.closed = q.closed /\ t.codings \subseteq {q.out}
  <2>1. q.codings \subseteq {q.out}
    BY <1>5 DEF OnItsWay
  <2>2. t = Sent(q, p.out)
    BY <1>2 DEF q
  <2>3. QED
    BY <1>4, <1>5, <2>1, <2>2, SentShape
<1>7. QED
  BY <1>3, <1>5, <1>6 DEF OnItsWay

LEMMA RelaysKeeps ==
    ASSUME IInv, Relays
    PROVE  IInv'
<1>1. TypeInv /\ CopyInv /\ StoredInv /\ SeenInv /\ RespInv /\ PassInv
  BY DEF IInv
<1>2. /\ UNCHANGED <<quality, tier, copies, subject, stored, req, origin, resp, seen, pc>>
      /\ pc = "reading"
  BY DEF Relays, imageVars
<1>3. StoredInv'
  BY <1>1, <1>2, StoredStays
<1>4. TypeInv' /\ CopyInv' /\ SeenInv'
  BY <1>1, <1>2 DEF TypeInv, CopyInv, AsKeyed, SeenInv
<1>5. PassInv'
  BY <1>1, <1>2 DEF PassInv, Allowed, Claims
<1>6. RespInv'
  <2>1. CASE resp.what.is # "streamed"
    BY <1>1, <1>2, <2>1 DEF RespInv, FromOrigin
  <2>2. CASE resp.what.is = "streamed"
    <3>1. PageInv
      BY <1>1, <1>2, <2>2 DEF RespInv
    <3> DEFINE x == stream.read + 1
               got == stream.kept \o <<x>>
               at == [stream EXCEPT !.read = @ + 1]
    <3>2. PICK n \in 0 .. stream.read :
            stream.kept = Run(n, stream.read) /\ Made(stream.by, stream.sent, n)
      BY <3>1 DEF PageInv
    <3>3. stream \in PageStreams /\ stream.read \in Nat /\ stream.kept \in Seq(Nat)
      BY <3>1 DEF PageInv, PageStreams
    <3>4. n \in Nat /\ x \in Nat /\ n < x /\ n <= stream.read /\ stream.read <= x /\ n \in 0 .. x
      BY <3>3
    <3>5. got = Run(n, x)
      <4>1. <<x>> = Run(stream.read, x)
        BY <3>3, RunOfOne
      <4>2. Run(n, stream.read) \o Run(stream.read, x) = Run(n, x)
        BY <3>3, <3>4, RunsJoin
      <4>3. QED
        BY <3>2, <4>1, <4>2
    <3>6. /\ at \in PageStreams /\ at.read = x /\ at.by = stream.by /\ at.sent = stream.sent
          /\ at.out = stream.out /\ at.codings = stream.codings
      BY <3>3, <3>4 DEF PageStreams
    <3>7. \/ stream' \in Through([at EXCEPT !.kept = <<>>], got)
          \/ stream' = [at EXCEPT !.kept = got]
      BY DEF Relays
    <3>8. Run(n, x) \in Seq(Nat) /\ <<>> \in Seq(Nat) /\ Run(x, x) = <<>>
      <4>1. <<>> \in Seq(Nat)
        OBVIOUS
      <4>2. Run(x, x) = <<>>
        BY <3>4, RunOfNone
      <4>3. n <= x
        BY <3>4
      <4> HIDE DEF x
      <4>4. Run(n, x) \in Seq(Nat)
        BY <3>4, <4>3, RunShape
      <4>5. QED
        BY <4>1, <4>2, <4>4
    <3> HIDE DEF x, got, at
    <3> SUFFICES PageInv'
      BY <1>2, <2>2 DEF RespInv
    <3>9. CASE stream' = [at EXCEPT !.kept = got]
      <4>1. /\ stream' \in PageStreams /\ stream'.read = x /\ stream'.by = stream.by
            /\ stream'.sent = stream.sent /\ stream'.out = stream.out
            /\ stream'.codings = stream.codings /\ stream'.kept = Run(n, x)
        BY <3>5, <3>6, <3>8, <3>9 DEF PageStreams
      <4>2. \E k \in 0 .. stream'.read :
                stream'.kept = Run(k, stream'.read) /\ Made(stream'.by, stream'.sent, k)
        BY <3>2, <3>4, <4>1
      <4>3. QED
        BY <1>2, <3>1, <4>1, <4>2 DEF PageInv
    <3>10. CASE stream' \in Through([at EXCEPT !.kept = <<>>], got)
      <4> DEFINE s == [at EXCEPT !.kept = <<>>]
      <4>1. /\ s \in PageStreams /\ s.read = x /\ s.by = stream.by /\ s.sent = stream.sent
            /\ s.out = stream.out /\ s.codings = stream.codings /\ s.kept = <<>>
        BY <3>6, <3>8 DEF PageStreams
      <4>2. stream' \in Through(s, Run(n, x))
        BY <3>5, <3>10
      <4> HIDE DEF s
      <4>3. OnItsWay(s, n)
        BY <3>1, <3>2, <4>1 DEF OnItsWay, PageInv
      <4>4. resp.sound \in BOOLEAN
        BY <1>1 DEF TypeInv, Responses, Flags
      <4>5. /\ OnItsWay(stream', x) /\ stream'.kept = <<>> /\ stream'.read = x
            /\ stream'.out = stream.out
        BY <3>4, <4>1, <4>2, <4>3, <4>4, ThroughKeeps
      <4>6. x \in 0 .. x
        BY <3>4
      <4>7. \E k \in 0 .. stream'.read :
                stream'.kept = Run(k, stream'.read) /\ Made(stream'.by, stream'.sent, k)
        BY <3>8, <4>5, <4>6 DEF OnItsWay
      <4>8. QED
        BY <1>2, <3>1, <4>5, <4>7 DEF PageInv, OnItsWay
    <3>11. QED
      BY <3>7, <3>9, <3>10
  <2>3. QED
    BY <2>1, <2>2
<1>7. CodingIsAsDeclared' /\ ServedAsAllowed' /\ KeptIsTheOrigins' /\ PageIsInOrder'
  BY <1>2, <1>3, NotOutYet
<1>8. QED
  BY <1>3, <1>4, <1>5, <1>6, <1>7 DEF IInv

(* streamer_for(): what the head comes to declare is what the pieces are put
   under. *)
LEMMA HeadsKeeps ==
    ASSUME IInv, Heads
    PROVE  IInv'
<1>1. TypeInv /\ CopyInv /\ StoredInv /\ SeenInv /\ RespInv /\ PassInv
  BY DEF IInv
<1>2. UNCHANGED <<quality, tier, copies, subject, stored, req, origin, seen>> /\ pc = "relaying"
  BY DEF Heads, imageVars
<1>3. StoredInv'
  BY <1>1, <1>2, StoredStays
<1>4. CopyInv'
  BY <1>1, <1>2 DEF CopyInv, AsKeyed
<1>5. FromOrigin(resp, req.accepts) /\ req.accepts \in SUBSET Codes
  BY <1>1, <1>2 DEF RespInv, TypeInv, Requests, Codes
<1>6. resp \in Responses /\ resp.what = Original /\ resp.what.is = "original"
  BY <1>5, KindsNamed DEF FromOrigin
<1>7. CASE pc' = "done" /\ UNCHANGED resp
  <2>1. TypeInv'
    BY <1>1, <1>2, <1>7 DEF TypeInv
  <2>2. RespInv' /\ SeenInv' /\ PassInv'
    BY <1>7 DEF RespInv, SeenInv, PassInv
  <2>3. CodingIsAsDeclared'
    BY <1>2, <1>5, <1>6, <1>7 DEF CodingIsAsDeclared, FromOrigin
  <2>4. KeptIsTheOrigins'
    BY <1>3, <1>6, <1>7 DEF KeptIsTheOrigins, StoredInv, FromOrigin, Original
  <2>5. PageIsInOrder'
    BY <1>6, <1>7 DEF PageIsInOrder
  <2>6. ServedAsAllowed'
    <3>1. subject.about = "picture" =>
            \/ Untouched \in Allowed
            \/ ~Claims(req, resp) /\ \E s \in Allowed : s.as = "encoded"
            \/ origin.ends = "toobig"
      BY <1>1, <1>2 DEF PassInv
    <3>2. Claims(req, resp)' <=> Claims(req, resp)
      BY <1>2, <1>7 DEF Claims
    <3>3. QED
      BY <1>2, <1>6, <1>7, <3>1, <3>2 DEF ServedAsAllowed, Allowed
  <2>7. QED
    BY <1>3, <1>4, <2>1, <2>2, <2>3, <2>4, <2>5, <2>6 DEF IInv
<1>8. CASE pc' = "reading" /\ ~Streamed /\ UNCHANGED resp
  <2>1. TypeInv'
    BY <1>1, <1>2, <1>8 DEF TypeInv
  <2>2. SeenInv'
    BY <1>1, <1>2, <1>8 DEF SeenInv
  <2>3. RespInv'
    BY <1>2, <1>5, <1>6, <1>8 DEF RespInv, FromOrigin
  <2>4. PassInv'
    BY <1>1, <1>2, <1>8 DEF PassInv, Allowed, Claims
  <2>5. CodingIsAsDeclared' /\ ServedAsAllowed' /\ KeptIsTheOrigins' /\ PageIsInOrder'
    BY <1>3, <1>8, NotOutYet
  <2>6. QED
    BY <1>3, <1>4, <2>1, <2>2, <2>3, <2>4, <2>5 DEF IInv
<1>9. CASE /\ pc' = "reading" /\ Streamed
           /\ stream' = [NoStream EXCEPT !.by = NewStreamer(resp, Output), !.out = Output,
                                         !.closed = FALSE]
           /\ resp' = [resp EXCEPT !.declared = Output, !.what = [is |-> "streamed"]]
  <2>1. resp.type = "html" /\ (resp.declared = Identity \/ Known(resp.declared))
    BY <1>9 DEF Streamed, Rewritable
  <2>2. Output \in {"br", "gzip", Identity} /\ Output \in req.accepts \cup {Identity, Unknown}
    <3>1. CASE resp.declared = Identity
      <4>1. Output \in {Best(req.accepts), Identity}
        BY <3>1 DEF Output, StreamingCoding
      <4>2. Best(req.accepts) \in req.accepts \cup {Identity}
        BY <1>5, BestTaken
      <4>3. QED
        BY <1>5, <4>1, <4>2 DEF Codes
    <3>2. CASE resp.declared # Identity
      <4>1. Output = resp.declared /\ Known(resp.declared)
        BY <2>1, <3>2 DEF Output
      <4>2. QED
        BY <1>5, <4>1, KnownCodings DEF Codes, FromOrigin
    <3>3. QED
      BY <3>1, <3>2
  <2> DEFINE o == Output
             k == [is |-> "streamed"]
             by == NewStreamer(resp, o)
  <2>3. o \in CodingNames
    BY <2>2 DEF CodingNames
  <2>4. k \in Kinds /\ k.is = "streamed"
    BY KindsNamed
  <2>5. resp' = [resp EXCEPT !.declared = o, !.what = k]
    BY <1>9
  <2>6. by \in Streamers /\ by.state = "rewriting" /\ by.held = <<>>
    <3>1. <<>> \in Seq(Nat)
      OBVIOUS
    <3>2. Known(resp.declared) \in BOOLEAN
      BY DEF Known
    <3>3. QED
      BY <2>2, <3>1, <3>2 DEF NewStreamer, Streamers
  <2>7. stream' = [by |-> by, out |-> o, read |-> 0, kept |-> <<>>, sent |-> <<>>,
                   codings |-> {}, closed |-> FALSE]
    BY <1>9 DEF NoStream
  <2> HIDE DEF o, k, by
  <2>8. resp' = Headed(resp, o, k)
    BY <2>5 DEF Headed
  <2>9. /\ resp' \in Responses /\ resp'.declared = o /\ resp'.what = k /\ resp'.type = resp.type
        /\ resp'.kept = resp.kept /\ resp'.status = resp.status
    BY <1>6, <2>3, <2>4, <2>8, HeadShape
  <2>10. TypeInv'
    BY <1>1, <1>2, <2>9 DEF TypeInv
  <2>11. SeenInv'
    BY <1>1, <1>2, <1>9 DEF SeenInv
  <2>12. PassInv'
    <3>1. subject.about # "picture"
      BY <1>1, <1>5, <2>1, PicturesAreNoPages DEF FromOrigin, TypeInv
    <3>2. QED
      BY <1>2, <3>1 DEF PassInv
  <2>13. PageInv'
    <3>1. Made(by, <<>>, 0) /\ Run(0, 0) = <<>>
      BY <2>6, MadeAtFirst, RunOfNone
    <3>2. <<>> \in Seq(Nat)
      OBVIOUS
    <3>3. stream' \in PageStreams
      BY <2>3, <2>6, <2>7, <3>2 DEF PageStreams
    <3>4. /\ stream'.out = o /\ stream'.codings = {} /\ stream'.read = 0 /\ stream'.kept = <<>>
          /\ stream'.by = by /\ stream'.sent = <<>>
      BY <2>7
    <3>5. \E n \in 0 .. stream'.read :
            stream'.kept = Run(n, stream'.read) /\ Made(stream'.by, stream'.sent, n)
      <4>1. 0 \in 0 .. 0
        OBVIOUS
      <4>2. QED
        BY <3>1, <3>4, <4>1
    <3>6. resp'.declared \in req'.accepts \cup {Identity, Unknown}
      BY <1>2, <2>2, <2>9 DEF o
    <3>7. resp'.type = "html" /\ subject'.type = "html" /\ resp'.kept = "as origin"
      BY <1>2, <1>5, <2>1, <2>9 DEF FromOrigin
    <3>8. QED
      BY <2>9, <3>3, <3>4, <3>5, <3>6, <3>7 DEF PageInv
  <2>14. RespInv'
    BY <1>9, <2>4, <2>9, <2>13 DEF RespInv
  <2>15. CodingIsAsDeclared' /\ ServedAsAllowed' /\ KeptIsTheOrigins' /\ PageIsInOrder'
    BY <1>3, <1>9, NotOutYet
  <2>16. QED
    BY <1>3, <1>4, <2>10, <2>11, <2>12, <2>14, <2>15 DEF IInv
<1>10. QED
  BY <1>7, <1>8, <1>9 DEF Heads, Finished

(* The end of the origin's body, which is the end of the page. *)
LEMMA ClosesKeeps ==
    ASSUME IInv, Closes
    PROVE  IInv'
<1>1. TypeInv /\ CopyInv /\ StoredInv /\ SeenInv /\ RespInv /\ PassInv
  BY DEF IInv
<1>2. /\ UNCHANGED <<quality, tier, copies, subject, stored, req, origin, resp, seen>>
      /\ pc = "reading" /\ pc' = "done"
  BY DEF Closes, imageVars, Finished
<1>3. StoredInv'
  BY <1>1, <1>2, StoredStays
<1>4. TypeInv' /\ CopyInv'
  BY <1>1, <1>2 DEF TypeInv, CopyInv, AsKeyed
<1>5. RespInv' /\ SeenInv' /\ PassInv'
  BY <1>2 DEF RespInv, SeenInv, PassInv
<1>6. CASE resp.what.is # "streamed"
  <2>1. FromOrigin(resp, req.accepts)
    BY <1>1, <1>2, <1>6 DEF RespInv
  <2>2. resp.what.is = "original"
    BY <2>1, KindsNamed DEF FromOrigin
  <2>3. CodingIsAsDeclared'
    BY <1>2, <1>6, <2>1 DEF CodingIsAsDeclared, FromOrigin
  <2>4. KeptIsTheOrigins'
    BY <1>2, <1>3, <2>2 DEF KeptIsTheOrigins, StoredInv, FromOrigin, Original
  <2>5. PageIsInOrder'
    BY <1>2, <1>6 DEF PageIsInOrder
  <2>6. ServedAsAllowed'
    <3>1. subject.about = "picture" =>
            \/ Untouched \in Allowed
            \/ ~Claims(req, resp) /\ \E s \in Allowed : s.as = "encoded"
            \/ origin.ends = "toobig"
      BY <1>1, <1>2 DEF PassInv
    <3>2. Claims(req, resp)' <=> Claims(req, resp)
      BY <1>2 DEF Claims
    <3>3. QED
      BY <1>2, <2>2, <3>1, <3>2 DEF ServedAsAllowed, Allowed
  <2>7. QED
    BY <1>3, <1>4, <1>5, <2>3, <2>4, <2>5, <2>6 DEF IInv
<1>7. CASE resp.what.is = "streamed"
  <2>1. PageInv
    BY <1>1, <1>2, <1>7 DEF RespInv
  <2>2. PICK n \in 0 .. stream.read :
            stream.kept = Run(n, stream.read) /\ Made(stream.by, stream.sent, n)
    BY <2>1 DEF PageInv
  <2> DEFINE x == stream.read
  <2>3. stream \in PageStreams /\ x \in Nat /\ n \in Nat /\ n <= x
    <3>1. stream \in PageStreams /\ stream.read \in Nat
      BY <2>1 DEF PageInv, PageStreams
    <3>2. QED
      BY <3>1
  <2>4. PICK t \in IF stream.kept = <<>> THEN {stream}
                   ELSE Through([stream EXCEPT !.kept = <<>>], stream.kept) :
            stream' = IF t.by = NoEntry THEN t ELSE Sent([t EXCEPT !.closed = TRUE], Flushed(t.by))
    BY DEF Closes, Ends
  <2>5. OnItsWay(t, x) /\ t.read = x /\ t.out = resp.declared
    <3>1. CASE stream.kept = <<>>
      <4>1. t = stream
        BY <2>4, <3>1
      <4>2. n = x
        <5>1. Run(n, x) \in Seq(Nat) /\ Len(Run(n, x)) = x - n
          BY <2>3, RunShape
        <5>2. Len(Run(n, x)) = 0
          BY <2>2, <3>1
        <5>3. QED
          BY <2>3, <5>1, <5>2
      <4>3. QED
        BY <2>1, <2>2, <2>3, <4>1, <4>2 DEF OnItsWay, PageInv
    <3>2. CASE stream.kept # <<>>
      <4> DEFINE s == [stream EXCEPT !.kept = <<>>]
      <4>1. n < x
        <5>1. n # x
          BY <2>2, <2>3, <3>2, RunOfNone
        <5>2. QED
          BY <2>3, <5>1
      <4>2. <<>> \in Seq(Nat)
        OBVIOUS
      <4>3. /\ s \in PageStreams /\ s.read = x /\ s.by = stream.by /\ s.sent = stream.sent
            /\ s.out = stream.out /\ s.codings = stream.codings
        BY <2>3, <4>2 DEF PageStreams
      <4>4. t \in Through(s, Run(n, x))
        BY <2>2, <2>4, <3>2
      <4> HIDE DEF s
      <4>5. OnItsWay(s, n)
        BY <2>1, <2>2, <4>3 DEF OnItsWay, PageInv
      <4>6. resp.sound \in BOOLEAN
        BY <1>1 DEF TypeInv, Responses, Flags
      <4> HIDE DEF x
      <4>7. OnItsWay(t, x) /\ t.read = s.read /\ t.out = s.out
        BY <2>3, <4>1, <4>3, <4>4, <4>5, <4>6, ThroughKeeps
      <4>8. QED
        BY <2>1, <4>3, <4>7 DEF PageInv
    <3>3. QED
      BY <3>1, <3>2
  <2>6. t \in PageStreams /\ t.by \in Streamers /\ t.by # NoEntry
    BY <2>5, ServedAssumption DEF OnItsWay, PageStreams
  <2> DEFINE c == [t EXCEPT !.closed = TRUE]
             all == t.sent \o Flushed(t.by)
  <2>7. /\ c \in PageStreams /\ c.closed = TRUE /\ c.by = t.by /\ c.sent = t.sent /\ c.read = t.read
        /\ c.out = t.out /\ c.codings = t.codings
    BY <2>6 DEF PageStreams
  <2>8. Flushed(t.by) \in Seq(Nat)
    <3>1. <<>> \in Seq(Nat)
      OBVIOUS
    <3>2. QED
      BY <2>6, <3>1 DEF Flushed, Streamers
  <2>9. stream' = Sent(c, Flushed(t.by))
    BY <2>4, <2>6
  <2> HIDE DEF c
  <2>10. /\ stream'.sent = all /\ stream'.by = t.by /\ stream'.read = t.read
         /\ stream'.closed = TRUE /\ stream'.codings \subseteq {c.out}
    <3>1. c.codings \subseteq {c.out}
      BY <2>5, <2>7 DEF OnItsWay
    <3> DEFINE out == Flushed(t.by)
    <3>2. out \in Seq(Nat) /\ stream' = Sent(c, out) /\ all = t.sent \o out
      BY <2>8, <2>9
    <3> HIDE DEF out, all
    <3>3. /\ stream'.sent = c.sent \o out /\ stream'.by = c.by /\ stream'.read = c.read
          /\ stream'.closed = c.closed /\ stream'.codings \subseteq {c.out}
      BY <2>7, <3>1, <3>2, SentShape
    <3>4. QED
      BY <2>7, <3>2, <3>3
  <2>11. CodingIsAsDeclared'
    BY <1>2, <1>7, <2>1, <2>5, <2>7, <2>10 DEF CodingIsAsDeclared, PageInv
  <2>12. KeptIsTheOrigins'
    BY <1>2, <1>3, <1>7 DEF KeptIsTheOrigins, StoredInv, FromOrigin, Original
  <2>13. ServedAsAllowed'
    <3>1. subject.about # "picture"
      <4>1. subject.type = "html"
        BY <2>1 DEF PageInv
      <4>2. QED
        BY <1>1, <4>1, PicturesAreNoPages DEF TypeInv
    <3>2. QED
      BY <1>2, <3>1 DEF ServedAsAllowed
  <2>14. PageIsInOrder'
    <3> DEFINE lost == (1 .. x) \ Range(all)
    <3>1. /\ Increasing(all)
          /\ t.by.state = "rewriting" => lost = {}
          /\ t.by.state = "passing" =>
               /\ x > 0 => x \in Range(all)
               /\ \A a, b \in lost : \A k \in a .. b : k \in lost
      BY <2>3, <2>5, <2>6, MadeIsInOrder DEF OnItsWay
    <3> HIDE DEF all, x
    <3>2. stream'.read = x
      BY <2>5, <2>10
    <3>3. QED
      BY <2>10, <3>1, <3>2 DEF PageIsInOrder
  <2>15. QED
    BY <1>3, <1>4, <1>5, <2>11, <2>12, <2>13, <2>14 DEF IInv
<1>8. QED
  BY <1>6, <1>7

LEMMA ServedByEveryStep ==
    ASSUME IInv, [Next]_vars
    PROVE  IInv'
  BY ArrivesKeeps, FetchesKeeps, FromStoreKeeps, HoldsKeeps, ReadsKeeps, RewritesKeeps, HeadsKeeps,
     RelaysKeeps, ClosesKeeps, LeavesKeeps, ChangesKeep, ClearsKeeps, StutterKeeps DEF Next

LEMMA ServedAlways == Spec => []IInv
<1>1. Init => IInv
  BY ServedAtFirst
<1>2. IInv /\ [Next]_vars => IInv'
  BY ServedByEveryStep
<1>3. QED
  BY <1>1, <1>2, PTL DEF Spec

-----------------------------------------------------------------------------
(* The body that a client gets is under the coding that its head names, which
   is the origin's or one that the client asked for, whatever decode(), the
   chain, encode(), ensure_compressed() or the streamer made of it. *)
THEOREM Coded == Spec => []CodingIsAsDeclared
<1>1. IInv => CodingIsAsDeclared
  BY DEF IInv
<1>2. QED
  BY <1>1, ServedAlways, PTL

(* A picture is served as some setting of the panel and some tier of the link
   asked for while its request was under way: serving(), whose worse of the two
   no copy in the cache, whoever had it made, and no answer on its way past
   gets around. *)
THEOREM AskedFor == Spec => []ServedAsAllowed
<1>1. IInv => ServedAsAllowed
  BY DEF IInv
<1>2. QED
  BY <1>1, ServedAlways, PTL

(* The http cache holds whole answers in the origin's own bytes, and a client is
   told to keep no grey copy, no blur and no pixel that stood in for a picture:
   store(), and Images::on_response. *)
THEOREM KeptAsItCame == Spec => []KeptIsTheOrigins
<1>1. IInv => KeptIsTheOrigins
  BY DEF IInv
<1>2. QED
  BY <1>1, ServedAlways, PTL

(* The pieces of a page go out in order and once, past plugins that hold some
   back and a parser that waits, refuses the document or fails to decode it:
   all of them where it took the document, all but one run of them where it
   refused it. *)
THEOREM InOrder == Spec => []PageIsInOrder
<1>1. IInv => PageIsInOrder
  BY DEF IInv
<1>2. QED
  BY <1>1, ServedAlways, PTL
=============================================================================
