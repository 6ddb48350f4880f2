----------------------------- MODULE LearnProofs -----------------------------
(***************************************************************************)
(* What learn derives, for every pace of beats: the thresholds are in      *)
(* order, none is below what was observed, and each is spelled in a way    *)
(* that is read back as it is. What is started with, for every file and    *)
(* environment: what wins, which keys are answered for, which keys rules   *)
(* have. And both together: what learn prints loads, and would not have    *)
(* warned of what was observed. Times are in milliseconds.                 *)
(***************************************************************************)
EXTENDS Learn, SetLemmas, SequenceTheorems

-----------------------------------------------------------------------------
(* Arithmetic *)

\* Max of two numbers, which the library defines by CHOOSE.
LEMMA MaxOfTwo ==
    ASSUME NEW a \in Int, NEW b \in Int
    PROVE  /\ Max({a, b}) \in Int
           /\ Max({a, b}) >= a /\ Max({a, b}) >= b
           /\ Max({a, b}) \in {a, b}
<1> DEFINE Tops(x) == \A y \in {a, b} : x >= y
<1>1. \E x \in {a, b} : Tops(x)
  <2>1. CASE a >= b
    BY <2>1, SMT
  <2>2. CASE ~(a >= b)
    BY <2>2, SMT
  <2> QED BY <2>1, <2>2
<1>2. Max({a, b}) \in {a, b} /\ Tops(Max({a, b}))
  <2> HIDE DEF Tops
  <2>1. Max({a, b}) = CHOOSE x \in {a, b} : Tops(x)
    BY DEF Max, Tops
  <2> QED BY <1>1, <2>1, Zenon
<1> QED BY <1>2, SMT

\* The quotient rounded up, times the divisor, is the next multiple of it.
LEMMA CeilDivCovers ==
    ASSUME NEW n \in Nat, NEW d \in Nat \ {0}
    PROVE  /\ CeilDiv(n, d) \in Nat
           /\ CeilDiv(n, d) * d >= n
           /\ CeilDiv(n, d) * d < n + d
<1> DEFINE q == (n + d - 1) \div d
<1>1. q \in Nat
  BY SMT
<1>2. q * d >= n /\ q * d < n + d
  BY SMT
<1> QED BY <1>1, <1>2 DEF CeilDiv

-----------------------------------------------------------------------------
(* Rounding *)

\* What is spelled as it is: whole seconds, and from an hour on whole minutes.
Exact(d) == d % Second = 0 /\ (d >= Hour => d % Minute = 0)

LEMMA ExactIsReadBack ==
    ASSUME NEW d \in Nat, Exact(d)
    PROVE  Spell(d) = d
BY SMT DEF Exact, Spell, Second, Minute, Hour

\* The steps there are, and the quantities each is for.
LEMMA Steps ==
    ASSUME NEW d \in Nat
    PROVE  \/ StepFor(d) \in {1, 5, 30} /\ d < 601000
           \/ StepFor(d) \in {60, 900, 3600}
<1>1. d \div Second <= 600 => d < 601000
  BY SMT DEF Second
<1> QED BY <1>1, SMT DEF StepFor, Second

\* A multiple of a step, near a quantity the step is for, is exact.
LEMMA MultiplesAreExact ==
    ASSUME NEW d \in Nat, NEW n \in Nat, n * StepFor(d) * Second < d + (StepFor(d) + 1) * Second
    PROVE  n * StepFor(d) * Second \in Nat /\ Exact(n * StepFor(d) * Second)
<1>1. CASE StepFor(d) \in {1, 5, 30} /\ d < 601000
  BY <1>1, SMT DEF Exact, Second, Minute, Hour
<1>2. CASE StepFor(d) = 60
  BY <1>2, SMT DEF Exact, Second, Minute, Hour
<1>3. CASE StepFor(d) = 900
  BY <1>3, SMT DEF Exact, Second, Minute, Hour
<1>4. CASE StepFor(d) = 3600
  BY <1>4, SMT DEF Exact, Second, Minute, Hour
<1> QED BY <1>1, <1>2, <1>3, <1>4, Steps

\* round_up: never below what it rounds.
LEMMA RoundUpCovers ==
    ASSUME NEW d \in Nat
    PROVE  /\ RoundUp(d) \in Nat
           /\ RoundUp(d) >= d /\ RoundUp(d) >= Second
           /\ RoundUp(d) < d + (StepFor(d) + 1) * Second
           /\ Exact(RoundUp(d))
<1> DEFINE c == CeilDiv(d, Second)
           m == Max({1, c})
           n == CeilDiv(m, StepFor(d))
<1>1. c \in Nat /\ c * Second >= d /\ c * Second < d + Second
  BY CeilDivCovers DEF Second
<1>2. m \in Nat /\ m >= 1 /\ m >= c /\ m \in {1, c}
  <2> HIDE DEF c, m
  <2>1. c \in Int /\ 1 \in Int
    BY <1>1
  <2>2. m \in Int /\ m >= 1 /\ m >= c /\ m \in {1, c}
    BY <2>1, MaxOfTwo, Zenon DEF m
  <2> QED BY <2>2, SMT
<1>3. StepFor(d) \in Nat \ {0}
  BY Steps, SMT
<1>4. n \in Nat /\ n * StepFor(d) >= m /\ n * StepFor(d) < m + StepFor(d)
  <2> HIDE DEF m
  <2> QED BY <1>2, <1>3, CeilDivCovers
<1>5. RoundUp(d) = n * StepFor(d) * Second
  BY DEF RoundUp
<1> HIDE DEF n, m, c
<1>6. \A x \in Nat : x >= m =>
        /\ x * Second >= d
        /\ x * Second >= Second
  BY <1>1, <1>2, SMT DEF Second
<1>7. n * StepFor(d) \in Nat
  BY <1>3, <1>4, SMT
<1>8. \A x, s \in Nat : x < m + s /\ s >= 1 => x * Second < d + (s + 1) * Second
  BY <1>1, <1>2, SMT DEF Second
<1>9. n * StepFor(d) * Second < d + (StepFor(d) + 1) * Second
  BY <1>3, <1>4, <1>7, <1>8, SMT
<1>10. n * StepFor(d) * Second \in Nat /\ Exact(n * StepFor(d) * Second)
  BY <1>4, <1>9, MultiplesAreExact
<1> QED BY <1>4, <1>5, <1>6, <1>7, <1>9, <1>10

\* round_nearest, and what alive_thresholds makes of it.
LEMMA RoundNearestIsExact ==
    ASSUME NEW d \in Nat
    PROVE  /\ RoundNearest(d) \in Nat /\ RoundNearest(d) >= Second
           /\ Exact(RoundNearest(d)) /\ Exact(2 * RoundNearest(d))
<1> DEFINE step == StepFor(d)
           x == ((d \div Second + step \div 2) \div step) * step
<1>1. RoundNearest(d) = Max({1, x}) * Second
  BY DEF RoundNearest
<1>2. x \in Nat /\ (step <= 30 => x <= 616) /\ (step > 30 => x % 60 = 0)
  <2>1. CASE step = 1 /\ d < 601000
    BY <2>1, SMT DEF Second
  <2>2. CASE step = 5 /\ d < 601000
    BY <2>2, SMT DEF Second
  <2>3. CASE step = 30 /\ d < 601000
    BY <2>3, SMT DEF Second
  <2>4. CASE step = 60
    BY <2>4, SMT DEF Second
  <2>5. CASE step = 900
    BY <2>5, SMT DEF Second
  <2>6. CASE step = 3600
    BY <2>6, SMT DEF Second
  <2> QED BY <2>1, <2>2, <2>3, <2>4, <2>5, <2>6, Steps
<1> HIDE DEF x, step
<1>3. Max({1, x}) \in {1, x} /\ Max({1, x}) >= 1
  BY <1>2, MaxOfTwo
<1>4. \A y \in Nat : y >= 1 /\ (y <= 616 \/ y % 60 = 0) =>
        /\ y * Second \in Nat /\ y * Second >= Second
        /\ Exact(y * Second) /\ Exact(2 * (y * Second))
  BY SMT DEF Exact, Second, Minute, Hour
<1>5. Max({1, x}) \in Nat /\ (Max({1, x}) <= 616 \/ Max({1, x}) % 60 = 0)
  <2>1. step <= 30 \/ step > 30
    BY Steps, SMT DEF step
  <2> QED BY <1>2, <1>3, <2>1, SMT
<1> QED BY <1>1, <1>3, <1>4, <1>5

-----------------------------------------------------------------------------
(* What is derived *)

\* Whatever the pace of the beats, the thresholds derived for the heartbeat are
\* accepted when they are read (RawAlive::resolve), are all spelled exactly, and no
\* gap as long as the worst that was seen would be warned of (alive_thresholds).
THEOREM AliveThresholdsHold ==
    ASSUME NEW median \in Nat, NEW worst \in Nat
    PROVE  LET t == AliveThresholds(median, worst)
           IN  /\ AliveAccepted(t)
               /\ t.warn_after > worst
               /\ \A k \in DOMAIN t : t[k] \in Nat /\ Spell(t[k]) = t[k]
<1> DEFINE expect == RoundNearest(median)
           up == RoundUp(4 * worst)
           warn == Max({up, 2 * expect})
           higher == RoundUp(3 * warn)
           critical == Max({higher, warn + Second})
           t == AliveThresholds(median, worst)
<1>1. expect \in Nat /\ expect >= Second /\ Exact(expect) /\ Exact(2 * expect)
  BY RoundNearestIsExact
<1>2. up \in Nat /\ up >= 4 * worst /\ up >= Second /\ Exact(up)
  <2>1. 4 * worst \in Nat
    BY SMT
  <2> QED BY <2>1, RoundUpCovers
<1>3. t = [expect_every |-> expect, warn_after |-> warn, critical_after |-> critical]
  BY DEF AliveThresholds
<1> HIDE DEF expect, up, t
<1>4. warn \in Nat /\ warn >= up /\ warn >= 2 * expect /\ Exact(warn)
  <2>1. up \in Int /\ 2 * expect \in Int
    BY <1>1, <1>2, SMT
  <2>2. warn >= up /\ warn >= 2 * expect /\ warn \in {up, 2 * expect}
    BY <2>1, MaxOfTwo, Zenon
  <2> HIDE DEF warn
  <2>3. warn \in Nat
    BY <1>1, <1>2, <2>2, SMT
  <2> QED BY <1>1, <1>2, <2>2, <2>3
<1> HIDE DEF warn
<1>5. higher \in Nat /\ higher >= 3 * warn /\ Exact(higher)
  <2>1. 3 * warn \in Nat
    BY <1>4, SMT
  <2> QED BY <2>1, RoundUpCovers
<1> HIDE DEF higher
<1>6. critical \in Nat /\ critical > warn /\ Exact(critical)
  <2>1. higher \in Int /\ warn + Second \in Int
    BY <1>4, <1>5, SMT DEF Second
  <2>2. critical >= warn + Second /\ critical \in {higher, warn + Second}
    BY <2>1, MaxOfTwo, Zenon
  <2>3. higher >= warn + Second
    BY <1>2, <1>4, <1>5, SMT DEF Second
  <2>4. critical >= higher
    BY <2>1, MaxOfTwo, Zenon
  <2> HIDE DEF critical
  <2>5. critical = higher
    BY <1>4, <1>5, <2>2, <2>3, <2>4, SMT DEF Second
  <2> QED BY <1>4, <1>5, <2>2, <2>5, SMT DEF Second
<1> HIDE DEF critical
<1>7. AliveAccepted(t)
  BY <1>1, <1>3, <1>4, <1>6, SMT DEF AliveAccepted, Second
<1>8. t.warn_after > worst
  BY <1>2, <1>3, <1>4, SMT DEF Second
<1>9. \A x \in {expect, warn, critical} : x \in Nat /\ Spell(x) = x
  BY <1>1, <1>4, <1>6, ExactIsReadBack
<1>10. \A k \in DOMAIN t : t[k] \in {expect, warn, critical}
  BY <1>3
<1> QED BY <1>7, <1>8, <1>9, <1>10 DEF t

\* Likewise for the work and the data of a job (silence_thresholds, RawSilence::resolve).
THEOREM SilenceThresholdsHold ==
    ASSUME NEW worst \in Nat
    PROVE  LET t == SilenceThresholds(worst)
           IN  /\ SilenceAccepted(t)
               /\ t.warn_after > worst
               /\ \A k \in DOMAIN t : t[k] \in Nat /\ Spell(t[k]) = t[k]
<1> DEFINE quarter == (5 * worst) \div 4
           half == (5 * worst) \div 2
           up == RoundUp(quarter)
           warn == Max({up, Second})
           higher == RoundUp(half)
           critical == Max({higher, warn + Second})
           t == SilenceThresholds(worst)
<1>1. /\ quarter \in Nat /\ half \in Nat /\ 2 * quarter <= half
      /\ quarter > worst \/ worst < Second
  BY SMT DEF Second
<1>2. t = [warn_after |-> warn, critical_after |-> critical]
  BY DEF SilenceThresholds
<1> HIDE DEF quarter, half, t
<1>3. /\ up \in Nat /\ up >= quarter /\ up >= Second /\ Exact(up)
      /\ up < quarter + (StepFor(quarter) + 1) * Second
  BY <1>1, RoundUpCovers
<1>4. higher \in Nat /\ higher >= half /\ Exact(higher)
  BY <1>1, RoundUpCovers
<1> HIDE DEF up, higher
<1>5. warn = up
  <2>1. up \in Int /\ Second \in Int
    BY <1>3 DEF Second
  <2>2. warn >= up /\ warn \in {up, Second}
    BY <2>1, MaxOfTwo, Zenon
  <2> HIDE DEF warn
  <2> QED BY <1>3, <2>2, SMT DEF Second
<1> HIDE DEF warn
<1>6. critical \in {higher, warn + Second} /\ critical >= warn + Second /\ critical >= higher
  <2>1. higher \in Int /\ warn + Second \in Int
    BY <1>3, <1>4, <1>5, SMT DEF Second
  <2> QED BY <2>1, MaxOfTwo, Zenon
<1> HIDE DEF critical
\* The second is added only where the steps are seconds too.
<1>7. higher >= warn + Second \/ warn + Second < Hour
  <2>1. StepFor(quarter) = 1 => quarter < 11000
    BY <1>1, SMT DEF StepFor, Second
  <2>2. StepFor(quarter) # 1 => quarter >= (StepFor(quarter) + 2) * Second
    BY <1>1, SMT DEF StepFor, Second
  <2>3. StepFor(quarter) \in Nat
    BY <1>1, Steps, SMT
  <2>4. CASE StepFor(quarter) = 1
    BY <1>1, <1>3, <1>5, <2>1, <2>4, SMT DEF Second, Hour, Minute
  <2>5. CASE StepFor(quarter) # 1
    BY <1>1, <1>3, <1>4, <1>5, <2>2, <2>3, <2>5, SMT DEF Second
  <2> QED BY <2>4, <2>5
<1>8. critical \in Nat /\ critical > warn /\ Exact(critical)
  <2>1. CASE higher >= warn + Second
    <3>1. critical = higher
      BY <1>3, <1>4, <1>5, <1>6, <2>1, SMT DEF Second
    <3> QED BY <1>3, <1>4, <1>5, <1>6, <3>1, SMT DEF Second
  <2>2. CASE warn + Second < Hour
    <3>1. critical \in Nat /\ critical > warn
      BY <1>3, <1>4, <1>5, <1>6, SMT DEF Second
    <3>2. Exact(warn + Second)
      BY <1>3, <1>5, <2>2, SMT DEF Exact, Second, Minute, Hour
    <3> QED BY <1>4, <1>6, <3>1, <3>2
  <2> QED BY <1>7, <2>1, <2>2
<1>9. SilenceAccepted(t)
  BY <1>2, <1>3, <1>5, <1>8, SMT DEF SilenceAccepted, Second
<1>10. t.warn_after > worst
  BY <1>1, <1>2, <1>3, <1>5, SMT DEF Second
<1>11. \A x \in {warn, critical} : x \in Nat /\ Spell(x) = x
  BY <1>3, <1>5, <1>8, ExactIsReadBack
<1>12. \A k \in DOMAIN t : t[k] \in {warn, critical}
  BY <1>2
<1> QED BY <1>9, <1>10, <1>11, <1>12 DEF t

-----------------------------------------------------------------------------
(* What is printed, and read *)

\* A tree with a block in it, whatever else there is.
Holds(tree, block) == \A q \in DOMAIN block : q \in DOMAIN tree /\ tree[q] = block[q]

\* A setting of a block, wherever the block is put.
LEMMA SettingIsRead ==
    ASSUME NEW Segment, NEW p \in Seq(Segment), NEW t, NEW tree, Holds(tree, Block(p, t)),
           NEW k \in DOMAIN t, k \in Segment
    PROVE  p \o <<k>> \in DOMAIN tree /\ tree[p \o <<k>>].is = Spell(t[k])
<1> DEFINE q == p \o <<k>>
<1>1. Len(q) = Len(p) + 1 /\ q[Len(q)] = k
  BY SMT
<1>2. q # p
  BY <1>1, SMT
<1>3. q \in DOMAIN Block(p, t)
  BY DEF Block
<1> HIDE DEF q
<1>4. Block(p, t)[q] = Number(Spell(t[k]))
  BY <1>1, <1>2, <1>3 DEF Block
<1>5. q \in DOMAIN tree /\ tree[q] = Number(Spell(t[k]))
  BY <1>3, <1>4 DEF Holds
<1> QED BY <1>5 DEF q, Number

\* The heartbeat block that learn prints, put into any configuration, is
\* read back as the thresholds that were derived (alive_block, spell,
\* RawAlive::resolve).
THEOREM AliveBlockIsReadBack ==
    ASSUME NEW Segment, {"expect_every", "warn_after", "critical_after"} \subseteq Segment,
           NEW p \in Seq(Segment), NEW tree, NEW median \in Nat, NEW worst \in Nat,
           Holds(tree, Block(p, AliveThresholds(median, worst)))
    PROVE  Alive(tree, p) = AliveThresholds(median, worst)
<1> DEFINE t == AliveThresholds(median, worst)
           keys == {"expect_every", "warn_after", "critical_after"}
<1>1. DOMAIN t = keys /\ t = [expect_every |-> t.expect_every, warn_after |-> t.warn_after,
                              critical_after |-> t.critical_after]
  BY DEF AliveThresholds
<1>2. \A k \in DOMAIN t : Spell(t[k]) = t[k]
  BY AliveThresholdsHold
<1>3. Holds(tree, Block(p, t))
  OBVIOUS
<1> HIDE DEF t
<1>4. \A k \in keys : p \o <<k>> \in DOMAIN tree /\ tree[p \o <<k>>].is = t[k]
  <2> TAKE k \in keys
  <2>1. k \in DOMAIN t
    BY <1>1, Zenon
  <2>2. k \in Segment
    OBVIOUS
  <2>3. p \o <<k>> \in DOMAIN tree /\ tree[p \o <<k>>].is = Spell(t[k])
    BY <1>3, <2>1, <2>2, SettingIsRead
  <2> QED BY <1>2, <2>1, <2>3
<1>5. Alive(tree, p) =
        [expect_every |-> t.expect_every, warn_after |-> t.warn_after,
         critical_after |-> t.critical_after]
  BY <1>4 DEF Alive, Get, Has
<1>6. Alive(tree, p) = t
  BY <1>1, <1>5
<1> QED BY <1>6 DEF t

\* And so is the block for the work or the data of a job (worked_block,
\* freshness_block, RawSilence::resolve).
THEOREM SilenceBlockIsReadBack ==
    ASSUME NEW Segment, {"warn_after", "critical_after"} \subseteq Segment,
           NEW p \in Seq(Segment), NEW tree, NEW worst \in Nat,
           Holds(tree, Block(p, SilenceThresholds(worst)))
    PROVE  Silence(tree, p) = SilenceThresholds(worst)
<1> DEFINE t == SilenceThresholds(worst)
           keys == {"warn_after", "critical_after"}
<1>1. DOMAIN t = keys /\ t = [warn_after |-> t.warn_after, critical_after |-> t.critical_after]
  BY DEF SilenceThresholds
<1>2. \A k \in DOMAIN t : Spell(t[k]) = t[k]
  BY SilenceThresholdsHold
<1>3. Holds(tree, Block(p, t))
  OBVIOUS
<1> HIDE DEF t
<1>4. \A k \in keys : p \o <<k>> \in DOMAIN tree /\ tree[p \o <<k>>].is = t[k]
  <2> TAKE k \in keys
  <2>1. k \in DOMAIN t
    BY <1>1, Zenon
  <2>2. k \in Segment
    OBVIOUS
  <2>3. p \o <<k>> \in DOMAIN tree /\ tree[p \o <<k>>].is = Spell(t[k])
    BY <1>3, <2>1, <2>2, SettingIsRead
  <2> QED BY <1>2, <2>1, <2>3
<1>5. Silence(tree, p) = [warn_after |-> t.warn_after, critical_after |-> t.critical_after]
  BY <1>4 DEF Silence, Get, Has
<1>6. Silence(tree, p) = t
  BY <1>1, <1>5
<1> QED BY <1>6 DEF t

-----------------------------------------------------------------------------
(* Paths *)

\* What a path of a file begins with.
LEMMA PathPrefix ==
    ASSUME NEW S, NEW p \in Seq(S), NEW n \in 0..Len(p)
    PROVE  /\ SubSeq(p, 1, n) \in Seq(S) /\ Len(SubSeq(p, 1, n)) = n
           /\ \A i \in 1..n : SubSeq(p, 1, n)[i] = p[i]
           /\ \A m \in 0..n : SubSeq(SubSeq(p, 1, n), 1, m) = SubSeq(p, 1, m)
<1>1. Len(p) \in Nat /\ n \in Nat /\ \A i \in 1..n : p[i] \in S
  BY LenProperties
<1>2. /\ SubSeq(p, 1, n) \in Seq(S) /\ Len(SubSeq(p, 1, n)) = n
      /\ \A i \in 1..n : SubSeq(p, 1, n)[i] = p[i]
  BY <1>1, SubSeqProperties
<1>3. ASSUME NEW m \in 0..n
      PROVE  SubSeq(SubSeq(p, 1, n), 1, m) = SubSeq(p, 1, m)
  <2> DEFINE u == SubSeq(p, 1, n)
             s == SubSeq(u, 1, m)
             t == SubSeq(p, 1, m)
  <2>1. /\ s \in Seq(S) /\ Len(s) = m /\ \A i \in 1..m : s[i] = u[i]
    <3>1. \A i \in 1..m : u[i] \in S
      BY <1>1, <1>2
    <3> HIDE DEF u
    <3> QED
      BY <1>1, <3>1, SubSeqProperties
  <2>2. t \in Seq(S) /\ Len(t) = m /\ \A i \in 1..m : t[i] = p[i]
    BY <1>1, SubSeqProperties
  <2>3. \A i \in 1..m : s[i] = t[i]
    BY <1>1, <1>2, <2>1, <2>2
  <2> HIDE DEF s, t
  <2>4. s = t
    BY <2>1, <2>2, <2>3, SeqEqual
  <2> QED
    BY <2>4 DEF s, t
<1> QED
  BY <1>2, <1>3

\* A key in a table.
LEMMA PathChild ==
    ASSUME NEW S, NEW p \in Seq(S), NEW k \in S
    PROVE  /\ p \o <<k>> \in Seq(S) /\ Len(p \o <<k>>) = Len(p) + 1
           /\ (p \o <<k>>)[Len(p) + 1] = k
           /\ \A i \in 1..Len(p) : (p \o <<k>>)[i] = p[i]
           /\ \A n \in 0..Len(p) : SubSeq(p \o <<k>>, 1, n) = SubSeq(p, 1, n)
           /\ SubSeq(p \o <<k>>, 1, Len(p) + 1) = p \o <<k>>
           /\ Parent(p \o <<k>>) = p
<1> DEFINE q == p \o <<k>>
<1>1. Len(p) \in Nat /\ <<k>> \in Seq(S) /\ Len(<<k>>) = 1 /\ <<k>>[1] = k
  BY LenProperties
<1>2. /\ q \in Seq(S) /\ Len(q) = Len(p) + 1
      /\ q[Len(p) + 1] = k /\ \A i \in 1..Len(p) : q[i] = p[i]
  BY <1>1, ConcatProperties
<1> HIDE DEF q
<1>3. ASSUME NEW n \in 0..Len(p)
      PROVE  SubSeq(q, 1, n) = SubSeq(p, 1, n)
  <2>1. n \in 0..Len(q) /\ n \in 0..Len(p)
    BY <1>1, <1>2
  <2>2. /\ SubSeq(q, 1, n) \in Seq(S) /\ Len(SubSeq(q, 1, n)) = n
        /\ \A i \in 1..n : SubSeq(q, 1, n)[i] = q[i]
    BY <1>2, <2>1, PathPrefix
  <2>3. /\ SubSeq(p, 1, n) \in Seq(S) /\ Len(SubSeq(p, 1, n)) = n
        /\ \A i \in 1..n : SubSeq(p, 1, n)[i] = p[i]
    BY <2>1, PathPrefix
  <2>4. \A i \in 1..n : SubSeq(q, 1, n)[i] = SubSeq(p, 1, n)[i]
    BY <1>1, <1>2, <2>2, <2>3
  <2> QED
    BY <2>2, <2>3, <2>4, SeqEqual
<1>4. SubSeq(q, 1, Len(q)) = q /\ SubSeq(p, 1, Len(p)) = p
  BY <1>2, SubSeqFull
<1>5. Parent(q) = p
  <2>1. Len(q) - 1 = Len(p) /\ Len(p) \in 0..Len(p)
    BY <1>1, <1>2
  <2> QED
    BY <1>3, <1>4, <2>1 DEF Parent
<1> QED
  BY <1>2, <1>3, <1>4, <1>5 DEF q

LEMMA KeyBelow ==
    ASSUME NEW S, NEW p \in Seq(S)
    PROVE  \A k \in S :
            /\ p \o <<k>> \in Seq(S) /\ Len(p \o <<k>>) = Len(p) + 1
            /\ (p \o <<k>>)[Len(p) + 1] = k
            /\ \A m \in 0..Len(p) : SubSeq(p \o <<k>>, 1, m) = SubSeq(p, 1, m)
            /\ SubSeq(p \o <<k>>, 1, Len(p)) = SubSeq(p, 1, Len(p))
            /\ Parent(p \o <<k>>) = p
<1> TAKE k \in S
<1>1. Len(p) \in 0..Len(p)
  BY LenProperties
<1> QED
  BY <1>1, PathChild

\* A path is its parent and its last segment.
LEMMA PathParent ==
    ASSUME NEW S, NEW q \in Seq(S), q # <<>>
    PROVE  /\ Len(q) \in Nat \ {0} /\ q[Len(q)] \in S
           /\ Parent(q) \in Seq(S) /\ Len(Parent(q)) = Len(q) - 1
           /\ q = Parent(q) \o <<q[Len(q)]>>
<1>1. Len(q) \in Nat \ {0}
  BY EmptySeq
<1>2. q[Len(q)] \in S
  BY <1>1, ElementOfSeq
<1>3. Len(q) - 1 \in 0..Len(q)
  BY <1>1
<1>4. /\ Parent(q) \in Seq(S) /\ Len(Parent(q)) = Len(q) - 1
      /\ \A i \in 1..(Len(q) - 1) : Parent(q)[i] = q[i]
  BY <1>3, PathPrefix DEF Parent
<1> DEFINE p == Parent(q)
           k == q[Len(q)]
           r == p \o <<k>>
<1>5. /\ r \in Seq(S) /\ Len(r) = Len(p) + 1 /\ r[Len(p) + 1] = k
      /\ \A i \in 1..Len(p) : r[i] = p[i]
  <2> HIDE DEF p, k
  <2> QED
    BY <1>2, <1>4, PathChild DEF p, k
<1> HIDE DEF r
<1>6. \A i \in 1..Len(q) : q[i] = r[i]
  BY <1>1, <1>4, <1>5
<1>7. Len(q) = Len(r)
  BY <1>1, <1>4, <1>5
<1>8. q = r
  BY <1>5, <1>6, <1>7, SeqEqual
<1> QED
  BY <1>1, <1>2, <1>4, <1>8 DEF r

-----------------------------------------------------------------------------
(* Files *)

LEMMA RootHasNoPrefix ==
    \A n \in 0..Len(<<>>) : n = 0 /\ SubSeq(<<>>, 1, n) = <<>>
<1>1. Len(<<>>) = 0 /\ SubSeq(<<>>, 1, 0) = <<>>
  BY EmptySeq, SubSeqEmpty
<1> QED
  BY <1>1

\* A tree stays one with what is laid over it, if that has nothing without what it is in.
LEMMA OverIsTree ==
    ASSUME NEW tree, IsTree(tree), NEW more,
           \A p \in DOMAIN more : p \in Seq(STRING)
                /\ \A n \in 0..Len(p) : SubSeq(p, 1, n) \in DOMAIN tree \cup DOMAIN more
    PROVE  IsTree(Over(tree, more))
<1>1. DOMAIN Over(tree, more) = DOMAIN tree \cup DOMAIN more
  BY DEF Over
<1> QED
  BY <1>1, Zenon DEF IsTree

\* A block in a table of the tree.
LEMMA BlockIsInTree ==
    ASSUME NEW tree, IsTree(tree), NEW j \in DOMAIN tree, NEW a \in STRING,
           NEW t, DOMAIN t \subseteq STRING
    PROVE  \A p \in DOMAIN Block(j \o <<a>>, t) :
                /\ p \in Seq(STRING)
                /\ \A n \in 0..Len(p) :
                        SubSeq(p, 1, n) \in DOMAIN tree \cup DOMAIN Block(j \o <<a>>, t)
<1> DEFINE b == j \o <<a>>
           D == DOMAIN Block(b, t)
<1>1. j \in Seq(STRING) /\ Len(j) \in Nat /\ \A n \in 0..Len(j) : SubSeq(j, 1, n) \in DOMAIN tree
  BY LenProperties DEF IsTree
<1>2. /\ b \in Seq(STRING) /\ Len(b) = Len(j) + 1 /\ SubSeq(b, 1, Len(j) + 1) = b
      /\ \A n \in 0..Len(j) : SubSeq(b, 1, n) = SubSeq(j, 1, n)
  BY <1>1, PathChild
<1> HIDE DEF b
<1>3. D = {b} \cup {b \o <<k>> : k \in DOMAIN t}
  BY DEF Block
<1> HIDE DEF D
<1>4. \A n \in 0..Len(b) : SubSeq(b, 1, n) \in DOMAIN tree \cup D
  <2> TAKE n \in 0..Len(b)
  <2>1. n \in 0..Len(j) \/ n = Len(j) + 1
    BY <1>1, <1>2
  <2>2. CASE n \in 0..Len(j)
    <3>1. SubSeq(b, 1, n) = SubSeq(j, 1, n) /\ SubSeq(j, 1, n) \in DOMAIN tree
      BY <1>1, <1>2, <2>2
    <3> QED
      BY <3>1
  <2>3. CASE n = Len(j) + 1
    BY <1>2, <1>3, <2>3
  <2> QED
    BY <2>1, <2>2, <2>3
<1>5. ASSUME NEW p \in D
      PROVE  p \in Seq(STRING) /\ \A n \in 0..Len(p) : SubSeq(p, 1, n) \in DOMAIN tree \cup D
  <2>1. CASE p = b
    BY <1>2, <1>4, <2>1
  <2>2. CASE p # b
    <3>1. PICK k \in DOMAIN t : p = b \o <<k>>
      BY <1>3, <2>2
    <3>2. k \in STRING
      OBVIOUS
    <3>3. /\ p \in Seq(STRING) /\ Len(p) = Len(b) + 1 /\ SubSeq(p, 1, Len(b) + 1) = p
          /\ \A n \in 0..Len(b) : SubSeq(p, 1, n) = SubSeq(b, 1, n)
      BY <1>2, <3>1, <3>2, PathChild, Zenon
    <3>4. ASSUME NEW n \in 0..Len(p)
          PROVE  SubSeq(p, 1, n) \in DOMAIN tree \cup D
      <4>1. n \in 0..Len(b) \/ n = Len(b) + 1
        BY <1>1, <1>2, <3>3
      <4>2. CASE n \in 0..Len(b)
        <5>1. SubSeq(p, 1, n) = SubSeq(b, 1, n) /\ SubSeq(b, 1, n) \in DOMAIN tree \cup D
          BY <1>4, <3>3, <4>2
        <5> QED
          BY <5>1
      <4>3. CASE n = Len(b) + 1
        BY <3>3, <4>3
      <4> QED
        BY <4>1, <4>2, <4>3
    <3> QED
      BY <3>3, <3>4
  <2> QED
    BY <2>1, <2>2
<1> QED
  BY <1>5 DEF D, b

\* Laying over keeps what is there, and where nothing is laid, its value.
LEMMA OverIs ==
    ASSUME NEW tree, NEW more
    PROVE  /\ DOMAIN Over(tree, more) = DOMAIN tree \cup DOMAIN more
           /\ \A p \in DOMAIN tree \ DOMAIN more : Over(tree, more)[p] = tree[p]
           /\ \A p \in DOMAIN more : Over(tree, more)[p] = more[p]
BY DEF Over

-----------------------------------------------------------------------------
(* What the environment supplies *)

\* What the tables are that a key is in.
Above(p) == {SubSeq(p, 1, n) : n \in 1..(Len(p) - 1)}

\* set_path: it gives up where something above the key is no table, or else the key
\* holds the value, and no other key is changed.
PathIsSet(tree, p, value, t) ==
    \/ t = tree /\ \E q \in Above(p) : q \in DOMAIN tree /\ tree[q] # Table
    \/ /\ DOMAIN t = DOMAIN tree \cup Above(p) \cup {p}
       /\ t[p] = value
       /\ \A q \in DOMAIN tree : q # p => t[q] = tree[q]

LEMMA SetPathIs ==
    ASSUME NEW tree, NEW p \in Seq(STRING), NEW value
    PROVE  PathIsSet(tree, p, value, SetPath(tree, p, value))
<1> DEFINE above == Above(p)
           bare == [q \in above |-> Table]
           whole == Over(bare, tree)
           leaf == [q \in {p} |-> value]
           t == SetPath(tree, p, value)
<1>1. t = IF \E q \in above : Has(tree, q) /\ tree[q] # Table THEN tree ELSE Over(whole, leaf)
  BY Zenon DEF SetPath, Above
<1> HIDE DEF above
<1>2. DOMAIN bare = above /\ DOMAIN leaf = {p} /\ leaf[p] = value
  OBVIOUS
<1> HIDE DEF bare, leaf
<1>3. DOMAIN whole = above \cup DOMAIN tree /\ \A q \in DOMAIN tree : whole[q] = tree[q]
  BY <1>2 DEF Over
<1> HIDE DEF whole
<1>4. /\ DOMAIN Over(whole, leaf) = DOMAIN tree \cup above \cup {p}
      /\ Over(whole, leaf)[p] = value
      /\ \A q \in DOMAIN tree : q # p => Over(whole, leaf)[q] = tree[q]
  BY <1>2, <1>3 DEF Over
<1> HIDE DEF t
<1> QED
  BY <1>1, <1>4, Zenon DEF PathIsSet, Has, t, above

LEMMA SetPathIsTree ==
    ASSUME NEW tree, IsTree(tree), NEW p \in Seq(STRING), NEW value
    PROVE  IsTree(SetPath(tree, p, value))
<1> DEFINE above == {SubSeq(p, 1, n) : n \in 1..(Len(p) - 1)}
           t == SetPath(tree, p, value)
<1>1. t = tree \/ DOMAIN t = DOMAIN tree \cup above \cup {p}
  <2> HIDE DEF t
  <2> QED
    BY SetPathIs, Zenon DEF PathIsSet, t, Above
<1>2. Len(p) \in Nat /\ SubSeq(p, 1, Len(p)) = p /\ SubSeq(p, 1, 0) = <<>>
  BY LenProperties, SubSeqFull, SubSeqEmpty
<1>3. \A n \in 0..Len(p) : SubSeq(p, 1, n) \in DOMAIN tree \cup above \cup {p}
  <2> TAKE n \in 0..Len(p)
  <2> DEFINE l == Len(p)
  <2>1. n = 0 \/ n \in 1..(Len(p) - 1) \/ n = Len(p)
    <3>1. l \in Nat /\ n \in 0..l
      BY <1>2
    <3> HIDE DEF l
    <3>2. n = 0 \/ n \in 1..(l - 1) \/ n = l
      BY <3>1
    <3> QED
      BY <3>2 DEF l
  <2>2. CASE n = 0
    BY <1>2, <2>2 DEF IsTree
  <2>3. CASE n \in 1..(Len(p) - 1)
    BY <2>3
  <2>4. CASE n = Len(p)
    BY <1>2, <2>4
  <2> QED
    BY <2>1, <2>2, <2>3, <2>4
<1>4. ASSUME NEW q \in above
      PROVE  q \in Seq(STRING) /\ \A n \in 0..Len(q) : SubSeq(q, 1, n) \in DOMAIN tree \cup above \cup {p}
  <2>1. PICK m \in 1..(Len(p) - 1) : q = SubSeq(p, 1, m)
    BY <1>4, Zenon
  <2>2. m \in 0..Len(p)
    BY <1>2
  <2>3. q \in Seq(STRING) /\ Len(q) = m /\ \A n \in 0..m : SubSeq(q, 1, n) = SubSeq(p, 1, n)
    BY <2>1, <2>2, PathPrefix
  <2>4. \A n \in 0..m : n \in 0..Len(p)
    BY <1>2, <2>2
  <2> HIDE DEF above
  <2> QED
    BY <1>3, <2>3, <2>4
<1> HIDE DEF above, t
<1>5. CASE DOMAIN t = DOMAIN tree \cup above \cup {p}
  BY <1>3, <1>4, <1>5, Zenon DEF IsTree, t
<1>6. CASE t = tree
  BY <1>6 DEF t
<1> QED
  BY <1>1, <1>5, <1>6

Supplied(env1, t, p) ==
    IF VariableFor(p) \in DOMAIN env1 THEN SetPath(t, p, Text(env1[VariableFor(p)])) ELSE t

Listen == <<"listen">>
Token == <<"notify", "telegram", "token">>
ChatId == <<"notify", "telegram", "chat_id">>

\* The keys there are.
Keys ==
    UNION {Known.root, Known.incidents, Known.notify, Known.telegram, Known.job, Known.process,
           Known.log, Known.artifact, Known.alive, Known.worked, Known.freshness, Known.ratio,
           Known.check, Known.degradation}

\* A key that is one is what it says.
LEMMA KeysAreStrings ==
    ASSUME NEW k \in Keys
    PROVE  k \in STRING /\ k \notin Jobs /\ k \notin Checks /\ k \notin Ratios
<1>1. DOMAIN Known = {"root", "incidents", "notify", "telegram", "job", "process", "log", "artifact",
                      "alive", "worked", "freshness", "ratio", "check", "degradation"}
  BY DEF Known
<1>2. PICK table \in DOMAIN Known : k \in Known[table]
  BY <1>1 DEF Keys
<1> QED
  BY <1>2, KeyAssumption, Zenon

LEMMA TheKeys ==
    /\ Known.root = {"listen", "confirm_after", "incidents", "notify", "job", "check"}
    /\ {"listen", "notify", "telegram", "token", "chat_id", "alive", "worked", "freshness",
        "expect_every", "warn_after", "critical_after", "name", "degradation", "job", "check",
        "incidents"} \subseteq Keys
<1>1. /\ Known.root = {"listen", "confirm_after", "incidents", "notify", "job", "check"}
      /\ Known.notify = {"telegram"} /\ Known.telegram = {"token", "chat_id"}
      /\ {"name", "alive", "worked", "freshness"} \subseteq Known.job
      /\ Known.alive = {"expect_every", "warn_after", "critical_after"}
      /\ "degradation" \in Known.check
  BY DEF Known
<1>2. /\ Known.root \subseteq Keys /\ Known.notify \subseteq Keys /\ Known.telegram \subseteq Keys
      /\ Known.job \subseteq Keys /\ Known.alive \subseteq Keys /\ Known.check \subseteq Keys
  BY Zenon DEF Keys
<1> QED
  BY <1>1, <1>2

LEMMA ShortSeq ==
    ASSUME NEW S
    PROVE  \A a, b, c \in S : <<a>> \in Seq(S) /\ <<a, b>> \in Seq(S) /\ <<a, b, c>> \in Seq(S)
OBVIOUS

LEMMA OverridableIs ==
    /\ Overridable[1] = Listen /\ Overridable[2] = Token /\ Overridable[3] = ChatId
    /\ ToSet(Overridable) = {Listen, Token, ChatId}
    /\ Listen \in Seq(STRING) /\ Token \in Seq(STRING) /\ ChatId \in Seq(STRING)
    /\ Listen # Token /\ Listen # ChatId /\ Token # ChatId
<1>1. /\ Overridable[1] = Listen /\ Overridable[2] = Token /\ Overridable[3] = ChatId
      /\ DOMAIN Overridable = {1, 2, 3}
  BY DEF Overridable, Listen, Token, ChatId
<1>2. ToSet(Overridable) = {Listen, Token, ChatId}
  BY <1>1 DEF ToSet
<1>3. Listen \in Seq(STRING) /\ Token \in Seq(STRING) /\ ChatId \in Seq(STRING)
  <2>1. /\ "listen" \in STRING /\ "notify" \in STRING /\ "telegram" \in STRING
        /\ "token" \in STRING /\ "chat_id" \in STRING
    BY TheKeys, KeysAreStrings
  <2> QED
    BY <2>1, ShortSeq, Zenon DEF Listen, Token, ChatId
<1>4. Len(Listen) = 1 /\ Len(Token) = 3 /\ Len(ChatId) = 3
  BY DEF Listen, Token, ChatId
<1>5. Token[3] = "token" /\ ChatId[3] = "chat_id"
  BY DEF Token, ChatId
<1>6. Listen # Token /\ Listen # ChatId /\ Token # ChatId
  BY <1>4, <1>5
<1> QED
  BY <1>1, <1>2, <1>3, <1>6

LEMMA OverrideIs ==
    ASSUME NEW tree, NEW e
    PROVE  Override(tree, e) = Supplied(e, Supplied(e, Supplied(e, tree, Listen), Token), ChatId)
BY OverridableIs, Zenon DEF Override, Supplied

-----------------------------------------------------------------------------
(* Lists of keys *)

\* A segment of a path that a list has.
InList(p, n, list) ==
    /\ KeyOf(SubSeq(p, 1, n - 1)) \in DOMAIN list
    /\ KeyOf(SubSeq(p, 1, n)) \in list[KeyOf(SubSeq(p, 1, n - 1))]

LEMMA ListedIs ==
    ASSUME NEW p, NEW list
    PROVE  Listed(p, list) <=> \A n \in 1..Len(p) : InList(p, n, list)
BY DEF Listed, InList

\* The list has a path if it has what the path is in, and its key there.
LEMMA ListedStep ==
    ASSUME NEW S, NEW q \in Seq(S), q # <<>>, NEW list
    PROVE  Listed(q, list) <=>
                /\ Listed(Parent(q), list)
                /\ KeyOf(Parent(q)) \in DOMAIN list
                /\ KeyOf(q) \in list[KeyOf(Parent(q))]
<1> DEFINE p == Parent(q)
           l == Len(q)
<1>1. l \in Nat \ {0} /\ SubSeq(q, 1, l) = q /\ SubSeq(q, 1, l - 1) = p
  BY EmptySeq, SubSeqFull, Zenon DEF Parent
<1>2. l - 1 \in 0..l
  BY <1>1
<1>3. Len(p) = l - 1 /\ \A n \in 0..(l - 1) : SubSeq(p, 1, n) = SubSeq(q, 1, n)
  BY <1>2, PathPrefix DEF Parent
<1> HIDE DEF p, l
<1>4. \A n \in 1..(l - 1) : n \in 0..(l - 1) /\ n - 1 \in 0..(l - 1) /\ n \in 1..l
  BY <1>1
<1>5. \A n \in 1..(l - 1) : InList(p, n, list) <=> InList(q, n, list)
  BY <1>3, <1>4, Zenon DEF InList
<1>6. InList(q, l, list) <=> KeyOf(p) \in DOMAIN list /\ KeyOf(q) \in list[KeyOf(p)]
  BY <1>1, Zenon DEF InList
<1>7. 1..l = 1..(l - 1) \cup {l}
  BY <1>1
<1>8. Listed(q, list) <=> \A n \in 1..l : InList(q, n, list)
  BY ListedIs DEF l
<1>9. Listed(p, list) <=> \A n \in 1..(l - 1) : InList(p, n, list)
  BY <1>3, ListedIs
<1>10. Listed(q, list) <=> Listed(p, list) /\ InList(q, l, list)
  BY <1>4, <1>5, <1>7, <1>8, <1>9, Zenon
<1> QED
  BY <1>6, <1>10 DEF p

LEMMA RootIsListed ==
    ASSUME NEW list
    PROVE  Listed(<<>>, list) /\ KeyOf(<<>>) = "root"
<1>1. Len(<<>>) = 0
  BY EmptySeq
<1> QED
  BY <1>1 DEF Listed, KeyOf

\* The key of a path is its last segment, or the array which that is an element of.
LEMMA KeyIs ==
    ASSUME NEW q \in Seq(STRING), q # <<>>
    PROVE  /\ q[Len(q)] \in Jobs => KeyOf(q) = "job"
           /\ q[Len(q)] \in Checks => KeyOf(q) = "check"
           /\ q[Len(q)] \in Ratios => KeyOf(q) = "ratio"
           /\ q[Len(q)] \notin Jobs /\ q[Len(q)] \notin Checks /\ q[Len(q)] \notin Ratios
                => KeyOf(q) = q[Len(q)]
           /\ KeyOf(q) \notin {"job", "check", "ratio"} => KeyOf(q) = q[Len(q)]
           /\ q[Len(q)] \in Keys => KeyOf(q) = q[Len(q)]
<1> DEFINE s == q[Len(q)]
<1>1. KeyOf(q) = IF s \in Jobs THEN "job" ELSE IF s \in Checks THEN "check"
                 ELSE IF s \in Ratios THEN "ratio" ELSE s
  BY Zenon DEF KeyOf
<1>2. s \in Keys => s \notin Jobs /\ s \notin Checks /\ s \notin Ratios
  BY KeysAreStrings, Zenon
<1>3. (Jobs \cap Checks) = {} /\ (Jobs \cap Ratios) = {} /\ (Checks \cap Ratios) = {}
  BY SettingsAssumption
<1> HIDE DEF s
<1>4. \A x : x \in Jobs => x \notin Checks /\ x \notin Ratios
  BY <1>3
<1>5. \A x : x \in Checks => x \notin Ratios
  BY <1>3
<1> QED
  BY <1>1, <1>2, <1>4, <1>5 DEF s

LEMMA WhatIsRead ==
    ASSUME NEW tree, Deserializes(tree), NEW p \in DOMAIN tree, Listed(p, Consumed)
    PROVE  tree[p] = Table <=> KeyOf(p) \in DOMAIN Required
<1> DEFINE read == {q \in DOMAIN tree : Listed(q, Consumed)}
<1>1. p \in read
  OBVIOUS
<1>2. \A q \in read : tree[q] = Table <=> KeyOf(q) \in DOMAIN Required
  BY Zenon DEF Deserializes
<1> HIDE DEF read
<1> QED
  BY <1>1, <1>2

\* What RawConfig and the others read is what warn_unrecognized knows.
LEMMA KnownIsConsumed ==
    /\ DOMAIN Consumed = DOMAIN Required /\ DOMAIN Known = DOMAIN Required
    /\ \A table \in DOMAIN Required : Consumed[table] = Known[table]
<1>1. DOMAIN Required = {"root", "incidents", "notify", "telegram", "job", "process", "log", "artifact",
                         "alive", "worked", "freshness", "ratio", "check", "degradation"}
  BY DEF Required
<1>2. DOMAIN Known = DOMAIN Required
  BY <1>1 DEF Known
<1>3. DOMAIN Consumed = DOMAIN Required
  BY DEF Consumed
<1>4. \A table \in DOMAIN Required : Consumed[table] = Required[table] \cup Optional[table]
  BY DEF Consumed
<1>5. \A table \in DOMAIN Required : Required[table] \cup Optional[table] = Known[table]
  <2>1. /\ Required.root \cup Optional.root = Known.root
        /\ Required.incidents \cup Optional.incidents = Known.incidents
        /\ Required.notify \cup Optional.notify = Known.notify
        /\ Required.telegram \cup Optional.telegram = Known.telegram
    BY DEF Required, Optional, Known
  <2>2. /\ Required.job \cup Optional.job = Known.job
        /\ Required.process \cup Optional.process = Known.process
        /\ Required.log \cup Optional.log = Known.log
        /\ Required.artifact \cup Optional.artifact = Known.artifact
    BY DEF Required, Optional, Known
  <2>3. /\ Required.alive \cup Optional.alive = Known.alive
        /\ Required.worked \cup Optional.worked = Known.worked
        /\ Required.freshness \cup Optional.freshness = Known.freshness
    BY DEF Required, Optional, Known
  <2>4. /\ Required.ratio \cup Optional.ratio = Known.ratio
        /\ Required.check \cup Optional.check = Known.check
        /\ Required.degradation \cup Optional.degradation = Known.degradation
    BY DEF Required, Optional, Known
  <2> QED
    BY <1>1, <2>1, <2>2, <2>3, <2>4
<1> QED
  BY <1>2, <1>3, <1>4, <1>5

\* The tables a telegram key is in.
LEMMA NotifyIsListed ==
    ASSUME NEW q \in {<<"notify">>, <<"notify", "telegram">>}
    PROVE  Listed(q, Consumed) /\ KeyOf(q) \in DOMAIN Required
<1> DEFINE n == <<"notify">>
           t == <<"notify", "telegram">>
<1>1. "notify" \in STRING /\ "telegram" \in STRING /\ "notify" \in Keys /\ "telegram" \in Keys
  BY TheKeys, KeysAreStrings
<1>2. n \in Seq(STRING) /\ t \in Seq(STRING)
  BY <1>1, ShortSeq
<1>3. Len(n) = 1 /\ n[1] = "notify" /\ Len(t) = 2 /\ t[2] = "telegram"
  OBVIOUS
<1>4. n # <<>> /\ t # <<>> /\ Parent(n) = <<>> /\ Parent(t) = n
  <2>1. n # <<>> /\ t # <<>>
    BY <1>3
  <2>2. <<>> \in Seq(STRING) /\ n = <<>> \o <<"notify">> /\ t = n \o <<"telegram">>
    OBVIOUS
  <2> HIDE DEF n, t
  <2>3. Parent(<<>> \o <<"notify">>) = <<>>
    BY <1>1, <2>2, KeyBelow
  <2>4. Parent(n \o <<"telegram">>) = n
    BY <1>1, <1>2, KeyBelow
  <2> QED
    BY <2>1, <2>2, <2>3, <2>4, Zenon
<1>5. KeyOf(n) = "notify" /\ KeyOf(t) = "telegram"
  <2>1. n[Len(n)] = "notify" /\ t[Len(t)] = "telegram"
    BY <1>3
  <2> HIDE DEF n, t
  <2> QED
    BY <1>1, <1>2, <1>4, <2>1, KeyIs
<1>6. /\ "root" \in DOMAIN Consumed /\ "notify" \in DOMAIN Consumed
      /\ {"notify", "telegram"} \subseteq DOMAIN Required
      /\ "notify" \in Consumed["root"] /\ "telegram" \in Consumed["notify"]
  BY DEF Consumed, Required, Optional
<1> HIDE DEF n, t
<1>7. Listed(n, Consumed)
  BY <1>2, <1>4, <1>5, <1>6, ListedStep, RootIsListed
<1>8. Listed(t, Consumed)
  BY <1>2, <1>4, <1>5, <1>6, <1>7, ListedStep
<1>9. q = n \/ q = t
  BY DEF n, t
<1> QED
  BY <1>5, <1>6, <1>7, <1>8, <1>9

-----------------------------------------------------------------------------
(* from_toml *)

LEMMA AboveIs ==
    /\ Above(Listen) = {}
    /\ \A p \in {Token, ChatId} : Above(p) = {<<"notify">>, <<"notify", "telegram">>}
<1>1. Above(Listen) = {}
  <2>1. Len(Listen) = 1
    BY DEF Listen
  <2>2. 1..(Len(Listen) - 1) = {}
    BY <2>1
  <2> QED
    BY <2>2 DEF Above
<1>2. ASSUME NEW k \in {"token", "chat_id"}, NEW p, p = <<"notify", "telegram", k>>
      PROVE  Above(p) = {<<"notify">>, <<"notify", "telegram">>}
  <2>1. Len(p) = 3 /\ 1..(Len(p) - 1) = {1, 2}
    BY <1>2
  <2>2. "notify" \in STRING /\ "telegram" \in STRING /\ k \in STRING
    BY TheKeys, KeysAreStrings
  <2> DEFINE n == <<"notify">>
             t == <<"notify", "telegram">>
  <2>3. /\ n \in Seq(STRING) /\ Len(n) = 1 /\ t \in Seq(STRING) /\ Len(t) = 2
        /\ t = n \o <<"telegram">> /\ p = t \o <<k>>
    BY <1>2, <2>2, ShortSeq
  <2> HIDE DEF n, t
  <2>4. SubSeq(p, 1, 2) = t /\ SubSeq(p, 1, 1) = SubSeq(t, 1, 1)
    <3>1. \A m \in 0..Len(t) : SubSeq(t \o <<k>>, 1, m) = SubSeq(t, 1, m)
      BY <2>2, <2>3, KeyBelow
    <3>2. SubSeq(t, 1, Len(t)) = t
      BY <2>3, SubSeqFull
    <3> QED
      BY <2>3, <3>1, <3>2
  <2>5. SubSeq(t, 1, 1) = n
    <3>1. \A m \in 0..Len(n) : SubSeq(n \o <<"telegram">>, 1, m) = SubSeq(n, 1, m)
      BY <2>2, <2>3, KeyBelow
    <3>2. SubSeq(n, 1, Len(n)) = n
      BY <2>3, SubSeqFull
    <3> QED
      BY <2>3, <3>1, <3>2
  <2>6. Above(p) = {SubSeq(p, 1, 1), SubSeq(p, 1, 2)}
    BY <2>1 DEF Above
  <2> QED
    BY <2>4, <2>5, <2>6 DEF n, t
<1>3. Token = <<"notify", "telegram", "token">> /\ ChatId = <<"notify", "telegram", "chat_id">>
  BY DEF Token, ChatId
<1> QED
  BY <1>1, <1>2, <1>3

\* What a variable does to a tree.
IsSupplied(e, tree, p, t) ==
    /\ IsTree(tree) => IsTree(t)
    /\ \A q \in DOMAIN tree : q \in DOMAIN t /\ (q # p => t[q] = tree[q])
    /\ VariableFor(p) \in DOMAIN e =>
         \/ p \in DOMAIN t /\ t[p] = Text(e[VariableFor(p)])
         \/ \E q \in Above(p) : q \in DOMAIN t /\ t[q] # Table

LEMMA SuppliedIs ==
    ASSUME NEW tree, NEW e, NEW p \in {Listen, Token, ChatId}
    PROVE  IsSupplied(e, tree, p, Supplied(e, tree, p))
<1> DEFINE t == Supplied(e, tree, p)
           value == Text(e[VariableFor(p)])
<1>1. p \in Seq(STRING)
  BY OverridableIs
<1>2. CASE VariableFor(p) \notin DOMAIN e
  BY <1>2, Zenon DEF IsSupplied, Supplied
<1>3. CASE VariableFor(p) \in DOMAIN e
  <2>1. t = SetPath(tree, p, value)
    BY <1>3, Zenon DEF Supplied
  <2> HIDE DEF t, value
  <2>2. \/ t = tree /\ \E q \in Above(p) : q \in DOMAIN tree /\ tree[q] # Table
        \/ /\ DOMAIN t = DOMAIN tree \cup Above(p) \cup {p}
           /\ t[p] = value
           /\ \A q \in DOMAIN tree : q # p => t[q] = tree[q]
    <3>1. PathIsSet(tree, p, value, SetPath(tree, p, value))
      BY <1>1, SetPathIs, Zenon
    <3>2. PathIsSet(tree, p, value, t)
      BY <2>1, <3>1, Zenon
    <3> QED
      BY <3>2, Zenon DEF PathIsSet
  <2>3. IsTree(tree) => IsTree(t)
    BY <1>1, <2>1, SetPathIsTree, Zenon
  <2>4. \A q \in DOMAIN tree : q \in DOMAIN t /\ (q # p => t[q] = tree[q])
    BY <2>2, Zenon
  <2>5. \/ p \in DOMAIN t /\ t[p] = value
        \/ \E q \in Above(p) : q \in DOMAIN t /\ t[q] # Table
    BY <2>2, Zenon
  <2> QED
    BY <2>3, <2>4, <2>5, Zenon DEF IsSupplied, t, value
<1> QED
  BY <1>2, <1>3

\* Each variable there is holds what the tree does.
Supplies(tree, e) ==
    \A p \in ToSet(Overridable) :
        VariableFor(p) \in DOMAIN e => tree[p] = Text(e[VariableFor(p)])

\* apply_env_overrides
LEMMA OverrideHolds ==
    ASSUME NEW tree, NEW e
    PROVE  LET c == Override(tree, e)
           IN  /\ IsTree(tree) => IsTree(c)
               /\ \A q \in DOMAIN tree \ ToSet(Overridable) : q \in DOMAIN c /\ c[q] = tree[q]
               /\ Deserializes(c) => Supplies(c, e)
<1>1. PICK a : a = Supplied(e, tree, Listen)
  OBVIOUS
<1>2. PICK b : b = Supplied(e, a, Token)
  OBVIOUS
<1>3. PICK c : c = Supplied(e, b, ChatId)
  OBVIOUS
<1>4. Override(tree, e) = c
  BY <1>1, <1>2, <1>3, OverrideIs
<1>5. /\ IsTree(tree) => IsTree(a)
      /\ \A q \in DOMAIN tree : q \in DOMAIN a /\ (q # Listen => a[q] = tree[q])
      /\ VariableFor(Listen) \in DOMAIN e =>
            Listen \in DOMAIN a /\ a[Listen] = Text(e[VariableFor(Listen)])
  <2>1. /\ IsTree(tree) => IsTree(a)
        /\ \A q \in DOMAIN tree : q \in DOMAIN a /\ (q # Listen => a[q] = tree[q])
        /\ VariableFor(Listen) \in DOMAIN e =>
            \/ Listen \in DOMAIN a /\ a[Listen] = Text(e[VariableFor(Listen)])
            \/ \E q \in Above(Listen) : q \in DOMAIN a /\ a[q] # Table
    <3>1. IsSupplied(e, tree, Listen, a)
      BY <1>1, SuppliedIs
    <3> QED
      BY <3>1, Zenon DEF IsSupplied
  <2> QED
    BY <2>1, AboveIs
<1>6. /\ IsTree(a) => IsTree(b)
      /\ \A q \in DOMAIN a : q \in DOMAIN b /\ (q # Token => b[q] = a[q])
      /\ VariableFor(Token) \in DOMAIN e =>
            \/ Token \in DOMAIN b /\ b[Token] = Text(e[VariableFor(Token)])
            \/ \E q \in Above(Token) : q \in DOMAIN b /\ b[q] # Table
  <2>1. IsSupplied(e, a, Token, b)
    BY <1>2, SuppliedIs
  <2> QED
    BY <2>1, Zenon DEF IsSupplied
<1>7. /\ IsTree(b) => IsTree(c)
      /\ \A q \in DOMAIN b : q \in DOMAIN c /\ (q # ChatId => c[q] = b[q])
      /\ VariableFor(ChatId) \in DOMAIN e =>
            \/ ChatId \in DOMAIN c /\ c[ChatId] = Text(e[VariableFor(ChatId)])
            \/ \E q \in Above(ChatId) : q \in DOMAIN c /\ c[q] # Table
  <2>1. IsSupplied(e, b, ChatId, c)
    BY <1>3, SuppliedIs
  <2> QED
    BY <2>1, Zenon DEF IsSupplied
<1>8. ToSet(Overridable) = {Listen, Token, ChatId} /\ Listen # Token /\ Listen # ChatId /\ Token # ChatId
  BY OverridableIs
<1>9. \A q \in DOMAIN tree \ ToSet(Overridable) : q \in DOMAIN c /\ c[q] = tree[q]
  BY <1>5, <1>6, <1>7, <1>8, Zenon
<1>10. ASSUME Deserializes(c), NEW q \in {<<"notify">>, <<"notify", "telegram">>}, q \in DOMAIN c
       PROVE  c[q] = Table
  BY <1>10, NotifyIsListed, WhatIsRead, Zenon
<1>11. \A q \in {<<"notify">>, <<"notify", "telegram">>} : q # ChatId
  BY DEF ChatId
<1>12. /\ Above(Token) = {<<"notify">>, <<"notify", "telegram">>}
       /\ Above(ChatId) = {<<"notify">>, <<"notify", "telegram">>}
  BY AboveIs
<1>13. Deserializes(c) /\ VariableFor(Listen) \in DOMAIN e => c[Listen] = Text(e[VariableFor(Listen)])
  BY <1>5, <1>6, <1>7, <1>8
<1>14. Deserializes(c) /\ VariableFor(Token) \in DOMAIN e => c[Token] = Text(e[VariableFor(Token)])
  <2> SUFFICES ASSUME Deserializes(c), VariableFor(Token) \in DOMAIN e
               PROVE  c[Token] = Text(e[VariableFor(Token)])
    OBVIOUS
  <2>1. CASE Token \in DOMAIN b /\ b[Token] = Text(e[VariableFor(Token)])
    BY <1>7, <1>8, <2>1, Zenon
  <2>2. CASE \E q \in Above(Token) : q \in DOMAIN b /\ b[q] # Table
    <3>1. PICK q \in Above(Token) : q \in DOMAIN b /\ b[q] # Table
      BY <2>2
    <3>2. q \in DOMAIN c /\ c[q] = b[q]
      BY <1>7, <1>11, <1>12, <3>1, Zenon
    <3> QED
      BY <1>10, <1>12, <3>1, <3>2, Zenon
  <2> QED
    BY <1>6, <2>1, <2>2
<1>15. Deserializes(c) /\ VariableFor(ChatId) \in DOMAIN e => c[ChatId] = Text(e[VariableFor(ChatId)])
  BY <1>7, <1>10, <1>12, Zenon
<1> QED
  <2>1. Deserializes(c) => Supplies(c, e)
    BY <1>8, <1>13, <1>14, <1>15, Zenon DEF Supplies
  <2> QED
    BY <1>4, <1>5, <1>6, <1>7, <1>9, <2>1, Zenon

-----------------------------------------------------------------------------
(* What is started with *)

LEMMA JobIsInFile ==
    ASSUME IsTree(file), \E p \in DOMAIN file : KeyOf(p) = "job"
    PROVE  Job \in DOMAIN file
BY Zenon DEF Job

\* A block that is printed for a job, or none.
LEMMA BlocksAre ==
    ASSUME NEW j
    PROVE  /\ \/ AliveBlock(j) = NoBlock
              \/ \E t : DOMAIN t \subseteq STRING /\ AliveBlock(j) = Block(j \o <<"alive">>, t)
           /\ \/ WorkedBlock(j) = NoBlock
              \/ \E t : DOMAIN t \subseteq STRING /\ WorkedBlock(j) = Block(j \o <<"worked">>, t)
           /\ \/ FreshnessBlock(j) = NoBlock
              \/ \E t : DOMAIN t \subseteq STRING /\ FreshnessBlock(j) = Block(j \o <<"freshness">>, t)
<1>1. {"expect_every", "warn_after", "critical_after"} \subseteq STRING
  BY TheKeys, KeysAreStrings
<1>2. /\ DOMAIN LearnedAlive = {"expect_every", "warn_after", "critical_after"}
      /\ DOMAIN LearnedWorked = {"warn_after", "critical_after"}
      /\ DOMAIN LearnedFreshness = {"warn_after", "critical_after"}
  BY DEF LearnedAlive, LearnedWorked, LearnedFreshness, AliveThresholds, SilenceThresholds
<1>3. /\ DOMAIN LearnedAlive \subseteq STRING /\ DOMAIN LearnedWorked \subseteq STRING
      /\ DOMAIN LearnedFreshness \subseteq STRING
  BY <1>1, <1>2
<1> QED
  BY <1>3, Zenon DEF AliveBlock, WorkedBlock, FreshnessBlock

\* What is printed hangs together with the file.
Hangs(tree, more) ==
    \A p \in DOMAIN more :
        p \in Seq(STRING) /\ \A n \in 0..Len(p) : SubSeq(p, 1, n) \in DOMAIN tree \cup DOMAIN more

LEMMA OverHangs ==
    ASSUME NEW tree, NEW a, NEW b, Hangs(tree, a), Hangs(tree, b)
    PROVE  Hangs(tree, Over(a, b))
<1>1. DOMAIN Over(a, b) = DOMAIN a \cup DOMAIN b
  BY DEF Over
<1>2. \A p \in DOMAIN a \cup DOMAIN b : p \in Seq(STRING)
        /\ \A n \in 0..Len(p) : SubSeq(p, 1, n) \in DOMAIN tree \cup (DOMAIN a \cup DOMAIN b)
  BY Zenon DEF Hangs
<1> QED
  BY <1>1, <1>2, Zenon DEF Hangs

LEMMA ProposalIsTree ==
    ASSUME IsTree(file), \E p \in DOMAIN file : KeyOf(p) = "job"
    PROVE  IsTree(Proposal)
<1>1. PICK j : j = Job
  OBVIOUS
<1>2. j \in DOMAIN file
  BY <1>1, JobIsInFile
<1>3. Hangs(file, NoBlock)
  BY DEF NoBlock, Hangs
<1>4. \A k \in {"alive", "worked", "freshness"} : k \in STRING
  BY TheKeys, KeysAreStrings
<1>5. \A k \in {"alive", "worked", "freshness"} : \A t :
        DOMAIN t \subseteq STRING => Hangs(file, Block(j \o <<k>>, t))
  BY <1>2, <1>4, BlockIsInTree, Zenon DEF Hangs
<1>6. Hangs(file, AliveBlock(j)) /\ Hangs(file, WorkedBlock(j)) /\ Hangs(file, FreshnessBlock(j))
  BY <1>3, <1>5, BlocksAre, Zenon
<1>7. Hangs(file, Printed)
  BY <1>1, <1>6, OverHangs, Zenon DEF Printed
<1> QED
  BY <1>7, OverIsTree, Zenon DEF Hangs, Proposal

\* What was read.
ConfigIsRead ==
    /\ IsTree(file) /\ \E p \in DOMAIN file : KeyOf(p) = "job"
    /\ phase \in {"learning", "reported", "running", "refused"}
    /\ phase \in {"learning", "reported"} => config = <<>>
    /\ phase \in {"running", "refused"} =>
        config = IF Interpolable(Proposal, env) THEN Effective(Proposal, env) ELSE <<>>
    /\ phase \in {"running", "refused"} => (phase = "running" <=> Loads(Proposal, env))

LEMMA ProposalIsKept ==
    ASSUME file' = file, journal' = journal
    PROVE  Proposal' = Proposal
<1>1. Job' = Job
  BY Zenon DEF Job
<1>2. /\ LearnedAlive' = LearnedAlive /\ LearnedWorked' = LearnedWorked
      /\ LearnedFreshness' = LearnedFreshness /\ Ages' = Ages
  BY Zenon DEF LearnedAlive, LearnedWorked, LearnedFreshness, Ages
<1>3. PICK j : j = Job
  OBVIOUS
<1>4. AliveBlock(j)' = AliveBlock(j) /\ WorkedBlock(j)' = WorkedBlock(j) /\ FreshnessBlock(j)' = FreshnessBlock(j)
  BY <1>2, Zenon DEF AliveBlock, WorkedBlock, FreshnessBlock
<1>5. Printed' = Printed
  BY <1>1, <1>3, <1>4, Zenon DEF Printed
<1> QED
  BY <1>5, Zenon DEF Proposal

LEMMA ConfigIsReadAlways == Spec => []ConfigIsRead
<1>1. Init => ConfigIsRead
  BY ScenarioAssumption, Zenon DEF Init, ConfigIsRead
<1>2. ConfigIsRead /\ [Next]_vars => ConfigIsRead'
  <2> SUFFICES ASSUME ConfigIsRead, [Next]_vars PROVE ConfigIsRead'
    OBVIOUS
  <2>1. CASE Beat \/ Record \/ Probe
    <3>1. phase = "learning" /\ phase' = phase /\ config' = config /\ file' = file
      BY <2>1, Zenon DEF Beat, Record, Probe
    <3> QED
      BY <3>1 DEF ConfigIsRead
  <2>2. CASE Report
    <3>1. phase = "learning" /\ phase' = "reported" /\ config' = config /\ file' = file
      BY <2>2, Zenon DEF Report
    <3> QED
      BY <3>1 DEF ConfigIsRead
  <2>3. CASE Start
    <3>1. /\ phase' = IF Loads(Proposal, env) THEN "running" ELSE "refused"
          /\ config' = IF Interpolable(Proposal, env) THEN Effective(Proposal, env) ELSE <<>>
          /\ file' = file /\ env' = env /\ Proposal' = Proposal
      BY <2>3, ProposalIsKept, Zenon DEF Start
    <3> QED
      BY <3>1 DEF ConfigIsRead
  <2>4. CASE UNCHANGED vars
    <3>1. /\ phase' = phase /\ config' = config /\ file' = file /\ env' = env
          /\ Proposal' = Proposal
      BY <2>4, ProposalIsKept, Zenon DEF vars
    <3> QED
      BY <3>1 DEF ConfigIsRead
  <2> QED
    BY <2>1, <2>2, <2>3, <2>4 DEF Next
<1> QED
  BY <1>1, <1>2, PTL DEF Spec

\* Whatever the files and the environments, what a STILLWATCH_* variable holds is
\* what stillwatch runs with, and what a ${VAR} stands for is taken to the letter
\* (apply_env_overrides, set_path, interpolate).
THEOREM EnvironmentWinsAlways == Spec => []EnvironmentWins
<1>1. ConfigIsRead => EnvironmentWins
  <2> SUFFICES ASSUME ConfigIsRead, phase = "running" PROVE EnvironmentWins
    BY DEF EnvironmentWins
  <2>1. PICK tree : tree = Interpolate(Proposal, env)
    OBVIOUS
  <2>2. config = Override(tree, env) /\ Deserializes(config)
    BY <2>1, Zenon DEF ConfigIsRead, Loads, Effective
  <2>3. \A p \in ToSet(Overridable) :
            VariableFor(p) \in DOMAIN env => config[p] = Text(env[VariableFor(p)])
    <3>1. Deserializes(Override(tree, env))
      BY <2>2, Zenon
    <3>2. Supplies(Override(tree, env), env)
      BY <3>1, OverrideHolds, Zenon
    <3> QED
      BY <2>2, <3>2, Zenon DEF Supplies
  <2>4. \A p \in DOMAIN tree \ ToSet(Overridable) : config[p] = tree[p]
    BY <2>2, OverrideHolds, Zenon
  <2>5. \A x : Text(x).is = x
    BY DEF Text
  <2>6. \A p \in ToSet(Overridable) :
            VariableFor(p) \in DOMAIN env => config[p].is = env[VariableFor(p)]
    BY <2>3, <2>5, Zenon
  <2>7. \A p \in DOMAIN Proposal : p \in DOMAIN tree
            /\ (Proposal[p].type = "text" => tree[p] = Text(Expand(Proposal[p].is, env)))
    BY <2>1 DEF Interpolate
  <2>8. \A p \in DOMAIN Proposal \ ToSet(Overridable) :
            Proposal[p].type = "text" => config[p].is = Expand(Proposal[p].is, env)
    BY <2>4, <2>5, <2>7, Zenon
  <2> QED
    BY <2>6, <2>8, Zenon DEF EnvironmentWins
<1> QED
  BY <1>1, ConfigIsReadAlways, PTL

-----------------------------------------------------------------------------
(* Keys that are answered *)

LEMMA ConfigIsTree ==
    ASSUME ConfigIsRead
    PROVE  /\ config = <<>> \/ IsTree(config)
           /\ phase = "running" => IsTree(config) /\ Deserializes(config) /\ Resolves(config)
<1>1. PICK tree : tree = Proposal
  OBVIOUS
<1>2. IsTree(tree)
  BY <1>1, ProposalIsTree, Zenon DEF ConfigIsRead
<1>3. IsTree(Interpolate(tree, env))
  <2>1. DOMAIN Interpolate(tree, env) = DOMAIN tree
    BY DEF Interpolate
  <2> QED
    BY <1>2, <2>1, Zenon DEF IsTree
<1>4. IsTree(Effective(tree, env))
  BY <1>3, OverrideHolds, Zenon DEF Effective
<1>5. config = <<>> \/ config = Effective(tree, env)
  <2>1. phase \in {"learning", "reported"} \/ phase \in {"running", "refused"}
    BY DEF ConfigIsRead
  <2> QED
    BY <1>1, <2>1, Zenon DEF ConfigIsRead
<1>6. ASSUME phase = "running"
      PROVE  config = Effective(tree, env) /\ Deserializes(config) /\ Resolves(config)
  <2>1. phase \in {"running", "refused"} /\ Loads(tree, env)
    BY <1>1, <1>6 DEF ConfigIsRead
  <2>2. Interpolable(tree, env) /\ Deserializes(Effective(tree, env)) /\ Resolves(Effective(tree, env))
    BY <2>1, Zenon DEF Loads
  <2>3. config = Effective(tree, env)
    BY <1>1, <2>1, <2>2, Zenon DEF ConfigIsRead
  <2> QED
    BY <2>2, <2>3, Zenon
<1> QED
  BY <1>4, <1>5, <1>6, Zenon

LEMMA PrefixInList ==
    ASSUME NEW S, NEW p \in Seq(S), NEW m \in 0..Len(p), NEW q, q = SubSeq(p, 1, m), NEW list
    PROVE  \A n \in 1..m : InList(q, n, list) <=> InList(p, n, list)
<1>1. Len(p) \in Nat
  BY LenProperties
<1>2. \A n \in 1..m : n \in 0..m /\ n - 1 \in 0..m
  BY <1>1
<1>3. \A n \in 0..m : SubSeq(SubSeq(p, 1, m), 1, n) = SubSeq(p, 1, n)
  BY PathPrefix
<1> QED
  BY <1>2, <1>3, Zenon DEF InList

LEMMA ListedEither ==
    ASSUME NEW p
    PROVE  Listed(p, Known) <=> Listed(p, Consumed)
<1>1. \A n : InList(p, n, Known) <=> InList(p, n, Consumed)
  BY KnownIsConsumed, Zenon DEF InList
<1> QED
  BY <1>1, ListedIs, Zenon

\* A key is read, or it or what it is in is warned of.
LEMMA ReadOrWarned ==
    ASSUME NEW tree, IsTree(tree), NEW p \in DOMAIN tree
    PROVE  Listed(p, Consumed) <=> ~\E q \in Warned(tree) : IsPrefix(q, p)
<1>1. p \in Seq(STRING) /\ Len(p) \in Nat /\ \A n \in 0..Len(p) : SubSeq(p, 1, n) \in DOMAIN tree
  BY LenProperties DEF IsTree
<1>2. ASSUME Listed(p, Consumed), NEW q \in Warned(tree), IsPrefix(q, p)
      PROVE  FALSE
  <2>1. q \in DOMAIN tree /\ ~Listed(q, Known)
    BY DEF Warned
  <2>2. q \in Seq(STRING) /\ Len(q) \in Nat /\ SubSeq(q, 1, Len(q)) = q
    BY <2>1, LenProperties, SubSeqFull DEF IsTree
  <2>3. Len(q) \in 0..Len(p) /\ q = SubSeq(p, 1, Len(q))
    BY <1>1, <1>2, <2>2 DEF IsPrefix
  <2>4. \A n \in 1..Len(q) : InList(q, n, Consumed) <=> InList(p, n, Consumed)
    BY <1>1, <2>3, PrefixInList, Zenon
  <2>5. \A n \in 1..Len(q) : n \in 1..Len(p)
    BY <1>1, <2>2, <2>3
  <2>6. Listed(q, Consumed)
    BY <1>2, <2>4, <2>5, ListedIs, Zenon
  <2> QED
    BY <2>1, <2>6, ListedEither
<1>3. ASSUME ~Listed(p, Consumed)
      PROVE  \E q \in Warned(tree) : IsPrefix(q, p)
  <2> DEFINE Bad == {n \in 1..Len(p) : ~InList(p, n, Known)}
  <2>1. ~Listed(p, Known)
    BY <1>3, ListedEither
  <2>2. Bad \subseteq Nat /\ Bad # {}
    BY <2>1, ListedIs
  <2>3. PICK m \in Bad : \A n \in Bad : m <= n
    <3> HIDE DEF Bad
    <3> QED
      BY <2>2, FirstExists, Zenon
  <2>4. /\ m \in 1..Len(p) /\ m \in 0..Len(p) /\ m \in Nat /\ ~InList(p, m, Known)
        /\ \A n \in 1..(m - 1) : InList(p, n, Known)
    BY <1>1, <2>3
  <2> DEFINE q == SubSeq(p, 1, m)
  <2>5. /\ q \in Seq(STRING) /\ Len(q) = m /\ q \in DOMAIN tree
        /\ SubSeq(q, 1, m) = SubSeq(p, 1, m)
    BY <1>1, <2>4, PathPrefix
  <2>6. \A n \in 1..m : InList(q, n, Known) <=> InList(p, n, Known)
    BY <1>1, <2>4, PrefixInList, Zenon
  <2> HIDE DEF q
  <2>7. ~Listed(q, Known)
    <3>1. m \in 1..Len(q)
      BY <2>4, <2>5
    <3> QED
      BY <2>4, <2>6, <3>1, <2>5, ListedIs, Zenon
  <2>8. Listed(Parent(q), Known)
    <3>1. m - 1 \in 0..Len(q) /\ \A n \in 1..(m - 1) : n \in 1..m
      BY <2>4, <2>5
    <3>2. Parent(q) = SubSeq(q, 1, m - 1) /\ Len(Parent(q)) = m - 1
      BY <2>5, <3>1, PathPrefix DEF Parent
    <3>3. \A n \in 1..(m - 1) : InList(Parent(q), n, Known) <=> InList(q, n, Known)
      BY <2>5, <3>1, <3>2, PrefixInList, Zenon
    <3> QED
      BY <2>4, <2>6, <3>1, <3>2, <3>3, ListedIs, Zenon
  <2>9. IsPrefix(q, p)
    BY <1>1, <2>4, <2>5 DEF IsPrefix
  <2>10. q \in Warned(tree)
    BY <2>5, <2>7, <2>8 DEF Warned
  <2> QED
    BY <2>9, <2>10
<1> QED
  BY <1>2, <1>3

-----------------------------------------------------------------------------
(* Rules *)

JobRules == {"alive", "worked", "freshness", "ratio", "process", "log", "artifact"}

\* Which table a rule is declared in.
LEMMA WhereRulesAre ==
    ASSUME NEW table \in DOMAIN Consumed
    PROVE  /\ "root" \notin Consumed[table]
           /\ {"job", "check"} \cap Consumed[table] # {} => table = "root"
           /\ JobRules \cap Consumed[table] # {} => table = "job"
           /\ "degradation" \in Consumed[table] => table = "check"
<1>1. DOMAIN Consumed = {"root", "incidents", "notify", "telegram", "job", "process", "log", "artifact",
                         "alive", "worked", "freshness", "ratio", "check", "degradation"}
      /\ Consumed[table] = Known[table]
  <2>1. DOMAIN Known = {"root", "incidents", "notify", "telegram", "job", "process", "log", "artifact",
                        "alive", "worked", "freshness", "ratio", "check", "degradation"}
    BY DEF Known
  <2> QED
    BY <2>1, KnownIsConsumed
<1>2. CASE table \in {"root", "incidents", "notify", "telegram", "job"}
  BY <1>1, <1>2 DEF Known, JobRules
<1>3. CASE table \in {"process", "log", "artifact", "alive", "worked"}
  BY <1>1, <1>3 DEF Known, JobRules
<1>4. CASE table \in {"freshness", "ratio", "check", "degradation"}
  BY <1>1, <1>4 DEF Known, JobRules
<1> QED
  BY <1>1, <1>2, <1>3, <1>4

LEMMA ConsumedHas ==
    /\ {"root", "job", "check"} \subseteq DOMAIN Consumed
    /\ {"job", "check"} \subseteq Consumed["root"]
    /\ JobRules \subseteq Consumed["job"] /\ "degradation" \in Consumed["check"]
<1>1. /\ {"root", "job", "check"} \subseteq DOMAIN Required
      /\ {"job", "check"} \subseteq Known["root"]
      /\ JobRules \subseteq Known["job"] /\ "degradation" \in Known["check"]
  BY DEF Required, Known, JobRules
<1> QED
  BY <1>1, KnownIsConsumed

\* A job or a check, in a list of its own.
LEMMA SubjectIs ==
    ASSUME NEW p \in Seq(STRING), Listed(p, Consumed), KeyOf(p) \in {"job", "check"}
    PROVE  p # <<>> /\ Parent(p) = <<>>
<1>1. p # <<>>
  BY RootIsListed
<1>2. /\ Listed(Parent(p), Consumed) /\ KeyOf(Parent(p)) \in DOMAIN Consumed
      /\ KeyOf(p) \in Consumed[KeyOf(Parent(p))]
  BY <1>1, ListedStep
<1>3. KeyOf(Parent(p)) = "root"
  BY <1>2, WhereRulesAre
<1>4. ASSUME Parent(p) # <<>>
      PROVE  FALSE
  <2>1. Parent(p) \in Seq(STRING)
    BY <1>1, PathParent
  <2>2. /\ KeyOf(Parent(Parent(p))) \in DOMAIN Consumed
        /\ KeyOf(Parent(p)) \in Consumed[KeyOf(Parent(Parent(p)))]
    BY <1>2, <1>4, <2>1, ListedStep, Zenon
  <2> QED
    BY <1>3, <2>2, WhereRulesAre
<1> QED
  BY <1>1, <1>4

\* A rule of a job, a check, or the latency rule of a check.
RuleOf(p, s) ==
    \/ p = s /\ KeyOf(p) = "check"
    \/ p # <<>> /\ Parent(p) = s /\ KeyOf(s) = "job" /\ KeyOf(p) \in JobRules
    \/ p # <<>> /\ Parent(p) = s /\ KeyOf(s) = "check" /\ KeyOf(p) = "degradation"

LEMMA SubjectsAre ==
    ASSUME NEW tree, NEW s
    PROVE  s \in Subjects(tree) <=>
                /\ s \in DOMAIN tree /\ s # <<>> /\ Parent(s) = <<>>
                /\ KeyOf(s) \in {"job", "check"}
BY Zenon DEF Subjects, Blocks

LEMMA RulesAre ==
    ASSUME NEW tree, IsTree(tree), NEW p \in DOMAIN tree
    PROVE  p \in Rules(tree) <=> \E s \in Subjects(tree) : RuleOf(p, s)
<1>1. p \in Seq(STRING)
  BY DEF IsTree
<1>2. RuleKinds = JobRules \cup {"check", "degradation"}
  BY DEF RuleKinds, JobRules
<1>3. ASSUME p \in Rules(tree)
      PROVE  \E s \in Subjects(tree) : RuleOf(p, s)
  <2>1. Listed(p, Consumed) /\ KeyOf(p) \in RuleKinds
    BY <1>3 DEF Rules
  <2>2. p # <<>>
    BY <2>1, RootIsListed DEF RuleKinds
  <2>3. /\ Listed(Parent(p), Consumed) /\ KeyOf(Parent(p)) \in DOMAIN Consumed
        /\ KeyOf(p) \in Consumed[KeyOf(Parent(p))]
    BY <1>1, <2>1, <2>2, ListedStep
  <2>4. CASE KeyOf(p) = "check"
    <3>1. Parent(p) = <<>>
      BY <1>1, <2>1, <2>4, SubjectIs
    <3>2. p \in Subjects(tree)
      BY <2>2, <2>4, <3>1, SubjectsAre
    <3> QED
      BY <2>4, <3>2 DEF RuleOf
  <2>5. CASE KeyOf(p) # "check"
    <3> DEFINE s == Parent(p)
    <3>1. \/ KeyOf(s) = "job" /\ KeyOf(p) \in JobRules
          \/ KeyOf(s) = "check" /\ KeyOf(p) = "degradation"
      BY <1>2, <2>1, <2>3, <2>5, WhereRulesAre
    <3>2. s \in Seq(STRING) /\ s \in DOMAIN tree
      <4>1. Len(p) - 1 \in 0..Len(p)
        BY <1>1, <2>2, PathParent
      <4> QED
        BY <1>1, <2>2, <4>1, PathParent DEF IsTree, Parent
    <3>3. s # <<>> /\ Parent(s) = <<>>
      BY <2>3, <3>1, <3>2, SubjectIs
    <3>4. s \in Subjects(tree)
      BY <3>1, <3>2, <3>3, SubjectsAre
    <3> QED
      BY <2>2, <3>1, <3>4 DEF RuleOf
  <2> QED
    BY <2>4, <2>5
<1>4. ASSUME NEW s \in Subjects(tree), RuleOf(p, s)
      PROVE  p \in Rules(tree)
  <2>1. s \in Seq(STRING) /\ s # <<>> /\ Parent(s) = <<>> /\ KeyOf(s) \in {"job", "check"}
    BY SubjectsAre DEF IsTree
  <2>2. Listed(s, Consumed)
    BY <2>1, ListedStep, RootIsListed, ConsumedHas
  <2>3. Listed(p, Consumed)
    <3>1. CASE p = s
      BY <2>2, <3>1
    <3>2. CASE p # <<>> /\ Parent(p) = s /\ KeyOf(p) \in Consumed[KeyOf(s)]
      BY <1>1, <2>1, <2>2, <3>2, ListedStep, ConsumedHas
    <3> QED
      BY <1>4, <3>1, <3>2, ConsumedHas DEF RuleOf
  <2>4. KeyOf(p) \in RuleKinds
    BY <1>2, <1>4 DEF RuleOf
  <2> QED
    BY <2>3, <2>4 DEF Rules
<1> QED
  BY <1>3, <1>4

LEMMA AnnouncedAre ==
    ASSUME NEW tree, NEW p
    PROVE  p \in Announced(tree) <=> p \in DOMAIN tree /\ \E s \in Subjects(tree) : RuleOf(p, s)
<1>1. \A a, b, kinds : a \in Blocks(tree, b, kinds) <=>
            a \in DOMAIN tree /\ a # <<>> /\ Parent(a) = b /\ KeyOf(a) \in kinds
  BY Zenon DEF Blocks
<1> DEFINE jobs == Blocks(tree, <<>>, {"job"})
           checks == Blocks(tree, <<>>, {"check"})
           ofJobs == UNION {Blocks(tree, s, JobRules) : s \in jobs}
           ofChecks == UNION {Blocks(tree, s, {"degradation"}) : s \in checks}
<1>2. Announced(tree) = ofJobs \cup ofChecks \cup checks
  BY Zenon DEF Announced, JobRules
<1>3. p \in ofJobs <=> \E s \in jobs : p \in Blocks(tree, s, JobRules)
  BY Zenon
<1>4. p \in ofChecks <=> \E s \in checks : p \in Blocks(tree, s, {"degradation"})
  BY Zenon
<1>5. \A s : s \in jobs <=> s \in Subjects(tree) /\ KeyOf(s) = "job"
  BY <1>1, SubjectsAre
<1>6. \A s : s \in checks <=> s \in Subjects(tree) /\ KeyOf(s) = "check"
  BY <1>1, SubjectsAre
<1> HIDE DEF jobs, checks, ofJobs, ofChecks
<1>7. p \in ofJobs <=> /\ p \in DOMAIN tree
                       /\ \E s \in Subjects(tree) : /\ p # <<>> /\ Parent(p) = s
                                                    /\ KeyOf(s) = "job" /\ KeyOf(p) \in JobRules
  <2>1. \A a, b : a \in Blocks(tree, b, JobRules) <=>
            a \in DOMAIN tree /\ a # <<>> /\ Parent(a) = b /\ KeyOf(a) \in JobRules
    BY <1>1, Zenon
  <2> QED
    BY <1>3, <1>5, <2>1, Zenon
<1>8. p \in ofChecks <=> /\ p \in DOMAIN tree
                         /\ \E s \in Subjects(tree) : /\ p # <<>> /\ Parent(p) = s
                                                      /\ KeyOf(s) = "check" /\ KeyOf(p) = "degradation"
  <2>1. \A a, b : a \in Blocks(tree, b, {"degradation"}) <=>
            a \in DOMAIN tree /\ a # <<>> /\ Parent(a) = b /\ KeyOf(a) = "degradation"
    BY <1>1
  <2> QED
    BY <1>4, <1>6, <2>1, Zenon
<1>9. \A s \in Subjects(tree) : s \in DOMAIN tree
  BY SubjectsAre
<1>10. p \in checks <=> p \in DOMAIN tree /\ \E s \in Subjects(tree) : p = s /\ KeyOf(p) = "check"
  BY <1>6, <1>9, Zenon
<1> QED
  BY <1>2, <1>7, <1>8, <1>10, Zenon DEF RuleOf

LEMMA DisclaimedAre ==
    ASSUME NEW tree, NEW p
    PROVE  /\ p \in Disclaimed(tree) => p = <<>> \/ p \notin DOMAIN tree
           /\ \A s \in Subjects(tree) :
                KeyOf(s) = "job" /\ p = s \o <<"alive">> /\ p \notin DOMAIN tree => p \in Disclaimed(tree)
<1> DEFINE Without(kind, block) ==
        {q \o <<block>> : q \in {r \in Blocks(tree, <<>>, {kind}) : ~Has(tree, r \o <<block>>)}}
           none == {q \in {<<>>} : Subjects(tree) = {}}
           channel == {q \in {<<"notify", "telegram">>} : ~Has(tree, q)}
<1>1. Disclaimed(tree) = Without("job", "alive") \cup Without("check", "degradation") \cup none \cup channel
  BY Zenon DEF Disclaimed
<1>2. p \in Without("job", "alive") => p \notin DOMAIN tree
  BY Zenon DEF Has
<1>3. p \in Without("check", "degradation") => p \notin DOMAIN tree
  BY Zenon DEF Has
<1>4. p \in none => p = <<>>
  BY Zenon
<1>5. p \in channel => p \notin DOMAIN tree
  BY Zenon DEF Has
<1>6. \A s \in Subjects(tree) :
            KeyOf(s) = "job" /\ p = s \o <<"alive">> /\ p \notin DOMAIN tree => p \in Without("job", "alive")
  <2>1. \A s \in Subjects(tree) : KeyOf(s) = "job" => s \in Blocks(tree, <<>>, {"job"})
    BY SubjectsAre DEF Blocks
  <2> QED
    BY <2>1, Zenon DEF Has
<1> HIDE DEF Without, none, channel
<1> QED
  BY <1>1, <1>2, <1>3, <1>4, <1>5, <1>6, Zenon

\* Of any file that was read, each key is read or it is named in a warning, itself
\* or what it is in; and of any that runs, what is said to be watched is what is
\* watched, and nothing goes without a word (warn_unrecognized, describe).
THEOREM KeysAreAnsweredAlways == Spec => []KeysAreAnswered
<1>1. ConfigIsRead => KeysAreAnswered
  <2> SUFFICES ASSUME ConfigIsRead PROVE KeysAreAnswered
    OBVIOUS
  <2>1. PICK tree : tree = config
    OBVIOUS
  <2>2. ASSUME NEW p \in DOMAIN tree
        PROVE  Listed(p, Consumed) <=> ~\E q \in Warned(tree) : IsPrefix(q, p)
    <3>1. DOMAIN <<>> = {}
      OBVIOUS
    <3>2. IsTree(tree)
      BY <2>1, <2>2, <3>1, ConfigIsTree, Zenon
    <3> QED
      BY <2>2, <3>2, ReadOrWarned, Zenon
  <2>3. ASSUME phase = "running"
        PROVE  /\ Announced(tree) = Rules(tree)
               /\ Announced(tree) \cap Disclaimed(tree) = {}
               /\ \A s \in Subjects(tree) :
                    \E p \in Announced(tree) \cup Disclaimed(tree) : IsPrefix(s, p)
    <3>1. IsTree(tree)
      BY <2>1, <2>3, ConfigIsTree, Zenon
    <3>2. Announced(tree) = Rules(tree)
      <4>1. \A p \in Rules(tree) : p \in DOMAIN tree
        BY Zenon DEF Rules
      <4>2. \A p : p \in Announced(tree) <=> p \in Rules(tree)
        BY <3>1, <4>1, AnnouncedAre, RulesAre, Zenon
      <4> QED
        BY <4>2, Zenon
    <3>3. Announced(tree) \cap Disclaimed(tree) = {}
      <4>1. \A p \in Announced(tree) : p \in DOMAIN tree /\ p # <<>>
        <5>1. \A p \in Announced(tree) : p \in DOMAIN tree /\ \E s \in Subjects(tree) : RuleOf(p, s)
          BY AnnouncedAre, Zenon
        <5>2. \A s \in Subjects(tree) : s # <<>>
          BY SubjectsAre, Zenon
        <5>3. \A p, s : RuleOf(p, s) /\ s # <<>> => p # <<>>
          BY Zenon DEF RuleOf
        <5> QED
          BY <5>1, <5>2, <5>3, Zenon
      <4> QED
        BY <4>1, DisclaimedAre, Zenon
    <3>4. ASSUME NEW s \in Subjects(tree)
          PROVE  \E p \in Announced(tree) \cup Disclaimed(tree) : IsPrefix(s, p)
      <4>1. /\ s \in DOMAIN tree /\ s # <<>> /\ KeyOf(s) \in {"job", "check"}
            /\ s \in Seq(STRING) /\ Len(s) \in Nat /\ SubSeq(s, 1, Len(s)) = s
        BY <3>1, <3>4, SubjectsAre, SubSeqFull, LenProperties DEF IsTree
      <4>2. CASE KeyOf(s) = "check"
        <5>1. s \in Announced(tree)
          BY <4>1, <4>2, AnnouncedAre, Zenon DEF RuleOf
        <5>2. IsPrefix(s, s)
          BY <4>1 DEF IsPrefix
        <5> QED
          BY <5>1, <5>2
      <4>3. CASE KeyOf(s) = "job"
        <5> DEFINE p == s \o <<"alive">>
        <5>1. "alive" \in STRING /\ "alive" \in Keys /\ "alive" \in JobRules
          BY TheKeys, KeysAreStrings DEF JobRules
        <5>2. /\ p \in Seq(STRING) /\ Len(p) = Len(s) + 1 /\ p[Len(s) + 1] = "alive"
              /\ SubSeq(p, 1, Len(s)) = SubSeq(s, 1, Len(s)) /\ Parent(p) = s
          BY <4>1, <5>1, KeyBelow
        <5> HIDE DEF p
        <5>3. IsPrefix(s, p) /\ p # <<>> /\ p[Len(p)] = "alive"
          BY <4>1, <5>2 DEF IsPrefix
        <5>4. KeyOf(p) = "alive"
          BY <5>1, <5>2, <5>3, KeyIs, Zenon
        <5>5. p \in DOMAIN tree => p \in Announced(tree)
          <6>1. RuleOf(p, s)
            BY <4>3, <5>1, <5>2, <5>3, <5>4, Zenon DEF RuleOf
          <6> QED
            BY <6>1, AnnouncedAre, Zenon
        <5>6. p \notin DOMAIN tree => p \in Disclaimed(tree)
          BY <4>3, DisclaimedAre DEF p
        <5> QED
          BY <5>3, <5>5, <5>6, Zenon
      <4> QED
        BY <4>1, <4>2, <4>3
    <3> QED
      BY <3>2, <3>3, <3>4
  <2> QED
    BY <2>1, <2>2, <2>3, Zenon DEF KeysAreAnswered
<1> QED
  BY <1>1, ConfigIsReadAlways, PTL

-----------------------------------------------------------------------------
(* Keys that are distinct *)

\* The first word of a condition, and the second of those about a file.
Word1(kind) ==
    CASE kind = "alive" -> {"no-heartbeat"}
      [] kind = "worked" -> {"no-work"}
      [] kind = "freshness" -> {"stale", "freshness-unreported"}
      [] kind = "ratio" -> {"ratio", "ratio-unreported"}
      [] kind = "process" -> {"process-absent"}
      [] kind = "log" -> {"file-stale", "file-missing", "logged-error"}
      [] kind = "artifact" -> {"file-stale", "file-missing", "artifact-too-small"}
      [] kind = "check" -> {"down"}
      [] kind = "degradation" -> {"degraded", "untrustworthy-baseline"}

LEMMA ConditionWords ==
    ASSUME NEW tree, NEW p, KeyOf(p) \in RuleKinds, NEW c \in Conditions(tree, p)
    PROVE  /\ c[1] \in Word1(KeyOf(p))
           /\ KeyOf(p) = "log" /\ c[1] \in {"file-stale", "file-missing"} => c[2] = "log"
           /\ KeyOf(p) = "artifact" /\ c[1] \in {"file-stale", "file-missing"} => c[2] = "artifact"
           /\ KeyOf(p) = "ratio" => c[2] = tree[p \o <<"name">>]
<1> DEFINE k == KeyOf(p)
<1>1. CASE k \in {"alive", "worked", "process", "check"}
  BY <1>1 DEF Conditions, Word1
<1>2. CASE k \in {"freshness", "degradation"}
  BY <1>2 DEF Conditions, Word1
<1>3. CASE k = "ratio"
  BY <1>3 DEF Conditions, Word1
<1>4. CASE k = "log"
  BY <1>4 DEF Conditions, Word1
<1>5. CASE k = "artifact"
  BY <1>5 DEF Conditions, Word1
<1> QED
  BY <1>1, <1>2, <1>3, <1>4, <1>5 DEF RuleKinds

LEMMA WordsAreDistinct ==
    ASSUME NEW k \in RuleKinds, NEW l \in RuleKinds, k # l, {k, l} # {"log", "artifact"}
    PROVE  Word1(k) \cap Word1(l) = {}
<1>1. /\ Word1("alive") = {"no-heartbeat"} /\ Word1("worked") = {"no-work"}
      /\ Word1("freshness") = {"stale", "freshness-unreported"}
      /\ Word1("ratio") = {"ratio", "ratio-unreported"}
      /\ Word1("process") = {"process-absent"}
      /\ Word1("log") = {"file-stale", "file-missing", "logged-error"}
      /\ Word1("artifact") = {"file-stale", "file-missing", "artifact-too-small"}
      /\ Word1("check") = {"down"} /\ Word1("degradation") = {"degraded", "untrustworthy-baseline"}
  BY DEF Word1
<1>2. CASE k \in {"alive", "worked", "freshness"}
  BY <1>1, <1>2 DEF RuleKinds
<1>3. CASE k \in {"ratio", "process", "log"}
  BY <1>1, <1>3 DEF RuleKinds
<1>4. CASE k \in {"artifact", "check", "degradation"}
  BY <1>1, <1>4 DEF RuleKinds
<1> QED
  BY <1>2, <1>3, <1>4 DEF RuleKinds

LEMMA KindsAreDistinct ==
    ASSUME NEW tree, NEW p, NEW q, KeyOf(p) \in RuleKinds, KeyOf(q) \in RuleKinds,
           \/ KeyOf(p) # KeyOf(q)
           \/ KeyOf(p) = "ratio" /\ KeyOf(q) = "ratio" /\ tree[p \o <<"name">>] # tree[q \o <<"name">>]
    PROVE  Conditions(tree, p) \cap Conditions(tree, q) = {}
<1> SUFFICES ASSUME NEW c \in Conditions(tree, p), c \in Conditions(tree, q) PROVE FALSE
  OBVIOUS
<1>1. /\ c[1] \in Word1(KeyOf(p))
      /\ KeyOf(p) = "log" /\ c[1] \in {"file-stale", "file-missing"} => c[2] = "log"
      /\ KeyOf(p) = "artifact" /\ c[1] \in {"file-stale", "file-missing"} => c[2] = "artifact"
      /\ KeyOf(p) = "ratio" => c[2] = tree[p \o <<"name">>]
  BY ConditionWords, Zenon
<1>2. /\ c[1] \in Word1(KeyOf(q))
      /\ KeyOf(q) = "log" /\ c[1] \in {"file-stale", "file-missing"} => c[2] = "log"
      /\ KeyOf(q) = "artifact" /\ c[1] \in {"file-stale", "file-missing"} => c[2] = "artifact"
      /\ KeyOf(q) = "ratio" => c[2] = tree[q \o <<"name">>]
  BY ConditionWords, Zenon
<1>3. CASE KeyOf(p) # KeyOf(q) /\ {KeyOf(p), KeyOf(q)} # {"log", "artifact"}
  <2>1. Word1(KeyOf(p)) \cap Word1(KeyOf(q)) = {}
    BY <1>3, WordsAreDistinct, Zenon
  <2> QED
    BY <1>1, <1>2, <2>1, Zenon
<1>4. CASE KeyOf(p) # KeyOf(q) /\ {KeyOf(p), KeyOf(q)} = {"log", "artifact"}
  <2>1. Word1("log") \cap Word1("artifact") = {"file-stale", "file-missing"}
    BY DEF Word1
  <2>2. \/ KeyOf(p) = "log" /\ KeyOf(q) = "artifact"
        \/ KeyOf(p) = "artifact" /\ KeyOf(q) = "log"
    BY <1>4
  <2>3. c[1] \in {"file-stale", "file-missing"}
    BY <1>1, <1>2, <2>1, <2>2
  <2> QED
    BY <1>1, <1>2, <2>2, <2>3
<1>5. CASE KeyOf(p) = KeyOf(q)
  BY <1>1, <1>2, <1>5, Zenon
<1> QED
  BY <1>3, <1>4, <1>5

\* The rules of one subject are of different kinds, or ratios of different names.
LEMMA RulesOfOneSubject ==
    ASSUME NEW tree, IsTree(tree), Resolves(tree),
           NEW s \in Subjects(tree), NEW p \in DOMAIN tree, NEW q \in DOMAIN tree,
           RuleOf(p, s), RuleOf(q, s), p # q, KeyOf(p) = KeyOf(q)
    PROVE  KeyOf(p) = "ratio" /\ tree[p \o <<"name">>] # tree[q \o <<"name">>]
<1>1. s \in DOMAIN tree /\ s # <<>> /\ Parent(s) = <<>>
  BY SubjectsAre
<1>2. p \in Seq(STRING) /\ q \in Seq(STRING)
  BY DEF IsTree
<1>3. KeyOf(p) # "check"
  <2>1. \A a : RuleOf(a, s) /\ KeyOf(a) = "check" => a = s
    BY DEF RuleOf, JobRules
  <2> QED
    BY <2>1
<1>4. p # <<>> /\ q # <<>> /\ Parent(p) = s /\ Parent(q) = s /\ KeyOf(p) \in JobRules \cup {"degradation"}
  BY <1>3 DEF RuleOf
<1>5. ASSUME KeyOf(p) # "ratio"
      PROVE  FALSE
  <2>1. KeyOf(p) \notin {"job", "check", "ratio"}
    BY <1>3, <1>4, <1>5 DEF JobRules
  <2>2. KeyOf(p) = p[Len(p)] /\ KeyOf(q) = q[Len(q)]
    BY <1>2, <1>4, <2>1, KeyIs, Zenon
  <2>3. p = Parent(p) \o <<p[Len(p)]>> /\ q = Parent(q) \o <<q[Len(q)]>>
    BY <1>2, <1>4, PathParent, Zenon
  <2> QED
    BY <1>4, <2>2, <2>3, Zenon
<1>6. ASSUME KeyOf(p) = "ratio"
      PROVE  tree[p \o <<"name">>] # tree[q \o <<"name">>]
  <2>1. KeyOf(s) = "job"
    BY <1>6 DEF RuleOf, JobRules
  <2>2. s \in Blocks(tree, <<>>, {"job"})
    BY <1>1, <2>1 DEF Blocks
  <2>3. p \in Blocks(tree, s, {"ratio"}) /\ q \in Blocks(tree, s, {"ratio"})
    BY <1>4, <1>6 DEF Blocks
  <2>4. JobAccepted(tree, s)
    BY <2>2, Zenon DEF Resolves
  <2>5. \A a, b \in Blocks(tree, s, {"ratio"}) :
            tree[a \o <<"name">>] = tree[b \o <<"name">>] => a = b
    BY <2>4, Zenon DEF JobAccepted
  <2> QED
    BY <2>3, <2>5, Zenon
<1> QED
  BY <1>5, <1>6

\* The subject of a rule is in its path.
LEMMA SubjectOfRule ==
    ASSUME NEW tree, IsTree(tree), NEW s \in Subjects(tree), NEW p \in DOMAIN tree, RuleOf(p, s)
    PROVE  <<p[1]>> = s
<1>1. p \in Seq(STRING) /\ s \in Seq(STRING) /\ s # <<>> /\ Parent(s) = <<>>
  BY SubjectsAre DEF IsTree
<1>2. s = <<>> \o <<s[Len(s)]>> /\ Len(s) = 1
  <2>1. Len(<<>>) = 0 /\ Len(Parent(s)) = Len(s) - 1 /\ Len(s) \in Nat
    BY <1>1, PathParent
  <2> QED
    BY <1>1, <2>1, PathParent
<1>3. s = <<s[1]>>
  BY <1>1, <1>2, ConcatEmptySeq
<1>4. p[1] = s[1]
  <2>1. CASE p = s
    BY <2>1
  <2>2. CASE p # <<>> /\ Parent(p) = s
    <3>1. p[Len(p)] \in STRING /\ p = s \o <<p[Len(p)]>>
      BY <1>1, <2>2, PathParent
    <3>2. \A i \in 1..Len(s) : (s \o <<p[Len(p)]>>)[i] = s[i]
      BY <1>1, <3>1, PathChild
    <3> QED
      BY <1>2, <3>1, <3>2
  <2> QED
    BY <2>1, <2>2 DEF RuleOf
<1> QED
  BY <1>3, <1>4, Zenon

\* However a configuration that runs is put together, no two of its rules find things
\* under one key, so that none suppresses what another finds (claim, RawJob::resolve,
\* Reason::condition, IncidentKey).
THEOREM KeysAreDistinctAlways == Spec => []KeysAreDistinct
<1>1. ConfigIsRead => KeysAreDistinct
  <2> SUFFICES ASSUME ConfigIsRead, phase = "running",
                      NEW p \in Rules(config), NEW q \in Rules(config), p # q
               PROVE  KeysOf(config, p) \cap KeysOf(config, q) = {}
    BY DEF KeysAreDistinct
  <2>1. PICK tree : tree = config
    OBVIOUS
  <2>2. IsTree(tree) /\ Resolves(tree) /\ p \in DOMAIN tree /\ q \in DOMAIN tree
        /\ p \in Rules(tree) /\ q \in Rules(tree)
    BY <2>1, ConfigIsTree, Zenon DEF Rules
  <2>3. PICK s \in Subjects(tree) : RuleOf(p, s)
    BY <2>2, RulesAre, Zenon
  <2>4. PICK t \in Subjects(tree) : RuleOf(q, t)
    BY <2>2, RulesAre, Zenon
  <2>5. /\ KeysOf(tree, p) = {SubjectName(tree, s)} \X Conditions(tree, p)
        /\ KeysOf(tree, q) = {SubjectName(tree, t)} \X Conditions(tree, q)
    <3>1. <<p[1]>> = s /\ <<q[1]>> = t
      BY <2>2, <2>3, <2>4, SubjectOfRule, Zenon
    <3> QED
      BY <3>1, Zenon DEF KeysOf
  <2>6. KeyOf(p) \in RuleKinds /\ KeyOf(q) \in RuleKinds
    BY <2>2, Zenon DEF Rules
  <2>7. CASE s = t
    <3>1. \/ KeyOf(p) # KeyOf(q)
          \/ KeyOf(p) = "ratio" /\ KeyOf(q) = "ratio" /\ tree[p \o <<"name">>] # tree[q \o <<"name">>]
      BY <2>2, <2>3, <2>4, <2>7, RulesOfOneSubject, Zenon
    <3>2. Conditions(tree, p) \cap Conditions(tree, q) = {}
      BY <2>6, <3>1, KindsAreDistinct, Zenon
    <3> QED
      BY <2>1, <2>5, <3>2
  <2>8. CASE s # t
    <3>1. SubjectName(tree, s) # SubjectName(tree, t)
      BY <2>2, <2>8, Zenon DEF Resolves, Claimed
    <3> QED
      BY <2>1, <2>5, <3>1
  <2> QED
    BY <2>7, <2>8
<1> QED
  BY <1>1, ConfigIsReadAlways, PTL

-----------------------------------------------------------------------------
(* The silences of a window *)

\* Dates of which none was recorded long after one that is later.
Orderly(times, late) == \A i, j \in DOMAIN times : i < j => times[i] <= times[j] + late

\* A silence is crossed by the record, from one date to the next, unless it is no longer
\* than a handler waited.
LEMMA Crossing ==
    ASSUME NEW times \in Seq(Nat), NEW late \in Nat, Orderly(times, late),
           NEW a \in DOMAIN times, NEW b \in DOMAIN times, times[a] < times[b],
           \A c \in DOMAIN times : ~(times[a] < times[c] /\ times[c] < times[b])
    PROVE  \/ times[b] - times[a] <= late
           \/ \E i \in 1..(Len(times) - 1) : times[i + 1] - times[i] >= times[b] - times[a]
<1>1. Len(times) \in Nat /\ DOMAIN times = 1..Len(times) /\ \A i \in DOMAIN times : times[i] \in Nat
  OBVIOUS
<1>2. CASE b < a
  BY <1>1, <1>2 DEF Orderly
<1>3. CASE a < b
  <2> DEFINE Later == {j \in DOMAIN times : a < j /\ times[j] >= times[b]}
  <2>1. Later \subseteq Nat /\ b \in Later
    BY <1>1, <1>3
  <2>2. PICK t \in Later : \A u \in Later : t <= u
    <3> HIDE DEF Later
    <3> QED
      BY <2>1, FirstExists
  <2>3. t \in DOMAIN times /\ a < t /\ times[t] >= times[b]
    BY <2>2
  <2>4. PICK i : i = t - 1
    OBVIOUS
  <2>5. i \in 1..(Len(times) - 1) /\ i \in DOMAIN times /\ i + 1 = t /\ a <= i
    BY <1>1, <2>3, <2>4
  <2>6. i \notin Later
    BY <1>1, <2>2, <2>3, <2>4
  <2>7. times[i] <= times[a]
    <3>1. CASE i = a
      BY <1>1, <3>1
    <3>2. CASE i # a
      <4>1. ~(times[i] >= times[b])
        BY <1>1, <2>5, <2>6, <3>2
      <4>2. times[i] \in Nat /\ times[a] \in Nat /\ times[b] \in Nat
        BY <1>1, <2>5
      <4>3. ~(times[a] < times[i])
        BY <2>5, <4>1, <4>2
      <4> QED
        BY <4>2, <4>3
    <3> QED
      BY <3>1, <3>2
  <2>8. times[i + 1] - times[i] >= times[b] - times[a]
    BY <1>1, <2>3, <2>5, <2>7
  <2> QED
    BY <2>5, <2>8
<1>4. a # b /\ a \in Nat /\ b \in Nat
  BY <1>1
<1> QED
  BY <1>2, <1>3, <1>4

\* The largest of the values of a function, and its median.
Counts(f) == IsFiniteSet(DOMAIN f) /\ \A i \in DOMAIN f : f[i] \in Nat

LEMMA LargestIs ==
    ASSUME NEW f, Counts(f)
    PROVE  Largest(f) \in Nat /\ \A i \in DOMAIN f : f[i] <= Largest(f)
<1> DEFINE V == Range(f) \cup {0}
<1>1. Range(f) = {f[i] : i \in DOMAIN f}
  BY DEF Range
<1>2. IsFiniteSet(V) /\ V # {} /\ V \subseteq Nat
  <2>1. IsFiniteSet(DOMAIN f)
    BY DEF Counts
  <2>2. IsFiniteSet({f[i] : i \in DOMAIN f})
    BY <2>1, ImageIsFinite
  <2>3. IsFiniteSet(Range(f))
    BY <1>1, <2>2
  <2>4. IsFiniteSet(V)
    BY <2>3, FS_AddElement
  <2> QED
    BY <1>1, <2>4 DEF Counts
<1>3. Largest(f) = Max(V)
  BY DEF Largest
<1>4. \A i \in DOMAIN f : f[i] \in V
  BY <1>1
<1> HIDE DEF V
<1>5. Max(V) \in V /\ \A u \in V : u <= Max(V)
  BY <1>2, MaxProperty
<1> QED
  BY <1>2, <1>3, <1>4, <1>5

LEMMA MedianIs ==
    ASSUME NEW f, Counts(f)
    PROVE  Median(f) \in Nat
<1>1. CASE DOMAIN f = {}
  BY <1>1 DEF Median, Quantile
<1>2. CASE DOMAIN f # {}
  <2> DEFINE n == Cardinality(DOMAIN f)
             half == CeilDiv(1 * n, 2)
             rank == Max({1, half})
             AtMost(v) == Cardinality({i \in DOMAIN f : f[i] <= v})
             V == {v \in Range(f) : AtMost(v) >= rank}
  <2>1. Median(f) = Min(V)
    BY <1>2 DEF Median, Quantile
  <2>2. Range(f) = {f[i] : i \in DOMAIN f}
    BY DEF Range
  <2>3. V \subseteq Nat
    BY <2>2 DEF Counts
  <2>4. n \in Nat /\ n # 0
    BY <1>2, FS_CardinalityType, FS_EmptySet DEF Counts
  <2>5. half \in Nat /\ half <= n
    <3> HIDE DEF n
    <3> QED
      BY <2>4 DEF CeilDiv
  <2>6. rank <= n /\ rank \in Nat
    <3> HIDE DEF half
    <3>1. half \in Int /\ 1 \in Int
      BY <2>5
    <3>2. Max({1, half}) \in {1, half}
      BY <3>1, MaxOfTwo
    <3> HIDE DEF n
    <3> QED
      BY <2>4, <2>5, <3>2
  <2>7. PICK top \in DOMAIN f : \A i \in DOMAIN f : f[i] <= f[top]
    <3> DEFINE R == {f[i] : i \in DOMAIN f}
    <3>1. IsFiniteSet(R)
      BY ImageIsFinite DEF Counts
    <3>2. R # {} /\ R \subseteq Nat
      BY <1>2 DEF Counts
    <3>3. Max(R) \in R /\ \A u \in R : u <= Max(R)
      <4> HIDE DEF R
      <4> QED
        BY <3>1, <3>2, MaxProperty
    <3>4. PICK i \in DOMAIN f : Max(R) = f[i]
      BY <3>3
    <3> QED
      BY <3>3, <3>4
  <2>8. {i \in DOMAIN f : f[i] <= f[top]} = DOMAIN f
    BY <2>7
  <2>9. AtMost(f[top]) = n
    BY <2>8
  <2>10. f[top] \in Range(f)
    BY <2>2, <2>7
  <2>11. f[top] \in V
    <3> HIDE DEF n, rank, AtMost
    <3> QED
      BY <2>4, <2>6, <2>9, <2>10
  <2> HIDE DEF V
  <2>12. Min(V) \in V
    BY <2>3, <2>11, MinProperty
  <2> QED
    BY <2>1, <2>3, <2>12
<1> QED
  BY <1>1, <1>2

LEMMA GapsAre ==
    ASSUME NEW times \in Seq(Nat)
    PROVE  /\ DOMAIN Gaps(times) = 1..(Len(times) - 1)
           /\ \A i \in 1..(Len(times) - 1) :
                Gaps(times)[i] \in Nat /\ Gaps(times)[i] >= times[i + 1] - times[i]
           /\ Counts(Gaps(times)) /\ Counts(Ordinary(times))
           /\ \A i \in DOMAIN Gaps(times) :
                \/ i \in DOMAIN Ordinary(times) /\ Ordinary(times)[i] = Gaps(times)[i]
                \/ Gaps(times)[i] \in Range(Incidents(times))
<1>1. Len(times) \in Nat /\ \A i \in 1..Len(times) : times[i] \in Nat
  OBVIOUS
<1>2. DOMAIN Gaps(times) = 1..(Len(times) - 1)
  BY DEF Gaps
<1>3. ASSUME NEW i \in 1..(Len(times) - 1)
      PROVE  Gaps(times)[i] \in Nat /\ Gaps(times)[i] >= times[i + 1] - times[i]
  <2>1. i \in 1..Len(times) /\ i + 1 \in 1..Len(times)
    BY <1>1
  <2>2. Gaps(times)[i] = Since(times[i], times[i + 1])
    BY DEF Gaps
  <2>3. times[i] \in Nat /\ times[i + 1] \in Nat
    BY <1>1, <2>1
  <2> QED
    BY <2>2, <2>3 DEF Since
<1>4. IsFiniteSet(DOMAIN Gaps(times))
  <2>1. 1 \in Int /\ Len(times) - 1 \in Int
    BY <1>1
  <2> QED
    BY <1>2, <2>1, FS_Interval
<1>5. Counts(Gaps(times))
  BY <1>2, <1>3, <1>4 DEF Counts
<1>6. PICK g : g = Gaps(times)
  OBVIOUS
<1>7. PICK far : far = IncidentAt(times)
  OBVIOUS
<1>8. /\ Ordinary(times) = [i \in DOMAIN g \ far |-> g[i]]
      /\ Incidents(times) = [i \in far |-> g[i]]
  BY <1>6, <1>7 DEF Ordinary, Incidents, Restrict
<1>9. Counts(Ordinary(times))
  <2>1. DOMAIN Ordinary(times) = DOMAIN g \ far
    BY <1>8
  <2>2. IsFiniteSet(DOMAIN g \ far)
    BY <1>4, <1>6, FS_Difference
  <2>3. \A i \in DOMAIN g \ far : Ordinary(times)[i] = g[i] /\ g[i] \in Nat
    BY <1>5, <1>6, <1>8 DEF Counts
  <2> QED
    BY <2>1, <2>2, <2>3 DEF Counts
<1>10. ASSUME NEW i \in DOMAIN g
       PROVE  \/ i \in DOMAIN Ordinary(times) /\ Ordinary(times)[i] = g[i]
              \/ g[i] \in Range(Incidents(times))
  <2>1. CASE i \in far
    <3>1. i \in DOMAIN Incidents(times) /\ Incidents(times)[i] = g[i]
      BY <1>8, <2>1
    <3> QED
      BY <3>1 DEF Range
  <2>2. CASE i \notin far
    BY <1>8, <2>2
  <2> QED
    BY <2>1, <2>2
<1> QED
  BY <1>2, <1>3, <1>5, <1>6, <1>9, <1>10

\* Thresholds above the worst ordinary gap, and above what a handler may wait, are not
\* crossed by a silence that is not named.
LEMMA Tolerance ==
    ASSUME NEW times \in Seq(Nat), NEW late \in Nat, Orderly(times, late),
           NEW warn \in Nat, warn > late, warn > Worst(times)
    PROVE  Tolerated(times, warn)
<1>1. Len(times) \in Nat /\ DOMAIN times = 1..Len(times) /\ \A i \in DOMAIN times : times[i] \in Nat
  OBVIOUS
<1>2. ToSet(times) = {times[i] : i \in DOMAIN times}
  BY DEF ToSet
<1>3. Worst(times) \in Nat /\ \A i \in DOMAIN Ordinary(times) : Ordinary(times)[i] <= Worst(times)
  BY GapsAre, LargestIs DEF Worst
<1>4. ASSUME NEW s \in Silences(times)
      PROVE  s < warn \/ \E i \in Range(Incidents(times)) : s <= i
  <2>1. PICK p \in ToSet(times) \X ToSet(times) :
            /\ s = p[2] - p[1] /\ p[1] < p[2]
            /\ ~\E c \in ToSet(times) : p[1] < c /\ c < p[2]
    BY Zenon DEF Silences
  <2>2. PICK a \in DOMAIN times : p[1] = times[a]
    BY <1>2, <2>1
  <2>3. PICK b \in DOMAIN times : p[2] = times[b]
    BY <1>2, <2>1
  <2>4. \A c \in DOMAIN times : ~(times[a] < times[c] /\ times[c] < times[b])
    BY <1>2, <2>1, <2>2, <2>3
  <2>5. times[a] < times[b] /\ s = times[b] - times[a]
    BY <2>1, <2>2, <2>3
  <2>6. \/ times[b] - times[a] <= late
        \/ \E i \in 1..(Len(times) - 1) : times[i + 1] - times[i] >= times[b] - times[a]
    BY <2>4, <2>5, Crossing
  <2>7. times[a] \in Nat /\ times[b] \in Nat
    BY <1>1
  <2>8. CASE s <= late
    BY <2>5, <2>7, <2>8
  <2>9. ASSUME NEW i \in 1..(Len(times) - 1), times[i + 1] - times[i] >= s
        PROVE  s < warn \/ \E r \in Range(Incidents(times)) : s <= r
    <3>1. Gaps(times)[i] \in Nat /\ Gaps(times)[i] >= times[i + 1] - times[i]
          /\ i \in DOMAIN Gaps(times)
      BY GapsAre
    <3>2. times[i] \in Nat /\ times[i + 1] \in Nat
      BY <1>1
    <3>3. s <= Gaps(times)[i]
      <4>1. s \in Int
        BY <2>5, <2>7
      <4>2. PICK now : now = times[i]
        OBVIOUS
      <4>3. PICK next : next = times[i + 1]
        OBVIOUS
      <4>4. now \in Nat /\ next \in Nat /\ next - now >= s
        BY <2>9, <3>2, <4>2, <4>3
      <4>5. Gaps(times)[i] >= next - now
        BY <3>1, <4>2, <4>3
      <4>6. PICK g : g = Gaps(times)[i]
        OBVIOUS
      <4>7. g \in Nat /\ g >= next - now
        BY <3>1, <4>5, <4>6
      <4>8. s <= g
        BY <4>1, <4>4, <4>7
      <4> QED
        BY <4>6, <4>8
    <3>4. CASE Gaps(times)[i] \in Range(Incidents(times))
      BY <3>3, <3>4
    <3>5. CASE i \in DOMAIN Ordinary(times) /\ Ordinary(times)[i] = Gaps(times)[i]
      <4>1. Gaps(times)[i] <= Worst(times)
        BY <1>3, <3>5
      <4> QED
        BY <1>3, <2>5, <2>7, <3>1, <3>3, <4>1
    <3> QED
      BY <3>1, <3>4, <3>5, GapsAre
  <2> QED
    BY <2>5, <2>6, <2>8, <2>9
<1> QED
  BY <1>4 DEF Tolerated

-----------------------------------------------------------------------------
(* The journal *)

\* One date more, of a handler that did not wait long.
Kept(times, now, late) ==
    /\ times \in Seq(Nat) /\ Orderly(times, late)
    /\ \A i \in DOMAIN times : times[i] <= now

LEMMA OneMoreDate ==
    ASSUME NEW now \in Nat, NEW late \in Nat, NEW times, Kept(times, now, late),
           NEW at \in Nat, at <= now, now - at <= late
    PROVE  Kept(Append(times, at), now, late)
<1> DEFINE more == Append(times, at)
           l == Len(times)
<1>1. times \in Seq(Nat) /\ l \in Nat /\ DOMAIN times = 1..l /\ \A i \in 1..l : times[i] \in Nat
  BY DEF Kept
<1>2. /\ more \in Seq(Nat) /\ DOMAIN more = 1..(l + 1) /\ more[l + 1] = at
      /\ \A i \in 1..l : more[i] = times[i]
  BY <1>1
<1>3. /\ \A i \in 1..l : times[i] <= now
      /\ \A i, j \in 1..l : i < j => times[i] <= times[j] + late
  BY <1>1 DEF Kept, Orderly
<1> HIDE DEF more, l
<1>4. ASSUME NEW i \in 1..(l + 1)
      PROVE  more[i] <= now
  BY <1>1, <1>2, <1>3
<1>5. ASSUME NEW i \in 1..(l + 1), NEW j \in 1..(l + 1), i < j
      PROVE  more[i] <= more[j] + late
  <2>1. i \in 1..l /\ more[i] = times[i] /\ times[i] \in Nat
    BY <1>1, <1>2, <1>5
  <2>2. CASE j = l + 1
    <3>1. times[i] <= now
      BY <1>3, <2>1
    <3> QED
      BY <1>2, <2>1, <2>2, <3>1
  <2>3. CASE j # l + 1
    <3>1. j \in 1..l
      BY <1>1, <2>3
    <3> QED
      BY <1>2, <1>3, <1>5, <2>1, <3>1
  <2> QED
    BY <2>2, <2>3
<1>6. Kept(more, now, late)
  BY <1>2, <1>4, <1>5 DEF Kept, Orderly
<1> QED
  BY <1>6 DEF more

LEMMA KeptLater ==
    ASSUME NEW now \in Nat, NEW later \in Nat, now <= later, NEW late \in Nat,
           NEW times, Kept(times, now, late)
    PROVE  Kept(times, later, late)
<1>1. \A i \in DOMAIN times : times[i] \in Nat /\ times[i] <= now
  BY DEF Kept
<1> QED
  BY <1>1 DEF Kept

\* What is left of a sequence is what was in it.
LEMMA RemoveAtIs ==
    ASSUME NEW S, NEW s \in Seq(S), NEW i \in DOMAIN s
    PROVE  /\ RemoveAt(s, i) \in Seq(S)
           /\ \A k \in DOMAIN RemoveAt(s, i) : \E j \in DOMAIN s : RemoveAt(s, i)[k] = s[j]
<1> DEFINE V == {s[j] : j \in DOMAIN s}
           front == SubSeq(s, 1, i - 1)
           back == SubSeq(s, i + 1, Len(s))
<1>1. Len(s) \in Nat /\ i \in 1..Len(s) /\ \A j \in 1..Len(s) : s[j] \in V /\ s[j] \in S
  OBVIOUS
<1>2. V \subseteq S
  BY <1>1
<1> HIDE DEF V
<1>3. front \in Seq(V) /\ back \in Seq(V)
  <2>1. \A j \in 1..(i - 1) : s[j] \in V
    BY <1>1
  <2>2. \A j \in (i + 1)..Len(s) : s[j] \in V
    BY <1>1
  <2>3. 1 \in Int /\ i - 1 \in Int /\ i + 1 \in Int /\ Len(s) \in Int
    BY <1>1
  <2> QED
    BY <1>1, <2>1, <2>2, <2>3, SubSeqProperties
<1>4. RemoveAt(s, i) \in Seq(V)
  <2>1. RemoveAt(s, i) = front \o back
    BY DEF RemoveAt
  <2> HIDE DEF front, back
  <2> QED
    BY <1>3, <2>1
<1>5. \A k \in DOMAIN RemoveAt(s, i) : RemoveAt(s, i)[k] \in V
  <2>1. PICK r : r = RemoveAt(s, i)
    OBVIOUS
  <2> QED
    BY <1>4, <2>1
<1>6. RemoveAt(s, i) \in Seq(S)
  BY <1>2, <1>4
<1> QED
  BY <1>5, <1>6 DEF V

Waiter == [at : Nat, detail : Details]
Sample == [at : Nat, num : Nat \cup {None}, den : Nat \cup {None}]
Datum == [at : Nat, ts : Int]

\* No handler waits long, so that no date is recorded long after one that is later.
JournalIsKept ==
    /\ scenario \in Scenarios
    /\ clock \in Nat
    /\ arriving \in Seq(Waiter)
    /\ \A i \in DOMAIN arriving : arriving[i].at <= clock /\ clock - arriving[i].at <= Overlap
    /\ journal \in [beats : Seq(Nat), worked : Seq(Nat), data : Seq(Datum),
                    counters : Seq(Sample), probes : Seq(Nat \cup {None})]
    /\ Kept(journal.beats, clock, Overlap) /\ Kept(journal.worked, clock, Overlap)

LEMMA JournalKeepsBeat ==
    ASSUME JournalIsKept, Beat
    PROVE  JournalIsKept'
<1>1. PICK gap \in scenario.gaps, detail \in scenario.details :
        /\ \A i \in DOMAIN arriving : clock + gap - arriving[i].at <= Overlap
        /\ clock' = clock + gap
        /\ arriving' = Append(arriving, [at |-> clock', detail |-> detail])
  BY Zenon DEF Beat
<1>2. /\ scenario \in Scenarios /\ clock \in Nat /\ arriving \in Seq(Waiter)
      /\ \A i \in DOMAIN arriving : arriving[i].at <= clock
      /\ Kept(journal.beats, clock, Overlap) /\ Kept(journal.worked, clock, Overlap)
  BY DEF JournalIsKept
<1>3. gap \in Nat /\ detail \in Details
  BY <1>1, <1>2, ScenarioAssumption
<1>4. PICK now : now = clock'
  OBVIOUS
<1>5. now \in Nat /\ clock <= now /\ Overlap \in Nat
  BY <1>1, <1>2, <1>3, <1>4, LearnAssumption
<1>6. PICK new : new = [at |-> now, detail |-> detail]
  OBVIOUS
<1>7. new \in Waiter /\ new.at = now
  BY <1>3, <1>5, <1>6 DEF Waiter
<1>8. PICK l : l = Len(arriving)
  OBVIOUS
<1>9. PICK more : more = Append(arriving, new)
  OBVIOUS
<1>10. /\ l \in Nat /\ DOMAIN arriving = 1..l /\ \A i \in 1..l : arriving[i] \in Waiter
       /\ more \in Seq(Waiter) /\ DOMAIN more = 1..(l + 1) /\ more[l + 1] = new
       /\ \A i \in 1..l : more[i] = arriving[i]
  BY <1>2, <1>7, <1>8, <1>9
<1>11. ASSUME NEW i \in DOMAIN more
       PROVE  more[i].at <= now /\ now - more[i].at <= Overlap
  <2>1. CASE i = l + 1
    BY <1>5, <1>7, <1>10, <2>1
  <2>2. CASE i # l + 1
    <3>1. i \in 1..l
      BY <1>10, <2>2
    <3>2. PICK at : at = arriving[i].at
      OBVIOUS
    <3>3. at \in Nat /\ at <= clock /\ clock + gap - at <= Overlap /\ more[i].at = at
      BY <1>1, <1>2, <1>10, <3>1, <3>2 DEF Waiter
    <3> QED
      BY <1>1, <1>2, <1>3, <1>4, <1>5, <3>3
  <2> QED
    BY <2>1, <2>2
<1>12. Kept(journal.beats, now, Overlap) /\ Kept(journal.worked, now, Overlap)
  BY <1>2, <1>5, KeptLater
<1>13. arriving' = more /\ scenario' = scenario /\ journal' = journal
  BY <1>1, <1>4, <1>6, <1>9 DEF Beat
<1>14. journal \in [beats : Seq(Nat), worked : Seq(Nat), data : Seq(Datum),
                    counters : Seq(Sample), probes : Seq(Nat \cup {None})]
  BY DEF JournalIsKept
<1> QED
  BY <1>2, <1>4, <1>5, <1>10, <1>11, <1>12, <1>13, <1>14, Zenon DEF JournalIsKept

LEMMA JournalKeepsRecord ==
    ASSUME JournalIsKept, Record
    PROVE  JournalIsKept'
<1>1. PICK i \in DOMAIN arriving :
        LET at == arriving[i].at
            d == arriving[i].detail
        IN  /\ arriving' = RemoveAt(arriving, i)
            /\ journal' = [journal EXCEPT
                    !.beats = Append(@, at),
                    !.worked = Push(@, at, d.worked),
                    !.data = Push(@, [at |-> at, ts |-> at - d.age], d.age # None),
                    !.counters = Push(@, [at |-> at, num |-> d.num, den |-> d.den],
                                      d.num # None \/ d.den # None)]
  BY Zenon DEF Record
<1>2. PICK at : at = arriving[i].at
  OBVIOUS
<1>3. PICK d : d = arriving[i].detail
  OBVIOUS
<1>4. /\ scenario \in Scenarios /\ clock \in Nat /\ Overlap \in Nat /\ arriving \in Seq(Waiter)
      /\ \A k \in DOMAIN arriving : arriving[k].at <= clock /\ clock - arriving[k].at <= Overlap
      /\ Kept(journal.beats, clock, Overlap) /\ Kept(journal.worked, clock, Overlap)
  BY LearnAssumption DEF JournalIsKept
<1>5. /\ at \in Nat /\ d \in Details /\ at <= clock /\ clock - at <= Overlap
      /\ d.worked \in BOOLEAN /\ d.age \in Int
      /\ d.num \in Nat \cup {None} /\ d.den \in Nat \cup {None}
  <2>1. arriving[i] \in Waiter
    BY <1>4
  <2> QED
    BY <1>2, <1>3, <1>4, <2>1 DEF Waiter, Details
<1>6. PICK datum : datum = [at |-> at, ts |-> at - d.age]
  OBVIOUS
<1>7. PICK sample : sample = [at |-> at, num |-> d.num, den |-> d.den]
  OBVIOUS
<1>8. datum \in Datum /\ sample \in Sample
  BY <1>5, <1>6, <1>7 DEF Datum, Sample
<1>9. PICK j : j = journal
  OBVIOUS
<1>10. j \in [beats : Seq(Nat), worked : Seq(Nat), data : Seq(Datum),
              counters : Seq(Sample), probes : Seq(Nat \cup {None})]
  BY <1>9 DEF JournalIsKept
<1>11. journal' = [j EXCEPT
            !.beats = Append(@, at), !.worked = Push(@, at, d.worked),
            !.data = Push(@, datum, d.age # None),
            !.counters = Push(@, sample, d.num # None \/ d.den # None)]
  BY <1>1, <1>2, <1>3, <1>6, <1>7, <1>9, Zenon
<1>12. Kept(Append(j.beats, at), clock, Overlap)
  BY <1>4, <1>5, <1>9, OneMoreDate
<1>13. Kept(Push(j.worked, at, d.worked), clock, Overlap)
  <2>1. Kept(Append(j.worked, at), clock, Overlap) /\ Kept(j.worked, clock, Overlap)
    BY <1>4, <1>5, <1>9, OneMoreDate
  <2> QED
    BY <2>1 DEF Push
<1>14. Push(j.data, datum, d.age # None) \in Seq(Datum)
  <2>1. j.data \in Seq(Datum) /\ Append(j.data, datum) \in Seq(Datum)
    BY <1>8, <1>10
  <2> QED
    BY <2>1 DEF Push
<1>15. Push(j.counters, sample, d.num # None \/ d.den # None) \in Seq(Sample)
  <2>1. j.counters \in Seq(Sample) /\ Append(j.counters, sample) \in Seq(Sample)
    BY <1>8, <1>10
  <2> QED
    BY <2>1 DEF Push
<1>16. /\ journal'.beats = Append(j.beats, at)
       /\ journal'.worked = Push(j.worked, at, d.worked)
       /\ journal'.data = Push(j.data, datum, d.age # None)
       /\ journal'.counters = Push(j.counters, sample, d.num # None \/ d.den # None)
       /\ journal'.probes = j.probes
       /\ journal' = [beats |-> journal'.beats, worked |-> journal'.worked, data |-> journal'.data,
                      counters |-> journal'.counters, probes |-> journal'.probes]
  BY <1>10, <1>11
<1>17. journal' \in [beats : Seq(Nat), worked : Seq(Nat), data : Seq(Datum),
                     counters : Seq(Sample), probes : Seq(Nat \cup {None})]
  <2>1. /\ Append(j.beats, at) \in Seq(Nat) /\ Push(j.worked, at, d.worked) \in Seq(Nat)
        /\ j.probes \in Seq(Nat \cup {None})
    BY <1>10, <1>12, <1>13 DEF Kept
  <2> QED
    BY <1>14, <1>15, <1>16, <2>1
<1>18. /\ arriving' \in Seq(Waiter)
       /\ \A k \in DOMAIN arriving' : \E m \in DOMAIN arriving : arriving'[k] = arriving[m]
  <2>1. /\ RemoveAt(arriving, i) \in Seq(Waiter)
        /\ \A k \in DOMAIN RemoveAt(arriving, i) :
                \E m \in DOMAIN arriving : RemoveAt(arriving, i)[k] = arriving[m]
    BY <1>4, RemoveAtIs
  <2>2. arriving' = RemoveAt(arriving, i)
    BY <1>1
  <2> QED
    BY <2>1, <2>2, Zenon
<1>19. clock' = clock /\ scenario' = scenario
  BY DEF Record
<1>20. \A k \in DOMAIN arriving' : arriving'[k].at <= clock /\ clock - arriving'[k].at <= Overlap
  BY <1>4, <1>18, Zenon
<1>21. Kept(journal'.beats, clock, Overlap) /\ Kept(journal'.worked, clock, Overlap)
  BY <1>12, <1>13, <1>16
<1> QED
  BY <1>4, <1>17, <1>18, <1>19, <1>20, <1>21, Zenon DEF JournalIsKept

LEMMA JournalIsKeptAlways == Spec => []JournalIsKept
<1>1. Init => JournalIsKept
  <2> SUFFICES ASSUME Init PROVE JournalIsKept
    OBVIOUS
  <2>1. /\ scenario \in Scenarios /\ clock = 0 /\ arriving = <<>>
        /\ journal = [beats |-> <<>>, worked |-> <<>>, data |-> <<>>, counters |-> <<>>,
                      probes |-> <<>>]
    BY DEF Init
  <2>2. Kept(<<>>, 0, Overlap)
    BY DEF Kept, Orderly
  <2>3. arriving \in Seq(Waiter) /\ DOMAIN arriving = {}
    BY <2>1
  <2>4. journal \in [beats : Seq(Nat), worked : Seq(Nat), data : Seq(Datum),
                     counters : Seq(Sample), probes : Seq(Nat \cup {None})]
    BY <2>1
  <2>5. journal.beats = <<>> /\ journal.worked = <<>>
    BY <2>1
  <2> QED
    BY <2>1, <2>2, <2>3, <2>4, <2>5 DEF JournalIsKept
<1>2. JournalIsKept /\ [Next]_vars => JournalIsKept'
  <2> SUFFICES ASSUME JournalIsKept, [Next]_vars PROVE JournalIsKept'
    OBVIOUS
  <2>1. CASE Beat
    BY <2>1, JournalKeepsBeat
  <2>2. CASE Record
    BY <2>2, JournalKeepsRecord
  <2>3. CASE Probe
    <3>1. PICK l \in scenario.latencies : journal' = [journal EXCEPT !.probes = Append(@, l)]
      BY <2>3, Zenon DEF Probe
    <3>2. scenario' = scenario /\ clock' = clock /\ arriving' = arriving
      BY <2>3 DEF Probe
    <3>3. l \in Nat \cup {None}
      BY ScenarioAssumption DEF JournalIsKept
    <3>4. PICK j : j = journal
      OBVIOUS
    <3>5. j \in [beats : Seq(Nat), worked : Seq(Nat), data : Seq(Datum),
                 counters : Seq(Sample), probes : Seq(Nat \cup {None})]
      BY <3>4 DEF JournalIsKept
    <3>6. Append(j.probes, l) \in Seq(Nat \cup {None})
      BY <3>3, <3>5
    <3>7. /\ journal' \in [beats : Seq(Nat), worked : Seq(Nat), data : Seq(Datum),
                           counters : Seq(Sample), probes : Seq(Nat \cup {None})]
          /\ journal'.beats = j.beats /\ journal'.worked = j.worked
      BY <3>1, <3>4, <3>5, <3>6
    <3> QED
      BY <3>2, <3>4, <3>7, Zenon DEF JournalIsKept
  <2>4. CASE Report
    BY <2>4 DEF Report, JournalIsKept
  <2>5. CASE Start
    BY <2>5 DEF Start, JournalIsKept
  <2>6. CASE UNCHANGED vars
    BY <2>6 DEF vars, JournalIsKept
  <2> QED
    BY <2>1, <2>2, <2>3, <2>4, <2>5, <2>6 DEF Next
<1> QED
  BY <1>1, <1>2, PTL DEF Spec

-----------------------------------------------------------------------------
(* What is laid over a file *)

BlockKeys == {"alive", "worked", "freshness"}

\* Paths of blocks of a job, and no texts.
Beside(more) ==
    \A q \in DOMAIN more :
        /\ q \in Seq(STRING) /\ \E i \in 1..Len(q) : q[i] \in BlockKeys
        /\ more[q].type # "text"

\* None of them is a path of the environment's, or what that is in.
LEMMA BesideIsElsewhere ==
    ASSUME NEW more, Beside(more), NEW p \in {Listen, Token, ChatId}
    PROVE  p \notin DOMAIN more /\ Above(p) \cap DOMAIN more = {}
<1> DEFINE n == <<"notify">>
           t == <<"notify", "telegram">>
<1>1. \A q \in {Listen, Token, ChatId, n, t} : ~\E i \in 1..Len(q) : q[i] \in BlockKeys
  BY DEF Listen, Token, ChatId, BlockKeys
<1>2. Above(p) \subseteq {n, t}
  <2> HIDE DEF n, t
  <2> QED
    BY AboveIs DEF n, t
<1> HIDE DEF n, t
<1>3. \A q \in DOMAIN more : q \notin {Listen, Token, ChatId, n, t}
  BY <1>1, Zenon DEF Beside
<1> QED
  BY <1>2, <1>3

LEMMA SetPathOver ==
    ASSUME NEW tree, NEW more, NEW p, p \notin DOMAIN more, Above(p) \cap DOMAIN more = {},
           NEW value
    PROVE  SetPath(Over(tree, more), p, value) = Over(SetPath(tree, p, value), more)
<1> DEFINE above == {SubSeq(p, 1, n) : n \in 1..(Len(p) - 1)}
           both == Over(tree, more)
           bare == [q \in above |-> Table]
           leaf == [q \in {p} |-> value]
<1>1. above = Above(p)
  BY DEF Above
<1> HIDE DEF above
<1>2. /\ DOMAIN both = DOMAIN tree \cup DOMAIN more
      /\ \A q \in DOMAIN tree \ DOMAIN more : both[q] = tree[q]
      /\ \A q \in DOMAIN more : both[q] = more[q]
  BY OverIs
<1>3. (\E q \in above : Has(both, q) /\ both[q] # Table)
        <=> (\E q \in above : Has(tree, q) /\ tree[q] # Table)
  BY <1>1, <1>2 DEF Has
<1>4. CASE \E q \in above : Has(tree, q) /\ tree[q] # Table
  <2>1. SetPath(both, p, value) = both
    BY <1>3, <1>4 DEF SetPath, above
  <2>2. SetPath(tree, p, value) = tree
    BY <1>4 DEF SetPath, above
  <2> QED
    BY <2>1, <2>2
<1>5. CASE ~\E q \in above : Has(tree, q) /\ tree[q] # Table
  <2>1. SetPath(both, p, value) = Over(Over(bare, both), leaf)
    BY <1>3, <1>5 DEF SetPath, above
  <2>2. SetPath(tree, p, value) = Over(Over(bare, tree), leaf)
    BY <1>5 DEF SetPath, above
  <2> DEFINE left == Over(Over(bare, both), leaf)
             right == Over(Over(Over(bare, tree), leaf), more)
             D == above \cup DOMAIN tree \cup DOMAIN more \cup {p}
  <2>3. left = [q \in D |-> IF q = p THEN value ELSE IF q \in DOMAIN more THEN more[q]
                            ELSE IF q \in DOMAIN tree THEN tree[q] ELSE Table]
    <3>1. DOMAIN bare = above /\ DOMAIN leaf = {p}
      OBVIOUS
    <3>2. DOMAIN Over(bare, both) = above \cup DOMAIN both /\ DOMAIN left = D
      BY <1>2, <3>1, Zenon DEF Over
    <3>3. ASSUME NEW q \in D
          PROVE  left[q] = IF q = p THEN value ELSE IF q \in DOMAIN more THEN more[q]
                           ELSE IF q \in DOMAIN tree THEN tree[q] ELSE Table
      BY <1>2, <3>1, <3>2 DEF Over
    <3>4. left = [q \in D |-> left[q]]
      BY <3>2 DEF Over
    <3> HIDE DEF left, D
    <3> QED
      BY <3>3, <3>4
  <2>4. right = [q \in D |-> IF q = p THEN value ELSE IF q \in DOMAIN more THEN more[q]
                             ELSE IF q \in DOMAIN tree THEN tree[q] ELSE Table]
    <3>1. DOMAIN bare = above /\ DOMAIN leaf = {p}
      OBVIOUS
    <3>2. /\ DOMAIN Over(bare, tree) = above \cup DOMAIN tree
          /\ DOMAIN Over(Over(bare, tree), leaf) = above \cup DOMAIN tree \cup {p}
          /\ DOMAIN right = D
      BY <3>1 DEF Over
    <3>3. ASSUME NEW q \in D
          PROVE  right[q] = IF q = p THEN value ELSE IF q \in DOMAIN more THEN more[q]
                            ELSE IF q \in DOMAIN tree THEN tree[q] ELSE Table
      BY <1>1, <3>1, <3>2 DEF Over
    <3>4. right = [q \in D |-> right[q]]
      BY <3>2 DEF Over
    <3> HIDE DEF right, D
    <3> QED
      BY <3>3, <3>4
  <2> QED
    BY <2>1, <2>2, <2>3, <2>4
<1> QED
  BY <1>4, <1>5

\* from_toml of a file with more in it is that of the file, with that in it.
LEMMA EffectiveOver ==
    ASSUME NEW tree, NEW more, Beside(more), NEW e
    PROVE  /\ Effective(Over(tree, more), e) = Over(Effective(tree, e), more)
           /\ Interpolable(tree, e) => Interpolable(Over(tree, more), e)
<1> DEFINE both == Over(tree, more)
           a == Interpolate(tree, e)
           b == Interpolate(both, e)
<1>1. /\ DOMAIN both = DOMAIN tree \cup DOMAIN more
      /\ \A q \in DOMAIN tree \ DOMAIN more : both[q] = tree[q]
      /\ \A q \in DOMAIN more : both[q] = more[q] /\ more[q].type # "text"
  <2>1. \A q \in DOMAIN more : more[q].type # "text"
    BY DEF Beside
  <2> QED
    BY <2>1 DEF Over
<1> HIDE DEF both
<1>2. DOMAIN a = DOMAIN tree /\ DOMAIN b = DOMAIN both
  BY DEF Interpolate
<1>3. b = Over(a, more)
  <2>1. ASSUME NEW q \in DOMAIN both
        PROVE  b[q] = IF q \in DOMAIN more THEN more[q] ELSE a[q]
    <3>1. CASE q \in DOMAIN more
      BY <1>1, <3>1 DEF Interpolate
    <3>2. CASE q \notin DOMAIN more
      BY <1>1, <3>2 DEF Interpolate
    <3> QED
      BY <3>1, <3>2
  <2>2. b = [q \in DOMAIN both |-> b[q]]
    BY DEF Interpolate
  <2> HIDE DEF a, b
  <2> QED
    BY <1>1, <1>2, <2>1, <2>2 DEF Over
<1> HIDE DEF a, b
<1>4. ASSUME NEW u, NEW p \in {Listen, Token, ChatId}
      PROVE  Supplied(e, Over(u, more), p) = Over(Supplied(e, u, p), more)
  <2>1. p \notin DOMAIN more /\ Above(p) \cap DOMAIN more = {}
    BY BesideIsElsewhere
  <2>2. SetPath(Over(u, more), p, Text(e[VariableFor(p)]))
            = Over(SetPath(u, p, Text(e[VariableFor(p)])), more)
    BY <2>1, SetPathOver
  <2> QED
    BY <2>2, Zenon DEF Supplied
<1>5. Override(b, e) = Over(Override(a, e), more)
  <2>1. PICK u : u = Supplied(e, a, Listen)
    OBVIOUS
  <2>2. PICK v : v = Supplied(e, u, Token)
    OBVIOUS
  <2>3. Supplied(e, b, Listen) = Over(u, more)
    BY <1>3, <1>4, <2>1
  <2>4. Supplied(e, Over(u, more), Token) = Over(v, more)
    BY <1>4, <2>2
  <2>5. Supplied(e, Over(v, more), ChatId) = Over(Supplied(e, v, ChatId), more)
    BY <1>4
  <2>6. Override(b, e) = Supplied(e, Supplied(e, Supplied(e, b, Listen), Token), ChatId)
    BY OverrideIs
  <2>7. Override(a, e) = Supplied(e, Supplied(e, Supplied(e, a, Listen), Token), ChatId)
    BY OverrideIs
  <2>8. Override(b, e) = Over(Supplied(e, v, ChatId), more)
    BY <2>3, <2>4, <2>5, <2>6
  <2>9. Override(a, e) = Supplied(e, v, ChatId)
    BY <2>1, <2>2, <2>7
  <2> QED
    BY <2>8, <2>9
<1>6. Effective(both, e) = Over(Effective(tree, e), more)
  BY <1>5, Zenon DEF Effective, a, b
<1>7. ASSUME Interpolable(tree, e), NEW q \in DOMAIN both, both[q].type = "text"
      PROVE  Expandable(both[q].is, e)
  BY <1>1, <1>7 DEF Interpolable
<1>8. Interpolable(tree, e) => Interpolable(both, e)
  BY <1>7, Zenon DEF Interpolable
<1> QED
  BY <1>6, <1>8, Zenon DEF both

LEMMA BlockIsBeside ==
    ASSUME NEW j \in Seq(STRING), NEW a \in BlockKeys, NEW t, DOMAIN t \subseteq STRING
    PROVE  /\ \A q \in DOMAIN Block(j \o <<a>>, t) :
                Len(j) + 1 \in 1..Len(q) /\ q[Len(j) + 1] = a
           /\ Beside(Block(j \o <<a>>, t))
<1> DEFINE b == j \o <<a>>
<1>1. a \in STRING
  BY TheKeys, KeysAreStrings, Zenon DEF BlockKeys
<1>2. b \in Seq(STRING) /\ Len(b) = Len(j) + 1 /\ b[Len(j) + 1] = a /\ Len(j) \in Nat
  <2>1. /\ j \o <<a>> \in Seq(STRING) /\ Len(j \o <<a>>) = Len(j) + 1
        /\ (j \o <<a>>)[Len(j) + 1] = a
    BY <1>1, PathChild, Zenon
  <2>2. Len(j) \in Nat
    OBVIOUS
  <2> QED
    BY <2>1, <2>2, Zenon
<1> HIDE DEF b
<1>3. ASSUME NEW q \in DOMAIN Block(b, t)
      PROVE  /\ q \in Seq(STRING) /\ Len(j) + 1 \in 1..Len(q) /\ q[Len(j) + 1] = a
             /\ Block(b, t)[q].type # "text"
  <2>1. q = b \/ \E k \in DOMAIN t : q = b \o <<k>>
    BY DEF Block
  <2>2. Block(b, t)[q].type # "text"
    BY DEF Block, Table, Number
  <2>3. CASE q = b
    BY <1>2, <2>2, <2>3
  <2>4. ASSUME NEW k \in DOMAIN t, q = b \o <<k>>
        PROVE  q \in Seq(STRING) /\ Len(j) + 1 \in 1..Len(q) /\ q[Len(j) + 1] = a
    <3>1. k \in STRING
      OBVIOUS
    <3>2. /\ b \o <<k>> \in Seq(STRING) /\ Len(b \o <<k>>) = Len(b) + 1
          /\ \A i \in 1..Len(b) : (b \o <<k>>)[i] = b[i]
      BY <1>2, <3>1, PathChild
    <3> QED
      BY <1>2, <2>4, <3>2
  <2> QED
    BY <2>1, <2>2, <2>3, <2>4
<1>4. Beside(Block(b, t))
  BY <1>3 DEF Beside
<1> QED
  BY <1>3, <1>4 DEF b

LEMMA OverIsBeside ==
    ASSUME NEW more, NEW yet, Beside(more), Beside(yet)
    PROVE  Beside(Over(more, yet))
BY OverIs DEF Beside, Over

\* The blocks of a job do not touch each other.
LEMMA BlocksAreApart ==
    ASSUME NEW j \in Seq(STRING), NEW a \in BlockKeys, NEW b \in BlockKeys, a # b,
           NEW t, DOMAIN t \subseteq STRING, NEW u, DOMAIN u \subseteq STRING
    PROVE  DOMAIN Block(j \o <<a>>, t) \cap DOMAIN Block(j \o <<b>>, u) = {}
<1>1. \A q \in DOMAIN Block(j \o <<a>>, t) : q[Len(j) + 1] = a
  BY BlockIsBeside
<1>2. \A q \in DOMAIN Block(j \o <<b>>, u) : q[Len(j) + 1] = b
  BY BlockIsBeside
<1> QED
  BY <1>1, <1>2, Zenon

LEMMA LearnedFrom ==
    ASSUME JournalIsKept
    PROVE  /\ Median(Ordinary(journal.beats)) \in Nat
           /\ Worst(journal.beats) \in Nat /\ Worst(journal.worked) \in Nat
           /\ Largest(Ages) \in Nat
           /\ \A i \in DOMAIN Ages : Ages[i] \in Nat /\ Ages[i] <= Largest(Ages)
<1>1. /\ journal.beats \in Seq(Nat) /\ journal.worked \in Seq(Nat)
      /\ journal.data \in Seq(Datum)
  BY DEF JournalIsKept
<1>2. Counts(Ordinary(journal.beats)) /\ Counts(Ordinary(journal.worked))
  BY <1>1, GapsAre
<1>3. Counts(Ages)
  <2>1. DOMAIN Ages = 1..Len(journal.data) /\ Len(journal.data) \in Nat
    BY <1>1 DEF Ages
  <2>2. IsFiniteSet(DOMAIN Ages)
    BY <2>1, IntervalSize
  <2>3. ASSUME NEW i \in DOMAIN Ages PROVE Ages[i] \in Nat
    <3>1. journal.data[i] \in Datum
      BY <1>1, <2>1
    <3>2. Ages[i] = Since(journal.data[i].ts, journal.data[i].at)
      BY DEF Ages
    <3> QED
      BY <3>1, <3>2 DEF Datum, Since
  <2> QED
    BY <2>2, <2>3 DEF Counts
<1> QED
  BY <1>2, <1>3, MedianIs, LargestIs DEF Worst, Counts

\* What is printed is beside what there is, and each block of it is whole.
LEMMA PrintedIs ==
    ASSUME Job \in Seq(STRING)
    PROVE  /\ Beside(Printed)
           /\ HasCadence(journal.beats) => Holds(Printed, Block(Job \o <<"alive">>, LearnedAlive))
           /\ HasCadence(journal.worked) => Holds(Printed, Block(Job \o <<"worked">>, LearnedWorked))
           /\ Len(Ages) >= MinIntervals =>
                Holds(Printed, Block(Job \o <<"freshness">>, LearnedFreshness))
           /\ \A q \in DOMAIN Printed :
                \/ HasCadence(journal.beats) /\ q \in DOMAIN Block(Job \o <<"alive">>, LearnedAlive)
                \/ HasCadence(journal.worked) /\ q \in DOMAIN Block(Job \o <<"worked">>, LearnedWorked)
                \/ /\ Len(Ages) >= MinIntervals
                   /\ q \in DOMAIN Block(Job \o <<"freshness">>, LearnedFreshness)
<1>1. PICK j : j = Job
  OBVIOUS
<1>2. j \in Seq(STRING)
  BY <1>1
<1>3. /\ DOMAIN LearnedAlive \subseteq STRING /\ DOMAIN LearnedWorked \subseteq STRING
      /\ DOMAIN LearnedFreshness \subseteq STRING
  <2>1. /\ DOMAIN LearnedAlive = {"expect_every", "warn_after", "critical_after"}
        /\ DOMAIN LearnedWorked = {"warn_after", "critical_after"}
        /\ DOMAIN LearnedFreshness = {"warn_after", "critical_after"}
    BY DEF LearnedAlive, LearnedWorked, LearnedFreshness, AliveThresholds, SilenceThresholds
  <2>2. {"expect_every", "warn_after", "critical_after"} \subseteq STRING
    <3>1. {"expect_every", "warn_after", "critical_after"} \subseteq Keys
      BY TheKeys
    <3> QED
      BY <3>1, KeysAreStrings, Zenon
  <2> QED
    BY <2>1, <2>2
<1>4. PICK a : a = Block(j \o <<"alive">>, LearnedAlive)
  OBVIOUS
<1>5. PICK w : w = Block(j \o <<"worked">>, LearnedWorked)
  OBVIOUS
<1>6. PICK f : f = Block(j \o <<"freshness">>, LearnedFreshness)
  OBVIOUS
<1>7. "alive" \in BlockKeys /\ "worked" \in BlockKeys /\ "freshness" \in BlockKeys
      /\ "alive" # "worked" /\ "alive" # "freshness" /\ "worked" # "freshness"
  BY DEF BlockKeys
<1>8. Beside(a) /\ Beside(w) /\ Beside(f) /\ Beside(NoBlock)
  <2>1. Beside(NoBlock)
    BY DEF Beside, NoBlock
  <2> QED
    BY <1>2, <1>3, <1>4, <1>5, <1>6, <1>7, <2>1, BlockIsBeside
<1>9. DOMAIN a \cap DOMAIN w = {} /\ DOMAIN a \cap DOMAIN f = {} /\ DOMAIN w \cap DOMAIN f = {}
  BY <1>2, <1>3, <1>4, <1>5, <1>6, <1>7, BlocksAreApart
<1>10. PICK aa : aa = AliveBlock(j)
  OBVIOUS
<1>11. PICK ww : ww = WorkedBlock(j)
  OBVIOUS
<1>12. PICK ff : ff = FreshnessBlock(j)
  OBVIOUS
<1>13. /\ aa = IF HasCadence(journal.beats) THEN a ELSE NoBlock
       /\ ww = IF HasCadence(journal.worked) THEN w ELSE NoBlock
       /\ ff = IF Len(Ages) >= MinIntervals THEN f ELSE NoBlock
  BY <1>4, <1>5, <1>6, <1>10, <1>11, <1>12, Zenon DEF AliveBlock, WorkedBlock, FreshnessBlock
<1>14. Printed = Over(Over(aa, ww), ff)
  BY <1>1, <1>10, <1>11, <1>12, Zenon DEF Printed
<1>15. Beside(aa) /\ Beside(ww) /\ Beside(ff)
  BY <1>8, <1>13
<1>16. Beside(Printed)
  <2>1. Beside(Over(aa, ww))
    BY <1>15, OverIsBeside
  <2> QED
    BY <1>14, <1>15, <2>1, OverIsBeside
<1>17. DOMAIN NoBlock = {}
  BY DEF NoBlock
<1>18. DOMAIN Printed = DOMAIN aa \cup DOMAIN ww \cup DOMAIN ff
  BY <1>14 DEF Over
<1>19. /\ \A q \in DOMAIN ff : Printed[q] = ff[q]
       /\ \A q \in DOMAIN ww \ DOMAIN ff : Printed[q] = ww[q]
       /\ \A q \in DOMAIN aa \ (DOMAIN ww \cup DOMAIN ff) : Printed[q] = aa[q]
  BY <1>14 DEF Over
<1>21. HasCadence(journal.beats) => Holds(Printed, a)
  BY <1>9, <1>13, <1>17, <1>18, <1>19 DEF Holds
<1>22. HasCadence(journal.worked) => Holds(Printed, w)
  BY <1>9, <1>13, <1>17, <1>18, <1>19 DEF Holds
<1>23. Len(Ages) >= MinIntervals => Holds(Printed, f)
  BY <1>13, <1>18, <1>19 DEF Holds
<1>24. \A q \in DOMAIN Printed :
            \/ HasCadence(journal.beats) /\ q \in DOMAIN a
            \/ HasCadence(journal.worked) /\ q \in DOMAIN w
            \/ Len(Ages) >= MinIntervals /\ q \in DOMAIN f
  BY <1>13, <1>17, <1>18
<1> QED
  BY <1>1, <1>4, <1>5, <1>6, <1>16, <1>21, <1>22, <1>23, <1>24, Zenon

LEMMA HoldsOver ==
    ASSUME NEW tree, NEW more, NEW block, Holds(more, block)
    PROVE  Holds(Over(tree, more), block)
<1>1. \A q \in DOMAIN more : q \in DOMAIN Over(tree, more) /\ Over(tree, more)[q] = more[q]
  BY DEF Over
<1> QED
  BY <1>1, Zenon DEF Holds

\* What is printed is read back, over whatever it is laid.
LEMMA PrintedIsReadBack ==
    ASSUME JournalIsKept, Job \in Seq(STRING), NEW tree, NEW both, both = Over(tree, Printed)
    PROVE  /\ HasCadence(journal.beats) =>
                Alive(both, Job \o <<"alive">>) = LearnedAlive /\ AliveAccepted(LearnedAlive)
           /\ HasCadence(journal.worked) =>
                /\ Silence(both, Job \o <<"worked">>) = LearnedWorked
                /\ SilenceAccepted(LearnedWorked)
           /\ Len(Ages) >= MinIntervals =>
                /\ Silence(both, Job \o <<"freshness">>) = LearnedFreshness
                /\ SilenceAccepted(LearnedFreshness)
<1>1. /\ HasCadence(journal.beats) => Holds(both, Block(Job \o <<"alive">>, LearnedAlive))
      /\ HasCadence(journal.worked) => Holds(both, Block(Job \o <<"worked">>, LearnedWorked))
      /\ Len(Ages) >= MinIntervals =>
            Holds(both, Block(Job \o <<"freshness">>, LearnedFreshness))
  BY PrintedIs, HoldsOver
<1>2. /\ {"expect_every", "warn_after", "critical_after"} \subseteq STRING
      /\ {"warn_after", "critical_after"} \subseteq STRING
  <2>1. {"expect_every", "warn_after", "critical_after"} \subseteq Keys
    BY TheKeys
  <2>2. {"expect_every", "warn_after", "critical_after"} \subseteq STRING
    BY <2>1, KeysAreStrings, Zenon
  <2> QED
    BY <2>2
<1>3. \A k \in BlockKeys : Job \o <<k>> \in Seq(STRING)
  <2> TAKE k \in BlockKeys
  <2>1. k \in STRING
    BY TheKeys, KeysAreStrings, Zenon DEF BlockKeys
  <2> QED
    BY <2>1, PathChild
<1>4. /\ Job \o <<"alive">> \in Seq(STRING) /\ Job \o <<"worked">> \in Seq(STRING)
      /\ Job \o <<"freshness">> \in Seq(STRING)
  BY <1>3 DEF BlockKeys
<1>5. ASSUME HasCadence(journal.beats)
      PROVE  Alive(both, Job \o <<"alive">>) = LearnedAlive /\ AliveAccepted(LearnedAlive)
  <2>1. PICK median \in Nat : median = Median(Ordinary(journal.beats))
    BY LearnedFrom
  <2>2. PICK worst \in Nat : worst = Worst(journal.beats)
    BY LearnedFrom
  <2>3. LearnedAlive = AliveThresholds(median, worst)
    BY <2>1, <2>2 DEF LearnedAlive
  <2>4. Holds(both, Block(Job \o <<"alive">>, AliveThresholds(median, worst)))
    BY <1>1, <1>5, <2>3
  <2>5. Alive(both, Job \o <<"alive">>) = AliveThresholds(median, worst)
    BY <1>2, <1>4, <2>4, AliveBlockIsReadBack
  <2> QED
    BY <2>1, <2>2, <2>3, <2>5, AliveThresholdsHold
<1>6. ASSUME HasCadence(journal.worked)
      PROVE  /\ Silence(both, Job \o <<"worked">>) = LearnedWorked
             /\ SilenceAccepted(LearnedWorked)
  <2>1. PICK worst \in Nat : worst = Worst(journal.worked)
    BY LearnedFrom
  <2>2. LearnedWorked = SilenceThresholds(worst)
    BY <2>1 DEF LearnedWorked
  <2>3. Holds(both, Block(Job \o <<"worked">>, SilenceThresholds(worst)))
    BY <1>1, <1>6, <2>2
  <2>4. Silence(both, Job \o <<"worked">>) = SilenceThresholds(worst)
    BY <1>2, <1>4, <2>3, SilenceBlockIsReadBack
  <2> QED
    BY <2>1, <2>2, <2>4, SilenceThresholdsHold
<1>7. ASSUME Len(Ages) >= MinIntervals
       PROVE  /\ Silence(both, Job \o <<"freshness">>) = LearnedFreshness
              /\ SilenceAccepted(LearnedFreshness)
  <2>1. PICK worst \in Nat : worst = Largest(Ages)
    BY LearnedFrom
  <2>2. LearnedFreshness = SilenceThresholds(worst)
    BY <2>1 DEF LearnedFreshness
  <2>3. Holds(both, Block(Job \o <<"freshness">>, SilenceThresholds(worst)))
    BY <1>1, <1>7, <2>2
  <2>4. Silence(both, Job \o <<"freshness">>) = SilenceThresholds(worst)
    BY <1>2, <1>4, <2>3, SilenceBlockIsReadBack
  <2> QED
    BY <2>1, <2>2, <2>4, SilenceThresholdsHold
<1> QED
  BY <1>5, <1>6, <1>7

\* What runs is what was read of the file, with what was printed.
LEMMA ProposalIsRead ==
    ASSUME ConfigIsRead, JournalIsKept, phase = "running"
    PROVE  /\ config = Over(Effective(file, env), Printed)
           /\ HasCadence(journal.beats) => Alive(config, Job \o <<"alive">>) = LearnedAlive
           /\ HasCadence(journal.worked) => Silence(config, Job \o <<"worked">>) = LearnedWorked
           /\ Len(Ages) >= MinIntervals =>
                Silence(config, Job \o <<"freshness">>) = LearnedFreshness
<1>1. Job \in Seq(STRING)
  BY JobIsInFile, Zenon DEF ConfigIsRead, IsTree
<1>2. PICK c : c = Effective(file, env)
  OBVIOUS
<1>3. config = Over(c, Printed)
  <2>1. config = Effective(Over(file, Printed), env)
    BY Zenon DEF ConfigIsRead, Loads, Proposal
  <2>2. Beside(Printed)
    BY <1>1, PrintedIs
  <2> QED
    BY <1>2, <2>1, <2>2, EffectiveOver
<1> QED
  BY <1>1, <1>2, <1>3, PrintedIsReadBack

\* The totals of a window.
LEMMA TotalsAreCounts ==
    ASSUME JournalIsKept, NEW window
    PROVE  Numerator(window) \in Nat /\ Denominator(window) \in Nat
<1> DEFINE W == InWindow(window)
           AnyOf(s) == CHOOSE x \in s : TRUE
<1>1. journal.counters \in Seq(Sample) /\ Len(journal.counters) \in Nat
  BY DEF JournalIsKept
<1>2. W \subseteq 1..Len(journal.counters) /\ \A i \in W : journal.counters[i].den # None
  BY <1>1 DEF InWindow
<1>3. IsFiniteSet(W)
  <2>1. IsFiniteSet(1..Len(journal.counters))
    BY <1>1, IntervalSize
  <2> HIDE DEF W
  <2> QED
    BY <1>2, <2>1, FS_Subset
<1>4. ASSUME NEW i \in W
      PROVE  NumeratorOf(i) \in Nat /\ DenominatorOf(i) \in Nat
  <2> HIDE DEF W
  <2>1. journal.counters[i] \in Sample /\ journal.counters[i].den # None
    BY <1>1, <1>2
  <2> QED
    BY <2>1 DEF Sample, NumeratorOf, DenominatorOf
<1> HIDE DEF W
<1>5. Numerator(window) \in Nat
  <2> DEFINE w == [i \in W |-> NumeratorOf(i)]
             Sum(g) == g = [s \in SUBSET W |->
                            IF s = {} THEN 0 ELSE NumeratorOf(AnyOf(s)) + g[s \ {AnyOf(s)}]]
  <2>1. \A g : Sum(g) <=> SumEquation(g, W, w)
    <3> SUFFICES ASSUME NEW g
                 PROVE  [s \in SUBSET W |->
                            IF s = {} THEN 0 ELSE NumeratorOf(AnyOf(s)) + g[s \ {AnyOf(s)}]]
                        = [s \in SUBSET W |-> IF s = {} THEN 0 ELSE w[AnyOf(s)] + g[s \ {AnyOf(s)}]]
      BY Zenon DEF SumEquation
    <3>1. \A s \in SUBSET W : s # {} => w[AnyOf(s)] = NumeratorOf(AnyOf(s))
      OBVIOUS
    <3> HIDE DEF w, AnyOf
    <3> QED
      BY <3>1
  <2>2. \A i \in W : w[i] \in Nat
    BY <1>4
  <2>3. Numerator(window) = (CHOOSE g : Sum(g))[W]
    BY Zenon DEF Numerator, MapThenSumSet, MapThenFoldSet, W
  <2> HIDE DEF Sum, w
  <2>4. \E g : SumEquation(g, W, w)
    BY <1>3, <2>2, SumExists
  <2>5. SumEquation(CHOOSE g : Sum(g), W, w)
    BY <2>1, <2>4, Zenon
  <2>6. PICK g : g = CHOOSE h : Sum(h)
    OBVIOUS
  <2>7. g[W] \in Nat
    BY <1>3, <2>2, <2>5, <2>6, SumTyped
  <2> QED
    BY <2>3, <2>6, <2>7
<1>6. Denominator(window) \in Nat
  <2> DEFINE w == [i \in W |-> DenominatorOf(i)]
             Sum(g) == g = [s \in SUBSET W |->
                            IF s = {} THEN 0 ELSE DenominatorOf(AnyOf(s)) + g[s \ {AnyOf(s)}]]
  <2>1. \A g : Sum(g) <=> SumEquation(g, W, w)
    <3> SUFFICES ASSUME NEW g
                 PROVE  [s \in SUBSET W |->
                            IF s = {} THEN 0 ELSE DenominatorOf(AnyOf(s)) + g[s \ {AnyOf(s)}]]
                        = [s \in SUBSET W |-> IF s = {} THEN 0 ELSE w[AnyOf(s)] + g[s \ {AnyOf(s)}]]
      BY Zenon DEF SumEquation
    <3>1. \A s \in SUBSET W : s # {} => w[AnyOf(s)] = DenominatorOf(AnyOf(s))
      OBVIOUS
    <3> HIDE DEF w, AnyOf
    <3> QED
      BY <3>1
  <2>2. \A i \in W : w[i] \in Nat
    BY <1>4
  <2>3. Denominator(window) = (CHOOSE g : Sum(g))[W]
    BY Zenon DEF Denominator, MapThenSumSet, MapThenFoldSet, W
  <2> HIDE DEF Sum, w
  <2>4. \E g : SumEquation(g, W, w)
    BY <1>3, <2>2, SumExists
  <2>5. SumEquation(CHOOSE g : Sum(g), W, w)
    BY <2>1, <2>4, Zenon
  <2>6. PICK g : g = CHOOSE h : Sum(h)
    OBVIOUS
  <2>7. g[W] \in Nat
    BY <1>3, <2>2, <2>5, <2>6, SumTyped
  <2> QED
    BY <2>3, <2>6, <2>7
<1> QED
  BY <1>5, <1>6

\* A floor of 95 hundredths of what was made of the window, rounded down, is met by it.
LEMMA FloorIsMet ==
    ASSUME JournalIsKept, NEW window
    PROVE  \/ Floor(window) \in {None, 1}
           \/ Floor(window) * Denominator(window) <= 100 * Numerator(window)
<1>1. PICK n \in Nat : n = Numerator(window)
  BY TotalsAreCounts
<1>2. PICK d \in Nat : d = Denominator(window)
  BY TotalsAreCounts
<1>3. CASE d = 0
  BY <1>2, <1>3 DEF Floor
<1>4. CASE d # 0
  <2>1. PICK k : k = (95 * n) \div d
    OBVIOUS
  <2>2. k \in Int /\ k * d <= 95 * n
    BY <1>4, <2>1, SMT
  <2>3. Floor(window) = Max({1, k})
    BY <1>1, <1>2, <1>4, <2>1 DEF Floor
  <2>4. Max({1, k}) \in {1, k}
    BY <2>2, MaxOfTwo
  <2>5. k * d <= 100 * n
    BY <2>2, SMT
  <2> QED
    BY <1>1, <1>2, <2>3, <2>4, <2>5
<1> QED
  BY <1>3, <1>4

\* What is spelled to the second is at least one.
LEMMA SpelledIsLong ==
    ASSUME NEW d \in Nat, d > 0, Spell(d) = d
    PROVE  d >= Second
BY SMT DEF Spell, Second, Minute, Hour

\* Handlers wait for less than a second, as they do for a lock that nobody awaits under.
\* Then, whatever was observed, and in whatever order it was recorded, nothing of it that
\* the report does not name as an incident would have been warned of, by the thresholds
\* that stillwatch runs with or by the floor that was suggested (cadence,
\* alive_thresholds, silence_thresholds, round_up, ratio_section).
THEOREM NoneIsTighterAlways ==
    ASSUME Overlap < Second
    PROVE  Spec => []NoneIsTighter
<1>1. ConfigIsRead /\ JournalIsKept => NoneIsTighter
  <2> SUFFICES ASSUME ConfigIsRead, JournalIsKept, phase = "running" PROVE NoneIsTighter
    BY DEF NoneIsTighter
  <2>1. Overlap \in Nat /\ Overlap < Second
    BY LearnAssumption
  <2>2. ASSUME NEW warn \in Nat, warn >= Second PROVE warn > Overlap
    BY <2>1, <2>2 DEF Second
  <2>3. ASSUME HasCadence(journal.beats)
        PROVE  Tolerated(journal.beats, Alive(config, Job \o <<"alive">>).warn_after)
    <3>1. PICK median \in Nat : median = Median(Ordinary(journal.beats))
      BY LearnedFrom
    <3>2. PICK worst \in Nat : worst = Worst(journal.beats)
      BY LearnedFrom
    <3>3. PICK t : t = AliveThresholds(median, worst)
      OBVIOUS
    <3>4. Alive(config, Job \o <<"alive">>) = t
      BY <2>3, <3>1, <3>2, <3>3, ProposalIsRead DEF LearnedAlive
    <3>5. /\ AliveAccepted(t) /\ t.warn_after > worst
          /\ \A k \in DOMAIN t : t[k] \in Nat /\ Spell(t[k]) = t[k]
      BY <3>3, AliveThresholdsHold
    <3>6. {"expect_every", "warn_after"} \subseteq DOMAIN t
      BY <3>3 DEF AliveThresholds
    <3>7. PICK warn : warn = t.warn_after
      OBVIOUS
    <3>8. warn \in Nat /\ warn > worst /\ warn >= Second
      <4>1. warn \in Nat /\ Spell(warn) = warn /\ t.expect_every \in Nat
        BY <3>5, <3>6, <3>7
      <4>2. warn > 0
        BY <3>5, <3>7, <4>1 DEF AliveAccepted
      <4> QED
        BY <3>5, <3>7, <4>1, <4>2, SpelledIsLong
    <3>9. journal.beats \in Seq(Nat) /\ Orderly(journal.beats, Overlap)
      BY DEF JournalIsKept, Kept
    <3>10. Tolerated(journal.beats, warn)
      BY <2>1, <2>2, <3>2, <3>8, <3>9, Tolerance
    <3> QED
      BY <3>4, <3>7, <3>10
  <2>4. ASSUME NEW worst \in Nat
        PROVE  LET t == SilenceThresholds(worst)
               IN  t.warn_after \in Nat /\ t.warn_after > worst /\ t.warn_after >= Second
    <3>1. PICK t : t = SilenceThresholds(worst)
      OBVIOUS
    <3>2. /\ SilenceAccepted(t) /\ t.warn_after > worst
          /\ \A k \in DOMAIN t : t[k] \in Nat /\ Spell(t[k]) = t[k]
      BY <3>1, SilenceThresholdsHold
    <3>3. "warn_after" \in DOMAIN t
      BY <3>1 DEF SilenceThresholds
    <3>4. PICK warn : warn = t.warn_after
      OBVIOUS
    <3>5. warn \in Nat /\ Spell(warn) = warn /\ warn > 0
      BY <3>2, <3>3, <3>4 DEF SilenceAccepted
    <3>6. warn >= Second
      BY <3>5, SpelledIsLong
    <3> QED
      BY <3>1, <3>2, <3>4, <3>5, <3>6
  <2>5. ASSUME HasCadence(journal.worked)
        PROVE  Tolerated(journal.worked, Silence(config, Job \o <<"worked">>).warn_after)
    <3>1. PICK worst \in Nat : worst = Worst(journal.worked)
      BY LearnedFrom
    <3>2. Silence(config, Job \o <<"worked">>) = SilenceThresholds(worst)
      BY <2>5, <3>1, ProposalIsRead DEF LearnedWorked
    <3>3. PICK warn : warn = SilenceThresholds(worst).warn_after
      OBVIOUS
    <3>4. warn \in Nat /\ warn > worst /\ warn >= Second
      BY <2>4, <3>3
    <3>5. journal.worked \in Seq(Nat) /\ Orderly(journal.worked, Overlap)
      BY DEF JournalIsKept, Kept
    <3>6. Tolerated(journal.worked, warn)
      BY <2>1, <2>2, <3>1, <3>4, <3>5, Tolerance
    <3> QED
      BY <3>2, <3>3, <3>6
  <2>6. ASSUME Len(Ages) >= MinIntervals, NEW i \in DOMAIN Ages
        PROVE  Ages[i] < Silence(config, Job \o <<"freshness">>).warn_after
    <3>1. PICK worst \in Nat : worst = Largest(Ages)
      BY LearnedFrom
    <3>2. Silence(config, Job \o <<"freshness">>) = SilenceThresholds(worst)
      BY <2>6, <3>1, ProposalIsRead DEF LearnedFreshness
    <3>3. PICK warn : warn = SilenceThresholds(worst).warn_after
      OBVIOUS
    <3>4. warn \in Nat /\ warn > worst
      BY <2>4, <3>3
    <3>5. PICK age : age = Ages[i]
      OBVIOUS
    <3>6. age \in Nat /\ age <= worst
      BY <3>1, <3>5, LearnedFrom
    <3> QED
      BY <3>2, <3>3, <3>4, <3>5, <3>6
  <2> QED
    BY <2>3, <2>5, <2>6, FloorIsMet, Zenon DEF NoneIsTighter
<1> QED
  BY <1>1, ConfigIsReadAlways, JournalIsKeptAlways, PTL

-----------------------------------------------------------------------------
(* What it prints loads *)

ThresholdKeys == {"expect_every", "warn_after", "critical_after"}

\* What is printed: a block of the job, with all that it must have, or a threshold in one.
IsBlockOf(q, block, j, a) ==
    /\ q = j \o <<a>> /\ q # <<>> /\ Parent(q) = j /\ KeyOf(q) = a /\ block[q] = Table
    /\ \A k \in Required[a] : q \o <<k>> \in DOMAIN block

IsThresholdOf(q, block, j, a) ==
    /\ q # <<>> /\ Parent(q) = j \o <<a>> /\ Parent(q) \in DOMAIN block
    /\ KeyOf(q) \in ThresholdKeys /\ block[q].type = "number"

\* A key below a path.
LEMMA ChildIs ==
    ASSUME NEW p \in Seq(STRING), NEW k \in Keys
    PROVE  /\ p \o <<k>> \in Seq(STRING) /\ p \o <<k>> # <<>> /\ p \o <<k>> # p
           /\ Parent(p \o <<k>>) = p /\ KeyOf(p \o <<k>>) = k
           /\ (p \o <<k>>)[Len(p \o <<k>>)] = k
<1>1. k \in STRING
  BY KeysAreStrings, Zenon
<1>2. PICK q : q = p \o <<k>>
  OBVIOUS
<1>3. q \in Seq(STRING) /\ Len(q) = Len(p) + 1 /\ q[Len(p) + 1] = k
  BY <1>1, <1>2, PathChild
<1>4. Parent(q) = p
  BY <1>1, <1>2, PathChild, Zenon
<1>5. q # <<>> /\ q # p /\ q[Len(q)] = k
  BY <1>3
<1>6. KeyOf(q) = k
  BY <1>3, <1>5, KeyIs
<1> QED
  BY <1>2, <1>3, <1>4, <1>5, <1>6

LEMMA BlockPaths ==
    ASSUME NEW j \in Seq(STRING), NEW a \in BlockKeys, NEW t, DOMAIN t \subseteq ThresholdKeys,
           Required[a] \subseteq DOMAIN t
    PROVE  \A q \in DOMAIN Block(j \o <<a>>, t) :
                \/ IsBlockOf(q, Block(j \o <<a>>, t), j, a)
                \/ IsThresholdOf(q, Block(j \o <<a>>, t), j, a)
<1>1. a \in Keys /\ ThresholdKeys \subseteq Keys
  BY TheKeys, Zenon DEF BlockKeys, ThresholdKeys
<1>2. PICK p : p = j \o <<a>>
  OBVIOUS
<1>3. PICK b : b = Block(p, t)
  OBVIOUS
<1>4. p \in Seq(STRING) /\ p # <<>> /\ Parent(p) = j /\ KeyOf(p) = a
  BY <1>1, <1>2, ChildIs
<1>5. DOMAIN b = {p} \cup {p \o <<k>> : k \in DOMAIN t} /\ b[p] = Table
  BY <1>3 DEF Block
<1>6. IsBlockOf(p, b, j, a)
  <2>1. \A k \in Required[a] : p \o <<k>> \in DOMAIN b
    BY <1>5
  <2> QED
    BY <1>2, <1>4, <1>5, <2>1, Zenon DEF IsBlockOf
<1>7. ASSUME NEW k \in DOMAIN t
      PROVE  IsThresholdOf(p \o <<k>>, b, j, a)
  <2>1. k \in ThresholdKeys /\ k \in Keys
    BY <1>1
  <2>2. PICK q : q = p \o <<k>>
    OBVIOUS
  <2>3. q # <<>> /\ q # p /\ Parent(q) = p /\ KeyOf(q) = k /\ q[Len(q)] = k
    BY <1>4, <2>1, <2>2, ChildIs
  <2>4. q \in DOMAIN b
    BY <1>5, <2>2
  <2>5. b[q] = Number(Spell(t[q[Len(q)]]))
    BY <1>3, <2>3, <2>4 DEF Block
  <2>6. b[q].type = "number"
    BY <2>5 DEF Number
  <2> QED
    BY <1>2, <1>5, <2>1, <2>2, <2>3, <2>6 DEF IsThresholdOf
<1>8. \A q \in DOMAIN b : IsBlockOf(q, b, j, a) \/ IsThresholdOf(q, b, j, a)
  BY <1>5, <1>6, <1>7, Zenon
<1> QED
  BY <1>2, <1>3, <1>8, Zenon

\* What a file has is there still, and what is required of a table is there.
Same(c, tree, q) == (q \in DOMAIN c <=> q \in DOMAIN tree) /\ (q \in DOMAIN tree => c[q] = tree[q])

LEMMA RequiredIsThere ==
    ASSUME NEW tree, IsTree(tree), Deserializes(tree), NEW p \in DOMAIN tree,
           Listed(p, Consumed), KeyOf(p) \in DOMAIN Required, NEW k \in Required[KeyOf(p)],
           k \notin {"job", "check", "ratio"}
    PROVE  p \o <<k>> \in DOMAIN tree
<1> DEFINE read == {r \in DOMAIN tree : Listed(r, Consumed)}
           Children(s) == {KeyOf(q) : q \in {r \in read : r # <<>> /\ Parent(r) = s}}
<1>1. tree[p] = Table
  BY WhatIsRead
<1>2. Required[KeyOf(p)] \subseteq Children(p)
  <2>1. \A s \in read : tree[s] = Table => Required[KeyOf(s)] \subseteq Children(s)
    BY Zenon DEF Deserializes
  <2>2. p \in read
    OBVIOUS
  <2> HIDE DEF read, Children
  <2> QED
    BY <1>1, <2>1, <2>2
<1>3. PICK q \in read : q # <<>> /\ Parent(q) = p /\ KeyOf(q) = k
  BY <1>2, Zenon
<1>4. q \in DOMAIN tree /\ q \in Seq(STRING)
  BY <1>3 DEF IsTree
<1>5. q[Len(q)] = k
  BY <1>3, <1>4, KeyIs
<1>6. q = Parent(q) \o <<q[Len(q)]>>
  BY <1>3, <1>4, PathParent
<1> QED
  BY <1>3, <1>4, <1>5, <1>6

\* Blocks and thresholds of a job.
LaidBy(q, more, j) ==
    \E a \in BlockKeys : IsBlockOf(q, more, j, a) \/ IsThresholdOf(q, more, j, a)

Laid(j, more) == \A q \in DOMAIN more : q \in Seq(STRING) /\ LaidBy(q, more, j)

\* A path of another key is not one of them.
LEMMA Elsewhere ==
    ASSUME NEW tree, NEW j, NEW more, Laid(j, more), NEW q,
           KeyOf(q) \notin BlockKeys \cup ThresholdKeys
    PROVE  q \notin DOMAIN more /\ Same(Over(tree, more), tree, q)
<1>1. q \notin DOMAIN more
  BY DEF Laid, LaidBy, IsBlockOf, IsThresholdOf
<1> QED
  BY <1>1 DEF Same, Over

LEMMA SameBelow ==
    ASSUME NEW tree, NEW j, NEW more, Laid(j, more), NEW p \in Seq(STRING)
    PROVE  \A k \in Keys \ (BlockKeys \cup ThresholdKeys) : Same(Over(tree, more), tree, p \o <<k>>)
<1> TAKE k \in Keys \ (BlockKeys \cup ThresholdKeys)
<1>1. KeyOf(p \o <<k>>) = k
  BY ChildIs
<1> QED
  BY <1>1, Elsewhere

LEMMA BlocksOver ==
    ASSUME NEW tree, NEW j, NEW more, Laid(j, more), NEW p, NEW kinds,
           kinds \cap (BlockKeys \cup ThresholdKeys) = {}
    PROVE  Blocks(Over(tree, more), p, kinds) = Blocks(tree, p, kinds)
<1>1. \A q : KeyOf(q) \in kinds => (q \in DOMAIN Over(tree, more) <=> q \in DOMAIN tree)
  <2> SUFFICES ASSUME NEW q, KeyOf(q) \in kinds
               PROVE  q \in DOMAIN Over(tree, more) <=> q \in DOMAIN tree
    OBVIOUS
  <2>1. KeyOf(q) \notin BlockKeys \cup ThresholdKeys
    OBVIOUS
  <2> QED
    BY <2>1, Elsewhere DEF Same
<1> QED
  BY <1>1, Zenon DEF Blocks

\* The words of the sections that are laid, and what they require.
LEMMA WordsOfBlocks ==
    /\ BlockKeys \subseteq DOMAIN Required /\ ThresholdKeys \cap DOMAIN Required = {}
    /\ \A a \in BlockKeys : Required[a] \subseteq ThresholdKeys
    /\ \A a \in BlockKeys : Required[a] \subseteq Consumed[a]
    /\ BlockKeys \subseteq Keys /\ ThresholdKeys \subseteq Keys
    /\ DOMAIN Consumed = DOMAIN Required
<1>1. BlockKeys \subseteq Keys /\ ThresholdKeys \subseteq Keys
  BY TheKeys, Zenon DEF BlockKeys, ThresholdKeys
<1>2. /\ BlockKeys \subseteq DOMAIN Required /\ ThresholdKeys \cap DOMAIN Required = {}
      /\ Required["alive"] = {"expect_every"} /\ Required["worked"] = {"warn_after"}
      /\ Required["freshness"] = {"warn_after"}
  BY DEF BlockKeys, ThresholdKeys, Required
<1>3. \A k \in DOMAIN Required : Required[k] \subseteq Consumed[k]
  BY DEF Consumed
<1>4. DOMAIN Consumed = DOMAIN Required
  BY KnownIsConsumed
<1>5. \A a \in BlockKeys : Required[a] \subseteq ThresholdKeys
  BY <1>2 DEF BlockKeys, ThresholdKeys
<1> QED
  BY <1>1, <1>2, <1>3, <1>4, <1>5

LEMMA DeserializesOver ==
    ASSUME NEW tree, IsTree(tree), Deserializes(tree), NEW j, NEW more, Laid(j, more)
    PROVE  Deserializes(Over(tree, more))
<1> DEFINE both == Over(tree, more)
           read == {p \in DOMAIN both : Listed(p, Consumed)}
           Children(p) == {KeyOf(q) : q \in {r \in read : r # <<>> /\ Parent(r) = p}}
           readBefore == {p \in DOMAIN tree : Listed(p, Consumed)}
           ChildrenBefore(p) == {KeyOf(q) : q \in {r \in readBefore : r # <<>> /\ Parent(r) = p}}
<1>1. /\ DOMAIN both = DOMAIN tree \cup DOMAIN more
      /\ \A q \in DOMAIN more : both[q] = more[q]
      /\ \A q \in DOMAIN tree \ DOMAIN more : both[q] = tree[q]
  BY DEF Over
<1> HIDE DEF both
<1>2. \A p : ChildrenBefore(p) \subseteq Children(p)
  <2>1. readBefore \subseteq read
    BY <1>1
  <2> HIDE DEF read, readBefore
  <2> QED
    BY <2>1
<1>3. \A p \in readBefore :
        /\ tree[p] = Table <=> KeyOf(p) \in DOMAIN Required
        /\ tree[p] = Table => Required[KeyOf(p)] \subseteq ChildrenBefore(p)
  BY Zenon DEF Deserializes
<1>4. ASSUME NEW p \in read
      PROVE  /\ both[p] = Table <=> KeyOf(p) \in DOMAIN Required
             /\ both[p] = Table => Required[KeyOf(p)] \subseteq Children(p)
  <2>1. p \in DOMAIN both /\ Listed(p, Consumed)
    OBVIOUS
  <2>2. CASE p \notin DOMAIN more
    <3>1. p \in readBefore /\ both[p] = tree[p]
      BY <1>1, <2>1, <2>2
    <3> HIDE DEF read, readBefore, Children, ChildrenBefore
    <3> QED
      BY <1>2, <1>3, <3>1, Zenon
  <2>3. ASSUME p \in DOMAIN more, NEW a \in BlockKeys, IsBlockOf(p, more, j, a)
        PROVE  /\ both[p] = Table <=> KeyOf(p) \in DOMAIN Required
               /\ both[p] = Table => Required[KeyOf(p)] \subseteq Children(p)
    <3>1. both[p] = Table /\ KeyOf(p) = a
      BY <1>1, <2>3 DEF IsBlockOf
    <3>2. ASSUME NEW k \in Required[a]
          PROVE  k \in Children(p)
      <4>1. PICK q : q = p \o <<k>>
        OBVIOUS
      <4>2. q \in DOMAIN more
        BY <2>3, <4>1, Zenon DEF IsBlockOf
      <4>3. k \in Keys /\ k \in Consumed[a] /\ a \in DOMAIN Consumed
        BY WordsOfBlocks, Zenon
      <4>4. p \in Seq(STRING) /\ q \in Seq(STRING)
        BY <2>3, <4>2, Zenon DEF Laid
      <4>5. q # <<>> /\ Parent(q) = p /\ KeyOf(q) = k
        BY <4>1, <4>3, <4>4, ChildIs
      <4>6. Listed(q, Consumed)
        BY <2>1, <3>1, <4>3, <4>4, <4>5, ListedStep
      <4>7. q \in read
        BY <1>1, <4>2, <4>6
      <4> HIDE DEF read
      <4> QED
        BY <4>5, <4>7
    <3> HIDE DEF Children
    <3> QED
      BY <3>1, <3>2, WordsOfBlocks
  <2>4. ASSUME p \in DOMAIN more, NEW a \in BlockKeys, IsThresholdOf(p, more, j, a)
        PROVE  /\ both[p] = Table <=> KeyOf(p) \in DOMAIN Required
               /\ both[p] = Table => Required[KeyOf(p)] \subseteq Children(p)
    <3>1. both[p] # Table
      <4>1. both[p].type = "number"
        BY <1>1, <2>4 DEF IsThresholdOf
      <4> QED
        BY <4>1 DEF Table
    <3>2. KeyOf(p) \notin DOMAIN Required
      BY <2>4, WordsOfBlocks DEF IsThresholdOf
    <3> QED
      BY <3>1, <3>2
  <2> HIDE DEF read, Children
  <2> QED
    BY <2>2, <2>3, <2>4 DEF Laid, LaidBy
<1>5. Deserializes(both)
  <2>1. \A p \in read :
          /\ both[p] = Table <=> KeyOf(p) \in DOMAIN Required
          /\ both[p] = Table => Required[KeyOf(p)] \subseteq Children(p)
    BY <1>4
  <2> QED
    BY <2>1, Zenon DEF Deserializes
<1> QED
  BY <1>5 DEF both

\* What is printed is laid for the job, and each block of it for a reason.
LEMMA BlockIsLaid ==
    ASSUME NEW j \in Seq(STRING), NEW a \in BlockKeys, NEW t, DOMAIN t \subseteq ThresholdKeys,
           Required[a] \subseteq DOMAIN t, NEW more, Holds(more, Block(j \o <<a>>, t))
    PROVE  \A q \in DOMAIN Block(j \o <<a>>, t) : LaidBy(q, more, j)
<1>1. PICK b : b = Block(j \o <<a>>, t)
  OBVIOUS
<1>2. \A q \in DOMAIN b : q \in DOMAIN more /\ more[q] = b[q]
  BY <1>1, Zenon DEF Holds
<1>3. \A q \in DOMAIN b : IsBlockOf(q, b, j, a) \/ IsThresholdOf(q, b, j, a)
  BY <1>1, BlockPaths, Zenon
<1>4. ASSUME NEW q \in DOMAIN b, IsBlockOf(q, b, j, a)
      PROVE  IsBlockOf(q, more, j, a)
  BY <1>2, <1>4, Zenon DEF IsBlockOf
<1>5. ASSUME NEW q \in DOMAIN b, IsThresholdOf(q, b, j, a)
      PROVE  IsThresholdOf(q, more, j, a)
  BY <1>2, <1>5, Zenon DEF IsThresholdOf
<1> QED
  BY <1>1, <1>3, <1>4, <1>5, Zenon DEF LaidBy

LEMMA PrintedPaths ==
    ASSUME Job \in Seq(STRING)
    PROVE  /\ Laid(Job, Printed)
           /\ Job \o <<"alive">> \in DOMAIN Printed => HasCadence(journal.beats)
           /\ Job \o <<"worked">> \in DOMAIN Printed => HasCadence(journal.worked)
           /\ Job \o <<"freshness">> \in DOMAIN Printed => Len(Ages) >= MinIntervals
<1>1. PICK j \in Seq(STRING) : j = Job
  OBVIOUS
<1>2. /\ DOMAIN LearnedAlive = {"expect_every", "warn_after", "critical_after"}
      /\ DOMAIN LearnedWorked = {"warn_after", "critical_after"}
      /\ DOMAIN LearnedFreshness = {"warn_after", "critical_after"}
  BY DEF LearnedAlive, LearnedWorked, LearnedFreshness, AliveThresholds, SilenceThresholds
<1>3. /\ Required["alive"] = {"expect_every"} /\ Required["worked"] = {"warn_after"}
      /\ Required["freshness"] = {"warn_after"}
  BY DEF Required
<1>4. /\ DOMAIN LearnedAlive \subseteq ThresholdKeys /\ Required["alive"] \subseteq DOMAIN LearnedAlive
      /\ DOMAIN LearnedWorked \subseteq ThresholdKeys /\ Required["worked"] \subseteq DOMAIN LearnedWorked
      /\ DOMAIN LearnedFreshness \subseteq ThresholdKeys
      /\ Required["freshness"] \subseteq DOMAIN LearnedFreshness
  BY <1>2, <1>3 DEF ThresholdKeys
<1>5. "alive" \in BlockKeys /\ "worked" \in BlockKeys /\ "freshness" \in BlockKeys
  BY DEF BlockKeys
<1>6. PICK a : a = Block(j \o <<"alive">>, LearnedAlive)
  OBVIOUS
<1>7. PICK w : w = Block(j \o <<"worked">>, LearnedWorked)
  OBVIOUS
<1>8. PICK f : f = Block(j \o <<"freshness">>, LearnedFreshness)
  OBVIOUS
<1>9. /\ HasCadence(journal.beats) => \A q \in DOMAIN a : LaidBy(q, Printed, j)
      /\ HasCadence(journal.worked) => \A q \in DOMAIN w : LaidBy(q, Printed, j)
      /\ Len(Ages) >= MinIntervals => \A q \in DOMAIN f : LaidBy(q, Printed, j)
  <2>1. /\ HasCadence(journal.beats) => Holds(Printed, a)
        /\ HasCadence(journal.worked) => Holds(Printed, w)
        /\ Len(Ages) >= MinIntervals => Holds(Printed, f)
    BY <1>1, <1>6, <1>7, <1>8, PrintedIs
  <2> QED
    BY <1>4, <1>5, <1>6, <1>7, <1>8, <2>1, BlockIsLaid
<1>10. \A q \in DOMAIN Printed :
            \/ HasCadence(journal.beats) /\ q \in DOMAIN a
            \/ HasCadence(journal.worked) /\ q \in DOMAIN w
            \/ Len(Ages) >= MinIntervals /\ q \in DOMAIN f
  BY <1>1, <1>6, <1>7, <1>8, PrintedIs
<1>11. Laid(j, Printed)
  <2>1. \A q \in DOMAIN Printed : q \in Seq(STRING)
    BY <1>1, PrintedIs DEF Beside
  <2> QED
    BY <1>9, <1>10, <2>1, Zenon DEF Laid
<1>12. /\ \A q \in DOMAIN a : q[Len(j) + 1] = "alive"
       /\ \A q \in DOMAIN w : q[Len(j) + 1] = "worked"
       /\ \A q \in DOMAIN f : q[Len(j) + 1] = "freshness"
  <2>1. /\ DOMAIN LearnedAlive \subseteq STRING /\ DOMAIN LearnedWorked \subseteq STRING
        /\ DOMAIN LearnedFreshness \subseteq STRING
    <3>1. ThresholdKeys \subseteq Keys
      BY WordsOfBlocks
    <3>2. ThresholdKeys \subseteq STRING
      BY <3>1, KeysAreStrings, Zenon
    <3> QED
      BY <1>4, <3>2
  <2> QED
    BY <1>5, <1>6, <1>7, <1>8, <2>1, BlockIsBeside
<1>13. j \o <<"alive">> \in DOMAIN a /\ j \o <<"worked">> \in DOMAIN w
       /\ j \o <<"freshness">> \in DOMAIN f
  BY <1>6, <1>7, <1>8 DEF Block
<1>14. "alive" # "worked" /\ "alive" # "freshness" /\ "worked" # "freshness"
  OBVIOUS
<1>15. /\ j \o <<"alive">> \in DOMAIN Printed => HasCadence(journal.beats)
       /\ j \o <<"worked">> \in DOMAIN Printed => HasCadence(journal.worked)
       /\ j \o <<"freshness">> \in DOMAIN Printed => Len(Ages) >= MinIntervals
  BY <1>10, <1>12, <1>13, <1>14, Zenon
<1> QED
  BY <1>1, <1>11, <1>15

\* The keys of all other settings.
OtherKeys ==
    {"listen", "incidents", "path", "max_bytes", "name", "mode", "pidfile", "stale_after",
     "numerator", "denominator", "window", "min", "min_sample", "url", "type", "method",
     "interval", "timeout", "down_after", "baseline_window", "warn_multiple",
     "critical_multiple", "absolute_ceiling", "min_samples", "error_regex"}

LEMMA OtherKeysAreKeys == OtherKeys \subseteq Keys \ (BlockKeys \cup ThresholdKeys)
<1>1. OtherKeys \subseteq Known.root \cup Known.incidents \cup Known.job \cup Known.process \cup Known.log
            \cup Known.ratio \cup Known.check \cup Known.degradation
  BY DEF OtherKeys, Known
<1>2. /\ Known.root \subseteq Keys /\ Known.incidents \subseteq Keys /\ Known.job \subseteq Keys
      /\ Known.process \subseteq Keys /\ Known.log \subseteq Keys /\ Known.ratio \subseteq Keys
      /\ Known.check \subseteq Keys /\ Known.degradation \subseteq Keys
  BY Zenon DEF Keys
<1>3. OtherKeys \cap (BlockKeys \cup ThresholdKeys) = {}
  BY DEF OtherKeys, BlockKeys, ThresholdKeys
<1> QED
  BY <1>1, <1>2, <1>3

\* A table that has the settings it had.
Unchanged(both, tree, p, keys) ==
    /\ \A k \in keys : /\ Has(both, p \o <<k>>) <=> Has(tree, p \o <<k>>)
                       /\ \A d : Get(both, p \o <<k>>, d) = Get(tree, p \o <<k>>, d)
    /\ \A k \in keys : k \in Required[KeyOf(p)] => both[p \o <<k>>] = tree[p \o <<k>>]

LEMMA SameIsUnchanged ==
    ASSUME NEW tree, IsTree(tree), Deserializes(tree), NEW both, NEW p \in DOMAIN tree,
           Listed(p, Consumed), KeyOf(p) \in DOMAIN Required,
           NEW keys, keys \cap {"job", "check", "ratio"} = {},
           \A k \in keys : Same(both, tree, p \o <<k>>)
    PROVE  Unchanged(both, tree, p, keys)
<1>1. ASSUME NEW k \in keys
      PROVE  /\ Has(both, p \o <<k>>) <=> Has(tree, p \o <<k>>)
             /\ \A d : Get(both, p \o <<k>>, d) = Get(tree, p \o <<k>>, d)
             /\ k \in Required[KeyOf(p)] => both[p \o <<k>>] = tree[p \o <<k>>]
  <2>1. PICK q : q = p \o <<k>>
    OBVIOUS
  <2>2. /\ q \in DOMAIN both <=> q \in DOMAIN tree
        /\ q \in DOMAIN tree => both[q] = tree[q]
    BY <2>1, Zenon DEF Same
  <2>3. Has(both, q) <=> Has(tree, q)
    BY <2>2 DEF Has
  <2>4. \A d : Get(both, q, d) = Get(tree, q, d)
    BY <2>2, <2>3 DEF Get, Has
  <2>5. k \in Required[KeyOf(p)] => q \in DOMAIN tree
    <3>1. k \notin {"job", "check", "ratio"}
      OBVIOUS
    <3> QED
      BY <2>1, <3>1, RequiredIsThere
  <2> QED
    BY <2>1, <2>2, <2>3, <2>4, <2>5
<1> QED
  BY <1>1, Zenon DEF Unchanged

LEMMA OthersAreUnchanged ==
    ASSUME NEW tree, IsTree(tree), Deserializes(tree), NEW j, NEW more, Laid(j, more),
           NEW p \in DOMAIN tree, Listed(p, Consumed), KeyOf(p) \in DOMAIN Required
    PROVE  Unchanged(Over(tree, more), tree, p, OtherKeys)
<1>1. p \in Seq(STRING)
  BY DEF IsTree
<1>2. \A k \in OtherKeys : Same(Over(tree, more), tree, p \o <<k>>)
  BY <1>1, SameBelow, OtherKeysAreKeys
<1>3. OtherKeys \cap {"job", "check", "ratio"} = {}
  BY DEF OtherKeys
<1> QED
  BY <1>2, <1>3, SameIsUnchanged

\* A block that nothing is laid over.
LEMMA BlockIsUnchanged ==
    ASSUME NEW tree, IsTree(tree), Deserializes(tree), NEW j, NEW more, Laid(j, more),
           NEW p \in DOMAIN tree, p \notin DOMAIN more, Listed(p, Consumed),
           KeyOf(p) \in DOMAIN Required
    PROVE  Unchanged(Over(tree, more), tree, p, ThresholdKeys)
<1>1. p \in Seq(STRING)
  BY DEF IsTree
<1>2. ASSUME NEW k \in ThresholdKeys
      PROVE  Same(Over(tree, more), tree, p \o <<k>>)
  <2>1. PICK q : q = p \o <<k>>
    OBVIOUS
  <2>2. k \in Keys
    BY WordsOfBlocks
  <2>3. Parent(q) = p /\ KeyOf(q) = k
    BY <1>1, <2>1, <2>2, ChildIs
  <2>4. k \notin BlockKeys
    BY DEF ThresholdKeys, BlockKeys
  <2>5. q \notin DOMAIN more
    BY <2>3, <2>4, Zenon DEF Laid, LaidBy, IsBlockOf, IsThresholdOf
  <2> QED
    BY <2>1, <2>5 DEF Same, Over
<1>3. ThresholdKeys \cap {"job", "check", "ratio"} = {}
  BY DEF ThresholdKeys
<1> QED
  BY <1>2, <1>3, SameIsUnchanged

\* What a block says, and whether it is accepted, is in its settings.
LEMMA RatioIsAlike ==
    ASSUME NEW tree, NEW both, NEW p, KeyOf(p) = "ratio", Unchanged(both, tree, p, OtherKeys)
    PROVE  /\ RatioAccepted(both, p) <=> RatioAccepted(tree, p)
           /\ both[p \o <<"name">>] = tree[p \o <<"name">>]
<1>1. Required["ratio"] = {"name", "numerator", "denominator", "window", "min"}
  BY DEF Required
<1>2. {"name", "numerator", "denominator", "window", "min", "min_sample"} \subseteq OtherKeys
  BY DEF OtherKeys
<1>3. /\ both[p \o <<"name">>] = tree[p \o <<"name">>]
      /\ both[p \o <<"numerator">>] = tree[p \o <<"numerator">>]
      /\ both[p \o <<"denominator">>] = tree[p \o <<"denominator">>]
      /\ both[p \o <<"window">>] = tree[p \o <<"window">>]
      /\ both[p \o <<"min">>] = tree[p \o <<"min">>]
  <2>1. \A k \in OtherKeys : k \in Required["ratio"] => both[p \o <<k>>] = tree[p \o <<k>>]
    BY Zenon DEF Unchanged
  <2> QED
    BY <1>1, <1>2, <2>1
<1>4. \A d : Get(both, p \o <<"min_sample">>, d) = Get(tree, p \o <<"min_sample">>, d)
  BY <1>2 DEF Unchanged
<1> QED
  BY <1>3, <1>4, Zenon DEF RatioAccepted

LEMMA WatchIsAlike ==
    ASSUME NEW tree, NEW both, NEW p, KeyOf(p) \in {"process", "log", "artifact"},
           Unchanged(both, tree, p, OtherKeys)
    PROVE  WatchAccepted(both, p) <=> WatchAccepted(tree, p)
<1>1. /\ Required["process"] = {"pidfile"} /\ Required["log"] = {"path", "stale_after"}
      /\ Required["artifact"] = {"path", "stale_after"}
  BY DEF Required
<1>2. {"pidfile", "path", "stale_after"} \subseteq OtherKeys
  BY DEF OtherKeys
<1>3. \A k \in OtherKeys : k \in Required[KeyOf(p)] => both[p \o <<k>>] = tree[p \o <<k>>]
  BY Zenon DEF Unchanged
<1>4. CASE KeyOf(p) = "process"
  <2>1. both[p \o <<"pidfile">>] = tree[p \o <<"pidfile">>]
    BY <1>1, <1>2, <1>3, <1>4
  <2> QED
    BY <1>4, <2>1, Zenon DEF WatchAccepted
<1>5. CASE KeyOf(p) \in {"log", "artifact"}
  <2>1. /\ both[p \o <<"path">>] = tree[p \o <<"path">>]
        /\ both[p \o <<"stale_after">>] = tree[p \o <<"stale_after">>]
    BY <1>1, <1>2, <1>3, <1>5
  <2>2. KeyOf(p) # "process"
    BY <1>5
  <2>3. "error_regex" \in OtherKeys
    BY DEF OtherKeys
  <2>4. /\ Has(both, p \o <<"error_regex">>) <=> Has(tree, p \o <<"error_regex">>)
        /\ Get(both, p \o <<"error_regex">>, 0) = Get(tree, p \o <<"error_regex">>, 0)
    BY <2>3, Zenon DEF Unchanged
  <2>5. Has(tree, p \o <<"error_regex">>) =>
            both[p \o <<"error_regex">>].is = tree[p \o <<"error_regex">>].is
    BY <2>4, Zenon DEF Get
  <2> QED
    BY <2>1, <2>2, <2>4, <2>5, Zenon DEF WatchAccepted
<1> QED
  BY <1>4, <1>5

LEMMA DegradationIsAlike ==
    ASSUME NEW tree, NEW both, NEW p, KeyOf(p) = "degradation",
           Unchanged(both, tree, p, OtherKeys), NEW interval
    PROVE  DegradationAccepted(both, p, interval) <=> DegradationAccepted(tree, p, interval)
<1>1. Required["degradation"] =
            {"baseline_window", "warn_multiple", "critical_multiple", "absolute_ceiling"}
  BY DEF Required
<1>2. {"baseline_window", "warn_multiple", "critical_multiple", "absolute_ceiling", "min_samples"}
            \subseteq OtherKeys
  BY DEF OtherKeys
<1>3. /\ both[p \o <<"baseline_window">>] = tree[p \o <<"baseline_window">>]
      /\ both[p \o <<"warn_multiple">>] = tree[p \o <<"warn_multiple">>]
      /\ both[p \o <<"critical_multiple">>] = tree[p \o <<"critical_multiple">>]
      /\ both[p \o <<"absolute_ceiling">>] = tree[p \o <<"absolute_ceiling">>]
  <2>1. \A k \in OtherKeys : k \in Required["degradation"] => both[p \o <<k>>] = tree[p \o <<k>>]
    BY Zenon DEF Unchanged
  <2> QED
    BY <1>1, <1>2, <2>1
<1>4. \A d : Get(both, p \o <<"min_samples">>, d) = Get(tree, p \o <<"min_samples">>, d)
  BY <1>2 DEF Unchanged
<1> QED
  BY <1>3, <1>4, Zenon DEF DegradationAccepted

LEMMA ThresholdsAreAlike ==
    ASSUME NEW tree, NEW both, NEW p, KeyOf(p) \in BlockKeys,
           Unchanged(both, tree, p, ThresholdKeys)
    PROVE  /\ KeyOf(p) = "alive" => Alive(both, p) = Alive(tree, p)
           /\ KeyOf(p) \in {"worked", "freshness"} => Silence(both, p) = Silence(tree, p)
<1>1. /\ Required["alive"] = {"expect_every"} /\ Required["worked"] = {"warn_after"}
      /\ Required["freshness"] = {"warn_after"}
  BY DEF Required
<1>2. ThresholdKeys = {"expect_every", "warn_after", "critical_after"}
  BY DEF ThresholdKeys
<1>3. \A k \in ThresholdKeys : k \in Required[KeyOf(p)] => both[p \o <<k>>] = tree[p \o <<k>>]
  BY Zenon DEF Unchanged
<1>4. \A d : /\ Get(both, p \o <<"warn_after">>, d) = Get(tree, p \o <<"warn_after">>, d)
             /\ Get(both, p \o <<"critical_after">>, d) = Get(tree, p \o <<"critical_after">>, d)
  BY <1>2 DEF Unchanged
<1>5. ASSUME KeyOf(p) = "alive"
      PROVE  Alive(both, p) = Alive(tree, p)
  <2>1. both[p \o <<"expect_every">>] = tree[p \o <<"expect_every">>]
    BY <1>1, <1>2, <1>3, <1>5
  <2> QED
    BY <1>4, <2>1, Zenon DEF Alive
<1>6. ASSUME KeyOf(p) \in {"worked", "freshness"}
      PROVE  Silence(both, p) = Silence(tree, p)
  <2>1. both[p \o <<"warn_after">>] = tree[p \o <<"warn_after">>]
    BY <1>1, <1>2, <1>3, <1>6
  <2> QED
    BY <1>4, <2>1, Zenon DEF Silence
<1> QED
  BY <1>5, <1>6

\* What is laid is accepted, and no heartbeat is laid for a passive job.
Fits(tree, both, more) ==
    /\ \A q \in DOMAIN more :
        /\ KeyOf(q) = "alive" => AliveAccepted(Alive(both, q))
        /\ KeyOf(q) \in {"worked", "freshness"} => SilenceAccepted(Silence(both, q))
    /\ \A q \in DOMAIN more : KeyOf(q) = "alive" =>
            Get(tree, Parent(q) \o <<"mode">>, <<Literal("active")>>) # <<Literal("passive")>>

LEMMA BlockIsListed ==
    ASSUME NEW tree, IsTree(tree), NEW p \in DOMAIN tree, Listed(p, Consumed),
           KeyOf(p) \in DOMAIN Consumed, NEW kinds, kinds \subseteq Consumed[KeyOf(p)]
    PROVE  \A q \in Blocks(tree, p, kinds) :
                q \in DOMAIN tree /\ q # <<>> /\ Parent(q) = p /\ KeyOf(q) \in kinds /\ Listed(q, Consumed)
<1> TAKE q \in Blocks(tree, p, kinds)
<1>1. q \in DOMAIN tree /\ q # <<>> /\ Parent(q) = p /\ KeyOf(q) \in kinds
  BY Zenon DEF Blocks
<1>2. q \in Seq(STRING)
  BY <1>1 DEF IsTree
<1>3. Listed(q, Consumed)
  BY <1>1, <1>2, ListedStep
<1> QED
  BY <1>1, <1>3

LEMMA JobOver ==
    ASSUME NEW tree, IsTree(tree), Deserializes(tree), NEW j, NEW more, Laid(j, more),
           NEW both, both = Over(tree, more), Fits(tree, both, more),
           NEW p \in Blocks(tree, <<>>, {"job"}), JobAccepted(tree, p)
    PROVE  JobAccepted(both, p) /\ both[p \o <<"name">>] = tree[p \o <<"name">>]
<1>1. p \in DOMAIN tree /\ KeyOf(p) = "job" /\ Listed(p, Consumed)
  <2>1. <<>> \in DOMAIN tree /\ Listed(<<>>, Consumed) /\ KeyOf(<<>>) = "root"
    BY RootIsListed DEF IsTree
  <2>2. "root" \in DOMAIN Consumed /\ {"job"} \subseteq Consumed["root"]
    BY ConsumedHas
  <2> QED
    BY <2>1, <2>2, BlockIsListed
<1>2. "job" \in DOMAIN Required /\ "job" \in DOMAIN Consumed /\ JobRules \subseteq Consumed["job"]
      /\ JobRules \subseteq DOMAIN Required /\ Required["job"] = {"name"}
  <2>1. "job" \in DOMAIN Required /\ JobRules \subseteq DOMAIN Required /\ Required["job"] = {"name"}
    BY DEF Required, JobRules
  <2> QED
    BY <2>1, ConsumedHas, KnownIsConsumed
<1>3. \A q \in Blocks(tree, p, JobRules) :
        q \in DOMAIN tree /\ q # <<>> /\ Parent(q) = p /\ KeyOf(q) \in JobRules /\ Listed(q, Consumed)
  BY <1>1, <1>2, BlockIsListed
<1>4. \A kinds : kinds \subseteq JobRules => Blocks(tree, p, kinds) \subseteq Blocks(tree, p, JobRules)
                    /\ \A q \in Blocks(tree, p, kinds) : KeyOf(q) \in kinds
  BY Zenon DEF Blocks
<1>5. Unchanged(both, tree, p, OtherKeys)
  BY <1>1, <1>2, OthersAreUnchanged
<1>6. /\ both[p \o <<"name">>] = tree[p \o <<"name">>]
      /\ \A d : Get(both, p \o <<"mode">>, d) = Get(tree, p \o <<"mode">>, d)
  <2>1. "name" \in OtherKeys /\ "mode" \in OtherKeys
    BY DEF OtherKeys
  <2>2. "name" \in Required[KeyOf(p)]
    BY <1>1, <1>2
  <2> QED
    BY <1>5, <2>1, <2>2, Zenon DEF Unchanged
<1>7. /\ Blocks(both, p, {"process", "log", "artifact"}) = Blocks(tree, p, {"process", "log", "artifact"})
      /\ Blocks(both, p, {"ratio"}) = Blocks(tree, p, {"ratio"})
  <2>1. /\ {"process", "log", "artifact"} \cap (BlockKeys \cup ThresholdKeys) = {}
        /\ {"ratio"} \cap (BlockKeys \cup ThresholdKeys) = {}
    BY DEF BlockKeys, ThresholdKeys
  <2> QED
    BY <2>1, BlocksOver
<1>8. \A q \in Blocks(tree, p, JobRules) : Unchanged(both, tree, q, OtherKeys)
  BY <1>2, <1>3, OthersAreUnchanged
<1>9. \A q \in Blocks(tree, p, {"ratio"}) :
        /\ RatioAccepted(both, q) <=> RatioAccepted(tree, q)
        /\ both[q \o <<"name">>] = tree[q \o <<"name">>]
  <2>1. {"ratio"} \subseteq JobRules
    BY DEF JobRules
  <2>2. \A q \in Blocks(tree, p, {"ratio"}) : KeyOf(q) = "ratio" /\ Unchanged(both, tree, q, OtherKeys)
    BY <1>4, <1>8, <2>1
  <2> QED
    BY <2>2, RatioIsAlike
<1>10. \A q \in Blocks(tree, p, {"process", "log", "artifact"}) :
        WatchAccepted(both, q) <=> WatchAccepted(tree, q)
  <2>1. {"process", "log", "artifact"} \subseteq JobRules
    BY DEF JobRules
  <2>2. \A q \in Blocks(tree, p, {"process", "log", "artifact"}) :
            KeyOf(q) \in {"process", "log", "artifact"} /\ Unchanged(both, tree, q, OtherKeys)
    BY <1>4, <1>8, <2>1
  <2> QED
    BY <2>2, WatchIsAlike
<1>11. BlockKeys \subseteq JobRules /\ BlockKeys = {"alive", "worked", "freshness"}
  BY DEF BlockKeys, JobRules
<1>12. ASSUME NEW q \in Blocks(both, p, BlockKeys)
       PROVE  /\ q # <<>> /\ Parent(q) = p /\ KeyOf(q) \in BlockKeys
              /\ \/ q \in DOMAIN more
                 \/ /\ q \in Blocks(tree, p, {KeyOf(q)})
                    /\ KeyOf(q) = "alive" => Alive(both, q) = Alive(tree, q)
                    /\ KeyOf(q) \in {"worked", "freshness"} => Silence(both, q) = Silence(tree, q)
  <2>1. q \in DOMAIN both /\ q # <<>> /\ Parent(q) = p /\ KeyOf(q) \in BlockKeys
    BY Zenon DEF Blocks
  <2>2. ASSUME q \notin DOMAIN more
        PROVE  /\ q \in Blocks(tree, p, {KeyOf(q)})
               /\ KeyOf(q) = "alive" => Alive(both, q) = Alive(tree, q)
               /\ KeyOf(q) \in {"worked", "freshness"} => Silence(both, q) = Silence(tree, q)
    <3>1. q \in DOMAIN tree
      BY <2>1, <2>2 DEF Over
    <3>2. q \in Blocks(tree, p, {KeyOf(q)}) /\ q \in Blocks(tree, p, JobRules)
      BY <1>11, <2>1, <3>1 DEF Blocks
    <3>3. Unchanged(both, tree, q, ThresholdKeys)
      BY <1>2, <1>3, <2>2, <3>1, <3>2, BlockIsUnchanged
    <3> QED
      BY <2>1, <3>2, <3>3, ThresholdsAreAlike
  <2> QED
    BY <2>1, <2>2
<1>13. \A kinds : kinds \subseteq BlockKeys =>
            Blocks(both, p, kinds) \subseteq Blocks(both, p, BlockKeys)
            /\ \A q \in Blocks(both, p, kinds) : KeyOf(q) \in kinds
  BY Zenon DEF Blocks
<1>14. /\ \A q \in Blocks(tree, p, {"alive"}) : AliveAccepted(Alive(tree, q))
       /\ \A q \in Blocks(tree, p, {"worked", "freshness"}) : SilenceAccepted(Silence(tree, q))
  BY Zenon DEF JobAccepted
<1>15. \A q \in Blocks(both, p, {"alive"}) : AliveAccepted(Alive(both, q))
  <2> SUFFICES ASSUME NEW q \in Blocks(both, p, {"alive"})
               PROVE  AliveAccepted(Alive(both, q))
    OBVIOUS
  <2>1. {"alive"} \subseteq BlockKeys
    BY <1>11
  <2>2. q \in Blocks(both, p, BlockKeys) /\ KeyOf(q) = "alive"
    BY <1>13, <2>1
  <2>3. CASE q \in DOMAIN more
    BY <2>2, <2>3, Zenon DEF Fits
  <2>4. CASE q \notin DOMAIN more
    BY <1>12, <1>14, <2>2, <2>4
  <2> QED
    BY <2>3, <2>4
<1>16. \A q \in Blocks(both, p, {"worked", "freshness"}) : SilenceAccepted(Silence(both, q))
  <2> SUFFICES ASSUME NEW q \in Blocks(both, p, {"worked", "freshness"})
               PROVE  SilenceAccepted(Silence(both, q))
    OBVIOUS
  <2>1. {"worked", "freshness"} \subseteq BlockKeys
    BY <1>11
  <2>2. q \in Blocks(both, p, BlockKeys) /\ KeyOf(q) \in {"worked", "freshness"}
    BY <1>13, <2>1
  <2>3. CASE q \in DOMAIN more
    BY <2>2, <2>3, Zenon DEF Fits
  <2>4. CASE q \notin DOMAIN more
    <3>1. q \in Blocks(tree, p, {KeyOf(q)}) /\ Silence(both, q) = Silence(tree, q)
      BY <1>12, <2>2, <2>4
    <3>2. q \in Blocks(tree, p, {"worked", "freshness"})
      BY <2>2, <3>1, Zenon DEF Blocks
    <3> QED
      BY <1>14, <3>1, <3>2
  <2> QED
    BY <2>3, <2>4
<1>17. Get(tree, p \o <<"mode">>, <<Literal("active")>>) = <<Literal("passive")>> =>
            Blocks(both, p, {"alive"}) = {} /\ Blocks(both, p, {"process", "log", "artifact"}) # {}
  <2> SUFFICES ASSUME Get(tree, p \o <<"mode">>, <<Literal("active")>>) = <<Literal("passive")>>
               PROVE  Blocks(both, p, {"alive"}) = {}
                      /\ Blocks(both, p, {"process", "log", "artifact"}) # {}
    OBVIOUS
  <2>1. Blocks(tree, p, {"alive"}) = {} /\ Blocks(tree, p, {"process", "log", "artifact"}) # {}
    BY Zenon DEF JobAccepted
  <2>2. ASSUME NEW q \in Blocks(both, p, {"alive"}) PROVE FALSE
    <3>1. {"alive"} \subseteq BlockKeys
      BY <1>11
    <3>2. q \in Blocks(both, p, BlockKeys) /\ KeyOf(q) = "alive"
      BY <1>13, <2>2, <3>1
    <3>3. Parent(q) = p /\ (q \in DOMAIN more \/ q \in Blocks(tree, p, {"alive"}))
      BY <1>12, <3>2
    <3> QED
      BY <2>1, <3>2, <3>3, Zenon DEF Fits
  <2> QED
    BY <1>7, <2>1, <2>2
<1>18. JobAccepted(both, p)
  BY <1>6, <1>7, <1>9, <1>10, <1>15, <1>16, <1>17, Zenon DEF JobAccepted
<1> QED
  BY <1>6, <1>18

LEMMA CheckOver ==
    ASSUME NEW tree, IsTree(tree), Deserializes(tree), NEW j, NEW more, Laid(j, more),
           NEW both, both = Over(tree, more),
           NEW p \in Blocks(tree, <<>>, {"check"}), CheckAccepted(tree, p)
    PROVE  CheckAccepted(both, p) /\ both[p \o <<"name">>] = tree[p \o <<"name">>]
<1>1. p \in DOMAIN tree /\ KeyOf(p) = "check" /\ Listed(p, Consumed)
  <2>1. <<>> \in DOMAIN tree /\ Listed(<<>>, Consumed) /\ KeyOf(<<>>) = "root"
    BY RootIsListed DEF IsTree
  <2>2. "root" \in DOMAIN Consumed /\ {"check"} \subseteq Consumed["root"]
    BY ConsumedHas
  <2> QED
    BY <2>1, <2>2, BlockIsListed
<1>2. /\ "check" \in DOMAIN Required /\ "check" \in DOMAIN Consumed
      /\ {"degradation"} \subseteq Consumed["check"] /\ "degradation" \in DOMAIN Required
      /\ Required["check"] = {"name", "url"}
  <2>1. /\ "check" \in DOMAIN Required /\ "degradation" \in DOMAIN Required
        /\ Required["check"] = {"name", "url"}
    BY DEF Required
  <2> QED
    BY <2>1, ConsumedHas
<1>3. \A q \in Blocks(tree, p, {"degradation"}) :
        q \in DOMAIN tree /\ KeyOf(q) = "degradation" /\ Listed(q, Consumed)
  BY <1>1, <1>2, BlockIsListed
<1>4. Unchanged(both, tree, p, OtherKeys)
  BY <1>1, <1>2, OthersAreUnchanged
<1>5. {"name", "url", "interval", "timeout", "type", "method", "down_after"} \subseteq OtherKeys
  BY DEF OtherKeys
<1>6. /\ both[p \o <<"name">>] = tree[p \o <<"name">>]
      /\ both[p \o <<"url">>] = tree[p \o <<"url">>]
  <2>1. "name" \in Required[KeyOf(p)] /\ "url" \in Required[KeyOf(p)]
    BY <1>1, <1>2
  <2> QED
    BY <1>4, <1>5, <2>1 DEF Unchanged
<1>7. /\ \A d : Get(both, p \o <<"interval">>, d) = Get(tree, p \o <<"interval">>, d)
      /\ \A d : Get(both, p \o <<"timeout">>, d) = Get(tree, p \o <<"timeout">>, d)
      /\ \A d : Get(both, p \o <<"type">>, d) = Get(tree, p \o <<"type">>, d)
      /\ \A d : Get(both, p \o <<"down_after">>, d) = Get(tree, p \o <<"down_after">>, d)
      /\ Has(both, p \o <<"method">>) <=> Has(tree, p \o <<"method">>)
  BY <1>4, <1>5 DEF Unchanged
<1>8. Blocks(both, p, {"degradation"}) = Blocks(tree, p, {"degradation"})
  <2>1. {"degradation"} \cap (BlockKeys \cup ThresholdKeys) = {}
    BY DEF BlockKeys, ThresholdKeys
  <2> QED
    BY <2>1, BlocksOver
<1>9. \A q \in Blocks(tree, p, {"degradation"}) : \A interval :
        DegradationAccepted(both, q, interval) <=> DegradationAccepted(tree, q, interval)
  <2>1. \A q \in Blocks(tree, p, {"degradation"}) : Unchanged(both, tree, q, OtherKeys)
    BY <1>2, <1>3, OthersAreUnchanged
  <2> QED
    BY <1>3, <2>1, DegradationIsAlike
<1>10. CheckAccepted(both, p)
  BY <1>6, <1>7, <1>8, <1>9, Zenon DEF CheckAccepted
<1> QED
  BY <1>6, <1>10

LEMMA OnePlusOne ==
    ASSUME NEW a, NEW b
    PROVE  <<a>> \o <<b>> = <<a, b>>
<1> DEFINE S == {a, b}
           s == <<a>> \o <<b>>
           t == <<a, b>>
<1>1. s \in Seq(S) /\ Len(s) = 2 /\ s[1] = a /\ s[2] = b
  OBVIOUS
<1>2. t \in Seq(S) /\ Len(t) = 2 /\ t[1] = a /\ t[2] = b
  OBVIOUS
<1> HIDE DEF S, s, t
<1>3. \A i \in 1..Len(s) : s[i] = t[i]
  BY <1>1, <1>2
<1>4. s = t
  BY <1>1, <1>2, <1>3, SeqEqual
<1> QED
  BY <1>4 DEF s, t

LEMMA IncidentsOver ==
    ASSUME NEW tree, IsTree(tree), Deserializes(tree), NEW j, NEW more, Laid(j, more),
           NEW both, both = Over(tree, more), IncidentsAccepted(tree)
    PROVE  IncidentsAccepted(both)
<1>1. {"listen", "incidents", "path", "max_bytes"} \subseteq OtherKeys
  BY DEF OtherKeys
<1>2. PICK p : p = <<"incidents">>
  OBVIOUS
<1>3. "incidents" \in STRING /\ "incidents" \in Keys
  BY <1>1, OtherKeysAreKeys, KeysAreStrings
<1>4. p \in Seq(STRING) /\ p # <<>> /\ Parent(p) = <<>> /\ KeyOf(p) = "incidents"
  <2>1. <<>> \in Seq(STRING) /\ <<>> \o <<"incidents">> = p
    BY <1>2
  <2> QED
    BY <1>3, <2>1, ChildIs
<1>5. Same(both, tree, p)
  <2>1. KeyOf(p) \notin BlockKeys \cup ThresholdKeys
    BY <1>4 DEF BlockKeys, ThresholdKeys
  <2> QED
    BY <2>1, Elsewhere
<1>6. ASSUME p \in DOMAIN both
      PROVE  /\ both[<<"incidents", "path">>] = tree[<<"incidents", "path">>]
             /\ \A d : Get(both, <<"incidents", "max_bytes">>, d) =
                            Get(tree, <<"incidents", "max_bytes">>, d)
             /\ p \in DOMAIN tree
  <2>1. p \in DOMAIN tree
    BY <1>5, <1>6 DEF Same
  <2>2. "incidents" \in DOMAIN Required /\ Required["incidents"] = {"path"}
        /\ "incidents" \in Known["root"] /\ "root" \in DOMAIN Required
    BY DEF Required, Known
  <2>3. Listed(p, Consumed)
    <3>1. Listed(<<>>, Consumed) /\ KeyOf(<<>>) = "root"
      BY RootIsListed
    <3>2. "root" \in DOMAIN Consumed /\ "incidents" \in Consumed["root"]
      BY <2>2, KnownIsConsumed
    <3> QED
      BY <1>4, <3>1, <3>2, ListedStep
  <2>4. Unchanged(both, tree, p, OtherKeys)
    BY <1>4, <2>1, <2>2, <2>3, OthersAreUnchanged
  <2>5. p \o <<"path">> = <<"incidents", "path">> /\ p \o <<"max_bytes">> = <<"incidents", "max_bytes">>
    <3>1. /\ <<"incidents">> \o <<"path">> = <<"incidents", "path">>
          /\ <<"incidents">> \o <<"max_bytes">> = <<"incidents", "max_bytes">>
      BY OnePlusOne
    <3> QED
      BY <1>2, <3>1, Zenon
  <2>6. /\ both[p \o <<"path">>] = tree[p \o <<"path">>]
        /\ \A d : Get(both, p \o <<"max_bytes">>, d) = Get(tree, p \o <<"max_bytes">>, d)
    BY <1>1, <1>4, <2>2, <2>4 DEF Unchanged
  <2> QED
    BY <2>1, <2>5, <2>6
<1> QED
  BY <1>2, <1>6, Zenon DEF IncidentsAccepted, Has

LEMMA ResolvesOver ==
    ASSUME NEW tree, IsTree(tree), Deserializes(tree), NEW j, NEW more, Laid(j, more),
           NEW both, both = Over(tree, more), Fits(tree, both, more), Resolves(tree)
    PROVE  Resolves(both)
<1>1. /\ Blocks(both, <<>>, {"job"}) = Blocks(tree, <<>>, {"job"})
      /\ Blocks(both, <<>>, {"check"}) = Blocks(tree, <<>>, {"check"})
      /\ Subjects(both) = Subjects(tree)
  <2>1. /\ {"job"} \cap (BlockKeys \cup ThresholdKeys) = {}
        /\ {"check"} \cap (BlockKeys \cup ThresholdKeys) = {}
        /\ {"job", "check"} \cap (BlockKeys \cup ThresholdKeys) = {}
    BY DEF BlockKeys, ThresholdKeys
  <2> QED
    BY <2>1, BlocksOver DEF Subjects
<1>2. /\ \A p \in Blocks(tree, <<>>, {"job"}) : JobAccepted(tree, p)
      /\ \A p \in Blocks(tree, <<>>, {"check"}) : CheckAccepted(tree, p)
      /\ Claimed(tree) /\ IncidentsAccepted(tree)
      /\ Has(tree, <<"listen">>) => tree[<<"listen">>].is \in Addresses
  BY Zenon DEF Resolves
<1>3. \A p \in Blocks(tree, <<>>, {"job"}) :
        JobAccepted(both, p) /\ both[p \o <<"name">>] = tree[p \o <<"name">>]
  BY <1>2, JobOver
<1>4. \A p \in Blocks(tree, <<>>, {"check"}) :
        CheckAccepted(both, p) /\ both[p \o <<"name">>] = tree[p \o <<"name">>]
  BY <1>2, CheckOver
<1>5. \A p \in Subjects(tree) : SubjectName(both, p) = SubjectName(tree, p)
  <2>1. \A p \in Subjects(tree) : p \in Blocks(tree, <<>>, {"job"}) \/ p \in Blocks(tree, <<>>, {"check"})
    BY DEF Subjects, Blocks
  <2> QED
    BY <1>3, <1>4, <2>1, Zenon DEF SubjectName
<1>6. Claimed(both)
  BY <1>1, <1>2, <1>5, Zenon DEF Claimed
<1>7. IncidentsAccepted(both)
  BY <1>2, IncidentsOver
<1>8. Has(both, <<"listen">>) => both[<<"listen">>].is \in Addresses
  <2>1. KeyOf(<<"listen">>) = "listen"
    <3>1. "listen" \in Keys /\ <<>> \in Seq(STRING)
      BY OtherKeysAreKeys DEF OtherKeys
    <3>2. KeyOf(<<>> \o <<"listen">>) = "listen"
      BY <3>1, ChildIs
    <3>3. <<>> \o <<"listen">> = <<"listen">>
      OBVIOUS
    <3> QED
      BY <3>2, <3>3
  <2>2. "listen" \notin BlockKeys \cup ThresholdKeys
    BY DEF BlockKeys, ThresholdKeys
  <2>3. Same(both, tree, <<"listen">>)
    BY <2>1, <2>2, Elsewhere
  <2> QED
    BY <1>2, <2>3, Zenon DEF Same, Has
<1> QED
  BY <1>1, <1>3, <1>4, <1>6, <1>7, <1>8, Zenon DEF Resolves

\* No beats come from a job that is only looked at.
BeatsAreExpected ==
    \A s \in Scenarios : s.gaps # {} =>
        \A tree \in s.files, e \in s.environments : \A p \in DOMAIN tree :
            KeyOf(p) = "job" =>
                Get(Effective(tree, e), p \o <<"mode">>, <<Literal("active")>>) # <<Literal("passive")>>

\* What is in the journal came from the scenario, and so does the start.
ScenarioIsKept ==
    /\ scenario \in Scenarios /\ file \in scenario.files /\ env \in scenario.environments
    /\ arriving # <<>> \/ journal.beats # <<>> => scenario.gaps # {}

LEMMA ScenarioIsKeptAlways == Spec => []ScenarioIsKept
<1>1. Init => ScenarioIsKept
  <2> SUFFICES ASSUME Init PROVE ScenarioIsKept
    OBVIOUS
  <2>1. /\ scenario \in Scenarios /\ file \in scenario.files /\ env \in scenario.environments
        /\ arriving = <<>>
    BY Zenon DEF Init
  <2>2. journal.beats = <<>>
    BY DEF Init
  <2> QED
    BY <2>1, <2>2, Zenon DEF ScenarioIsKept
<1>2. ScenarioIsKept /\ JournalIsKept /\ [Next]_vars => ScenarioIsKept'
  <2> SUFFICES ASSUME ScenarioIsKept, JournalIsKept, [Next]_vars PROVE ScenarioIsKept'
    OBVIOUS
  <2>1. CASE Beat
    <3>1. /\ scenario' = scenario /\ file' = file /\ env' = env
          /\ \E gap \in scenario.gaps : TRUE
      BY <2>1, Zenon DEF Beat
    <3>2. scenario.gaps # {}
      BY <3>1
    <3> QED
      BY <3>1, <3>2, Zenon DEF ScenarioIsKept
  <2>2. CASE Record
    <3>1. /\ scenario' = scenario /\ file' = file /\ env' = env
          /\ \E i \in DOMAIN arriving : TRUE
      BY <2>2, Zenon DEF Record
    <3>2. arriving # <<>>
      BY <3>1
    <3> QED
      BY <3>1, <3>2, Zenon DEF ScenarioIsKept
  <2>3. CASE Probe
    <3>1. /\ scenario' = scenario /\ file' = file /\ env' = env /\ arriving' = arriving
          /\ \E l : journal' = [journal EXCEPT !.probes = Append(@, l)]
      BY <2>3, Zenon DEF Probe
    <3>2. journal'.beats # <<>> => journal.beats # <<>>
      <4>1. PICK l : journal' = [journal EXCEPT !.probes = Append(@, l)]
        BY <3>1
      <4>2. "beats" \in DOMAIN journal
        BY DEF JournalIsKept
      <4> QED
        BY <4>1, <4>2
    <3> QED
      BY <3>1, <3>2, Zenon DEF ScenarioIsKept
  <2>4. CASE Report \/ Start \/ UNCHANGED vars
    BY <2>4, Zenon DEF Report, Start, vars, ScenarioIsKept
  <2> QED
    BY <2>1, <2>2, <2>3, <2>4 DEF Next
<1> QED
  BY <1>1, <1>2, JournalIsKeptAlways, PTL DEF Spec

LEMMA EffectiveIsTree ==
    ASSUME NEW tree, IsTree(tree), NEW e
    PROVE  IsTree(Effective(tree, e))
<1>1. DOMAIN Interpolate(tree, e) = DOMAIN tree
  BY DEF Interpolate
<1>2. IsTree(Interpolate(tree, e))
  BY <1>1, Zenon DEF IsTree
<1> QED
  BY <1>2, OverrideHolds, Zenon DEF Effective

\* A file that loads still does, with what is printed for its job.
LEMMA ProposalStillLoads ==
    ASSUME BeatsAreExpected, ConfigIsRead, JournalIsKept, ScenarioIsKept, Loads(file, env)
    PROVE  Loads(Proposal, env)
<1>1. Job \in DOMAIN file /\ Job \in Seq(STRING) /\ KeyOf(Job) = "job"
  <2>1. \E p \in DOMAIN file : KeyOf(p) = "job"
    BY DEF ConfigIsRead
  <2>2. Job \in DOMAIN file /\ KeyOf(Job) = "job"
    BY <2>1, Zenon DEF Job
  <2> QED
    BY <2>2, Zenon DEF ConfigIsRead, IsTree
<1>2. PICK c : c = Effective(file, env)
  OBVIOUS
<1>3. IsTree(c) /\ Deserializes(c) /\ Resolves(c) /\ Interpolable(file, env)
  BY <1>2, EffectiveIsTree, Zenon DEF Loads, ConfigIsRead
<1>4. PICK both : both = Over(c, Printed)
  OBVIOUS
<1>5. Interpolable(Proposal, env) /\ Effective(Proposal, env) = both
  <2>1. Beside(Printed)
    BY <1>1, PrintedIs
  <2> QED
    BY <1>2, <1>3, <1>4, <2>1, EffectiveOver DEF Proposal
<1>6. Laid(Job, Printed)
  BY <1>1, PrintedPaths
<1>7. ASSUME NEW q \in DOMAIN Printed, KeyOf(q) \in BlockKeys
      PROVE  q = Job \o <<KeyOf(q)>> /\ Parent(q) = Job
  <2>1. BlockKeys \cap ThresholdKeys = {}
    BY DEF BlockKeys, ThresholdKeys
  <2>2. PICK a \in BlockKeys : IsBlockOf(q, Printed, Job, a) \/ IsThresholdOf(q, Printed, Job, a)
    BY <1>6, Zenon DEF Laid, LaidBy
  <2>3. IsBlockOf(q, Printed, Job, a)
    BY <1>7, <2>1, <2>2 DEF IsThresholdOf
  <2> QED
    BY <2>3, Zenon DEF IsBlockOf
<1>8. Fits(c, both, Printed)
  <2>1. ASSUME NEW q \in DOMAIN Printed, KeyOf(q) = "alive"
        PROVE  /\ AliveAccepted(Alive(both, q))
               /\ Get(c, Parent(q) \o <<"mode">>, <<Literal("active")>>) # <<Literal("passive")>>
    <3>1. q = Job \o <<"alive">> /\ Parent(q) = Job
      BY <1>7, <2>1 DEF BlockKeys
    <3>2. HasCadence(journal.beats)
      BY <1>1, <2>1, <3>1, PrintedPaths
    <3>3. AliveAccepted(Alive(both, q))
      BY <1>1, <1>4, <3>1, <3>2, PrintedIsReadBack
    <3>4. journal.beats # <<>>
      <4>1. Len(journal.beats) >= 2
        BY <3>2, Zenon DEF HasCadence
      <4> QED
        BY <4>1
    <3>5. Get(c, Job \o <<"mode">>, <<Literal("active")>>) # <<Literal("passive")>>
      BY <1>1, <1>2, <3>4, Zenon DEF ScenarioIsKept, BeatsAreExpected
    <3> QED
      BY <3>1, <3>3, <3>5
  <2>2. ASSUME NEW q \in DOMAIN Printed, KeyOf(q) \in {"worked", "freshness"}
        PROVE  SilenceAccepted(Silence(both, q))
    <3>1. q = Job \o <<KeyOf(q)>>
      BY <1>7, <2>2 DEF BlockKeys
    <3>2. CASE KeyOf(q) = "worked"
      <4>1. q = Job \o <<"worked">>
        BY <3>1, <3>2
      <4>2. HasCadence(journal.worked)
        BY <1>1, <2>2, <4>1, PrintedPaths
      <4> QED
        BY <1>1, <1>4, <4>1, <4>2, PrintedIsReadBack
    <3>3. CASE KeyOf(q) = "freshness"
      <4>1. q = Job \o <<"freshness">>
        BY <3>1, <3>3
      <4>2. Len(Ages) >= MinIntervals
        BY <1>1, <2>2, <4>1, PrintedPaths
      <4> QED
        BY <1>1, <1>4, <4>1, <4>2, PrintedIsReadBack
    <3> QED
      BY <2>2, <3>2, <3>3
  <2> QED
    BY <2>1, <2>2, Zenon DEF Fits
<1>9. Deserializes(both)
  BY <1>3, <1>4, <1>6, DeserializesOver
<1>10. Resolves(both)
  BY <1>3, <1>4, <1>6, <1>8, ResolvesOver
<1> QED
  BY <1>5, <1>9, <1>10, Zenon DEF Loads

\* No beats come from a job that is only looked at, which would be refused a heartbeat.
\* Then a configuration that loads still does with what was printed for its job, whatever
\* it is and whatever the environment, and what stillwatch runs with is what was derived
\* (alive_block, worked_block, freshness_block, fmt::duration, Config::from_toml).
THEOREM ProposalsLoadAlways ==
    ASSUME BeatsAreExpected
    PROVE  Spec => []ProposalsLoad
<1>1. ConfigIsRead /\ JournalIsKept /\ ScenarioIsKept => ProposalsLoad
  <2> SUFFICES ASSUME ConfigIsRead, JournalIsKept, ScenarioIsKept PROVE ProposalsLoad
    OBVIOUS
  <2>1. ASSUME phase = "refused" PROVE ~Loads(file, env)
    <3>1. ~Loads(Proposal, env)
      BY <2>1 DEF ConfigIsRead
    <3> QED
      BY <3>1, ProposalStillLoads
  <2>2. ASSUME phase = "running"
        PROVE  /\ HasCadence(journal.beats) => Alive(config, Job \o <<"alive">>) = LearnedAlive
               /\ HasCadence(journal.worked) => Silence(config, Job \o <<"worked">>) = LearnedWorked
               /\ Len(Ages) >= MinIntervals =>
                    Silence(config, Job \o <<"freshness">>) = LearnedFreshness
    BY <2>2, ProposalIsRead
  <2> QED
    BY <2>1, <2>2, Zenon DEF ProposalsLoad
<1> QED
  BY <1>1, ConfigIsReadAlways, JournalIsKeptAlways, ScenarioIsKeptAlways, PTL

=============================================================================
