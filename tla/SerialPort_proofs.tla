-------------------------- MODULE SerialPort_proofs --------------------------
(***************************************************************************)
(* serial_port.c, for frames of any number and length, any buffer and any  *)
(* number of faults and signals: the descriptor (NoLeak), the types        *)
(* (TypeCorrect), the stream of bytes between write() and the caller       *)
(* (NoByteLost), and, where the line is good, that a read returns one      *)
(* frame and all of it (FramesAreWhole).                                   *)
(***************************************************************************)
EXTENDS SerialPort, SequenceTheorems, WellFoundedInduction, TLAPS

(***************************************************************************)
(* Sequences.                                                              *)
(***************************************************************************)
\* A set that has 0 and, with every number, the next one has all of them.
LEMMA SetInduction ==
  ASSUME NEW S, 0 \in S, \A n \in Nat : n \in S => n + 1 \in S
  PROVE  Nat \subseteq S
<1>. DEFINE T == Nat \ S
<1>. SUFFICES ASSUME T # {}
              PROVE  FALSE
  OBVIOUS
<1>1. PICK x \in T : \A y \in T : <<y, x>> \notin OpToRel(<, Nat)
  <2>1. T \subseteq Nat
    OBVIOUS
  <2>. HIDE DEF T
  <2>. QED
    BY <2>1, WFMin, NatLessThanWellFounded, Zenon
<1>2. x \in Nat /\ x # 0 /\ x \notin S
  BY <1>1
<1>3. x - 1 \in Nat /\ x - 1 < x /\ (x - 1) + 1 = x
  BY <1>2
<1>4. <<x - 1, x>> \in OpToRel(<, Nat)
  BY <1>2, <1>3, Zenon DEF OpToRel
<1>5. x - 1 \in S
  BY <1>1, <1>3, <1>4
<1>. QED
  BY <1>2, <1>3, <1>5

\* f[i] is what the first i sequences of s make, one after the other: the
\* function FlattenSeq chooses.
Joins(s, n, f) ==
   f = [i \in 1 .. n |-> IF i = 1 THEN s[i] ELSE f[i - 1] \o s[i]]

\* FlattenSeq is not defined in vain.
LEMMA JoinExists ==
  ASSUME NEW s, NEW n \in Nat PROVE \E f : Joins(s, n, f)
<1> DEFINE S == {m \in Nat : \E f : Joins(s, m, f)}
<1>1. 0 \in S
  <2>1. Joins(s, 0, <<>>)
    BY DEF Joins
  <2> QED BY <2>1
<1>2. \A m \in Nat : m \in S => m + 1 \in S
  <2> SUFFICES ASSUME NEW m \in Nat, m \in S PROVE m + 1 \in S
    OBVIOUS
  <2>1. PICK f : f = [i \in 1 .. m |-> IF i = 1 THEN s[i] ELSE f[i - 1] \o s[i]]
    BY DEF Joins
  <2> DEFINE g == [i \in 1 .. m + 1 |->
                     IF i <= m THEN f[i]
                     ELSE IF i = 1 THEN s[i] ELSE f[i - 1] \o s[i]]
  <2>2. \A i \in 1 .. m + 1 : g[i] = IF i = 1 THEN s[i] ELSE g[i - 1] \o s[i]
    <3> TAKE i \in 1 .. m + 1
    <3>1. CASE i = 1
      BY <2>1, <3>1
    <3>2. CASE i # 1
      <4>1. i - 1 \in 1 .. m /\ g[i - 1] = f[i - 1]
        BY <3>2
      <4>2. g[i] = f[i - 1] \o s[i]
        <5>1. CASE i <= m
          <6>1. i \in 1 .. m /\ g[i] = f[i]
            BY <5>1
          <6>2. f[i] = f[i - 1] \o s[i]
            BY <2>1, <3>2, <6>1
          <6> QED BY <6>1, <6>2
        <5>2. CASE ~(i <= m)
          BY <3>2, <5>2
        <5> QED BY <5>1, <5>2
      <4> QED BY <3>2, <4>1, <4>2
    <3> QED BY <3>1, <3>2
  <2>3. g = [i \in 1 .. m + 1 |-> g[i]]
    OBVIOUS
  <2> HIDE DEF g
  <2>4. g = [i \in 1 .. m + 1 |-> IF i = 1 THEN s[i] ELSE g[i - 1] \o s[i]]
    BY <2>2, <2>3
  <2>5. Joins(s, m + 1, g)
    BY <2>4 DEF Joins
  <2> QED BY <2>5
<1> HIDE DEF S
<1>3. Nat \subseteq S
  BY <1>1, <1>2, SetInduction
<1> QED BY <1>3 DEF S

\* FlattenSeq is the last of the sequences that join one piece after the other.
LEMMA FlattenIs ==
  ASSUME NEW s, Len(s) \in Nat \ {0}
  PROVE \E f : Joins(s, Len(s), f) /\ FlattenSeq(s) = f[Len(s)]
<1> DEFINE F == CHOOSE f : f = [i \in 1 .. Len(s) |-> IF i = 1 THEN s[i] ELSE f[i - 1] \o s[i]]
<1>1. Joins(s, Len(s), F)
  BY JoinExists DEF Joins
<1>2. FlattenSeq(s) = F[Len(s)]
  BY DEF FlattenSeq
<1> QED BY <1>1, <1>2

\* Sequences are joined in any order.
LEMMA Assoc ==
  ASSUME NEW T
  PROVE  \A x, y, z \in Seq(T) : x \o (y \o z) = (x \o y) \o z
  OBVIOUS

\* Joined sequences hold what their pieces hold.
LEMMA JoinsTyped ==
  ASSUME NEW T, NEW n \in Nat, NEW s, NEW f, Joins(s, n, f),
         \A i \in 1 .. n : s[i] \in Seq(T)
  PROVE  \A i \in 1 .. n : f[i] \in Seq(T)
<1> DEFINE P(i) == i \in 1 .. n => f[i] \in Seq(T)
           S == {i \in Nat : P(i)}
<1>1. P(0)
  OBVIOUS
<1>2. ASSUME NEW i \in Nat, P(i) PROVE P(i + 1)
  <2> SUFFICES ASSUME i + 1 \in 1 .. n PROVE f[i + 1] \in Seq(T)
    OBVIOUS
  <2>1. f[i + 1] = IF i + 1 = 1 THEN s[i + 1] ELSE f[(i + 1) - 1] \o s[i + 1]
    BY DEF Joins
  <2>2. s[i + 1] \in Seq(T)
    OBVIOUS
  <2>3. CASE i = 0
    BY <2>1, <2>2, <2>3
  <2>4. CASE i # 0
    <3>1. i \in 1 .. n /\ (i + 1) - 1 = i /\ i + 1 # 1
      BY <2>4
    <3>2. f[i] \in Seq(T) /\ f[i + 1] = f[i] \o s[i + 1]
      BY <1>2, <2>1, <3>1
    <3> QED BY <2>2, <3>2, ConcatProperties
  <2> QED BY <2>3, <2>4
<1> HIDE DEF P
<1>3. 0 \in S /\ \A i \in Nat : i \in S => i + 1 \in S
  BY <1>1, <1>2
<1> HIDE DEF S
<1>4. Nat \subseteq S
  BY <1>3, SetInduction
<1> QED BY <1>4 DEF S, P

\* A function on 1 .. n is a sequence of n elements.
LEMMA LenOf ==
  ASSUME NEW S, NEW n \in Nat, NEW s \in [1 .. n -> S]
  PROVE  Len(s) = n
  OBVIOUS

\* If one of the sequences grows, and nothing follows it, then so does the whole.
LEMMA FlattenGrows ==
  ASSUME NEW T
  PROVE  \A n \in Nat : \A k \in 1 .. n, p \in Seq(T), s, t \in [1 .. n -> Seq(T)] :
           (/\ t[k] = s[k] \o p
            /\ \A i \in 1 .. k - 1 : t[i] = s[i]
            /\ \A i \in k + 1 .. n : s[i] = <<>> /\ t[i] = <<>>)
           => FlattenSeq(t) = FlattenSeq(s) \o p
<1> SUFFICES ASSUME NEW n \in Nat, NEW k \in 1 .. n, NEW p \in Seq(T),
                    NEW s \in [1 .. n -> Seq(T)], NEW t \in [1 .. n -> Seq(T)],
                    t[k] = s[k] \o p,
                    \A i \in 1 .. k - 1 : t[i] = s[i],
                    \A i \in k + 1 .. n : s[i] = <<>> /\ t[i] = <<>>
             PROVE  FlattenSeq(t) = FlattenSeq(s) \o p
  BY ZenonT(30)
<1>0. n \in Nat \ {0} /\ \A i \in 1 .. n : s[i] \in Seq(T)
  OBVIOUS
<1>4. Len(s) = n /\ Len(t) = n
  BY LenOf
<1>1. PICK f : Joins(s, n, f) /\ FlattenSeq(s) = f[n]
  BY <1>0, <1>4, FlattenIs
<1>2. PICK g : Joins(t, n, g) /\ FlattenSeq(t) = g[n]
  BY <1>0, <1>4, FlattenIs
<1> DEFINE P(i) == i \in 1 .. n =>
                     g[i] = IF i < k THEN f[i] ELSE f[i] \o p
           S == {i \in Nat : P(i)}
<1>3. \A i \in 1 .. n : f[i] \in Seq(T)
  BY <1>0, <1>1, JoinsTyped
<1>a. \A x, y, z \in Seq(T) : x \o (y \o z) = (x \o y) \o z
  BY ONLY Assoc, Z3T(30)
<1>5. P(0)
  OBVIOUS
<1>6. ASSUME NEW i \in Nat, P(i) PROVE P(i + 1)
  <2> SUFFICES ASSUME i + 1 \in 1 .. n
               PROVE  g[i + 1] = IF i + 1 < k THEN f[i + 1] ELSE f[i + 1] \o p
    OBVIOUS
  <2> DEFINE j == i + 1
  <2>1. /\ f[j] = IF j = 1 THEN s[j] ELSE f[j - 1] \o s[j]
        /\ g[j] = IF j = 1 THEN t[j] ELSE g[j - 1] \o t[j]
    BY <1>1, <1>2 DEF Joins
  <2>2. j \in 1 .. n /\ j - 1 = i /\ (j # 1 => i \in 1 .. n)
    OBVIOUS
  <2>3. f[j] \in Seq(T) /\ s[j] \in Seq(T) /\ (j # 1 => f[i] \in Seq(T))
    BY <1>0, <1>3, <2>2
  <2>4. j # 1 => g[i] = IF i < k THEN f[i] ELSE f[i] \o p
    BY <1>6, <2>2
  <2> HIDE DEF j, P
  <2>5. CASE j < k
    <3>1. t[j] = s[j] /\ i < k
      BY <2>2, <2>5
    <3> QED BY <2>1, <2>2, <2>4, <2>5, <3>1 DEF j
  <2>6. CASE j = k
    <3>1. t[j] = s[j] \o p /\ i < k
      BY <2>2, <2>6
    <3>2. CASE j = 1
      BY <2>1, <2>6, <3>1, <3>2 DEF j
    <3>3. CASE j # 1
      <4>1. g[j] = f[i] \o (s[j] \o p) /\ f[j] = f[i] \o s[j]
        BY <2>1, <2>2, <2>4, <3>1, <3>3
      <4>2. f[i] \o (s[j] \o p) = (f[i] \o s[j]) \o p
        BY <1>a, <2>3, <3>3
      <4>3. g[j] = f[j] \o p /\ ~(j < k)
        BY <2>6, <4>1, <4>2
      <4> QED BY <4>3 DEF j
    <3> QED BY <3>2, <3>3
  <2>7. CASE j > k
    <3>1. s[j] = <<>> /\ t[j] = <<>> /\ ~(i < k) /\ j # 1 /\ ~(j < k)
      BY <2>2, <2>7
    <3>2. f[j] = f[i] \o <<>> /\ g[j] = (f[i] \o p) \o <<>>
      BY <2>1, <2>2, <2>4, <3>1
    <3>3. f[i] \in Seq(T) /\ f[i] \o p \in Seq(T)
      BY <2>3, <3>1, ConcatProperties
    <3>4. f[j] = f[i] /\ g[j] = f[i] \o p
      BY <3>2, <3>3, ConcatEmptySeq
    <3> QED BY <3>1, <3>4 DEF j
  <2> QED BY <2>2, <2>5, <2>6, <2>7
<1>v. P(n) => g[n] = f[n] \o p
  <2>1. n \in 1 .. n /\ ~(n < k)
    OBVIOUS
  <2> QED BY <2>1
<1> HIDE DEF P
<1>7. 0 \in S /\ \A i \in Nat : i \in S => i + 1 \in S
  BY <1>5, <1>6
<1> HIDE DEF S
<1>8. Nat \subseteq S
  BY <1>7, SetInduction
<1>9. n \in S
  BY <1>8
<1>10. g[n] = f[n] \o p
  BY <1>9, <1>v DEF S
<1> QED BY <1>1, <1>2, <1>10

\* Empty sequences join to an empty one.
LEMMA FlattenNothing ==
  ASSUME NEW n \in Nat, NEW s \in [1 .. n -> {<<>>}]
  PROVE  FlattenSeq(s) = <<>>
<1>9. Len(s) = n
  BY LenOf
<1>8. \A i \in 1 .. n : s[i] = <<>>
  OBVIOUS
<1>0. CASE n = 0
  <2>1. s = <<>>
    BY <1>0
  <2> QED BY <1>0, <1>9, <2>1 DEF FlattenSeq
<1>1. CASE n # 0
  <2>1. PICK f : Joins(s, n, f) /\ FlattenSeq(s) = f[n]
    BY <1>1, <1>9, FlattenIs
  <2> DEFINE P(i) == i \in 1 .. n => f[i] = <<>>
             S == {i \in Nat : P(i)}
  <2>2. P(0)
    OBVIOUS
  <2>3. ASSUME NEW i \in Nat, P(i) PROVE P(i + 1)
    <3> SUFFICES ASSUME i + 1 \in 1 .. n PROVE f[i + 1] = <<>>
      OBVIOUS
    <3>1. f[i + 1] = IF i + 1 = 1 THEN s[i + 1] ELSE f[(i + 1) - 1] \o s[i + 1]
      BY <2>1 DEF Joins
    <3>2. s[i + 1] = <<>>
      BY <1>8
    <3>3. CASE i = 0
      BY <3>1, <3>2, <3>3
    <3>4. CASE i # 0
      <4>1. i \in 1 .. n /\ (i + 1) - 1 = i /\ i + 1 # 1
        BY <3>4
      <4>2. f[i] = <<>> /\ f[i + 1] = f[i] \o s[i + 1]
        BY <2>3, <3>1, <4>1
      <4> QED BY <3>2, <4>2
    <3> QED BY <3>3, <3>4
  <2>v. P(n) <=> (n \in 1 .. n => f[n] = <<>>)
    OBVIOUS
  <2> HIDE DEF P
  <2>4. 0 \in S /\ \A i \in Nat : i \in S => i + 1 \in S
    BY <2>2, <2>3
  <2> HIDE DEF S
  <2>5. Nat \subseteq S
    BY <2>4, SetInduction
  <2>6. n \in S /\ n \in 1 .. n
    BY <1>1, <2>5
  <2> QED BY <2>1, <2>6, <2>v DEF S
<1> QED BY <1>0, <1>1

-----------------------------------------------------------------------------
(***************************************************************************)
(* The invariants.                                                         *)
(***************************************************************************)
\* What the variables range over, and how the phases of a read constrain them.
Typed ==
  /\ port \in {"closed", "settings", "open"}
  /\ fds = IF port = "closed" THEN 0 ELSE 1
  /\ pc \in {"busy", "waiting", "reading", "failed"} /\ busy \in 0..MaxBusy
  /\ pc \in {"waiting", "reading"} => port = "open" /\ Len(buf) < MaxLen
  /\ pc \notin {"waiting", "reading"} => buf = NoBytes
  /\ pc = "reading" => rx # NoBytes
  /\ port = "settings" => pc = "busy"
  /\ port = "open" => pc # "failed"
  /\ pc \in {"waiting", "reading"} => result = NoBytes
  /\ buf \in Seq(Bytes) /\ result \in Seq(Bytes) /\ Len(result) <= MaxLen
  /\ have_first_byte = (buf # NoBytes)
  /\ timer \in 0..FirstWait \cup 0..Interval /\ deadline \in 0..FirstWait
  /\ rx \in Seq(Bytes) /\ tx \in Seq(Bytes)
  /\ gone \in Seq(Bytes) /\ lost \in SUBSET Bytes
  /\ quiet \in 0..FrameGap
  /\ eintr \in 0..MaxEintr /\ faults \in 0..MaxFaults

\* The frames are written in order, and each at most once.
Paper ==
  /\ frame \in 0..Len(FrameLen)
  /\ written \in [Frames -> [n : Nat, done : BOOLEAN]]
  /\ \A f \in Frames :
       /\ written[f].n <= FrameLen[f]
       /\ written[f].n = FrameLen[f] => written[f].done
       /\ f > frame => written[f] = [n |-> 0, done |-> FALSE]

\* The bytes of frame f after the first a, up to the b-th.
Seg(f, a, b) == [i \in 1..b - a |-> <<f, a + i>>]

\* How much of the current frame write() has accepted.
Given == IF frame = 0 THEN 0 ELSE written[frame].n

\* The reader's buffer will be emptied before the port is read again.
Doomed == port # "open" \/ (pc = "busy" /\ Rejected)

\* The bytes of the current frame from the a-th on are what a reader that has
\* seen no other frame's sees of it: all, or what follows a lost byte or one at
\* which a timeout or a read() of 0 bytes cut the frame, or what does not fit its
\* buffer; or nothing follows.
Founded(a) ==
  \/ a = 0
  \/ <<frame, a>> \in lost \cup cut
  \/ FrameLen[frame] > MaxLen
  \/ a = Given /\ written[frame].done

\* The transmit queue holds the end of the current frame, from byte b on; a
\* reader that listens has the bytes from a to m, and those from m to b wait.
Held(a, m, b) ==
  /\ a <= m /\ m <= b /\ b <= Given
  /\ tx = Seg(frame, b, Given)
  /\ ~Doomed => (buf = Seg(frame, a, m) /\ rx = Seg(frame, m, b) /\ Founded(a))
  /\ Doomed => /\ rx = NoBytes => Founded(b)
               /\ (rx # NoBytes /\ b > 0) => <<frame, b>> \in ToSet(rx)
  /\ (b > 0 /\ InsideFrame) => quiet <= ByteGap

HeldInv == \E a, m, b \in 0..Given : Held(a, m, b)

\* What faults and signals may still cost.
Budget == (MaxFaults - faults) * MaxBusy + (MaxEintr - eintr) * Interval
Silence == (MaxFaults + 1) * MaxBusy + (MaxEintr + 1) * Interval

\* Bytes a reader that listens has not returned are not older than the silence
\* less what may still delay it.
TimeInv ==
  ~Doomed =>
    /\ (rx # NoBytes /\ pc = "busy") =>
         quiet + (MaxBusy - busy) + Interval + Budget <= Silence
    /\ (rx # NoBytes /\ pc # "busy") => quiet + Interval + Budget <= Silence
    /\ (rx = NoBytes /\ buf # NoBytes) =>
         (quiet + timer + Budget <= Silence /\ quiet + timer >= Interval)

WholeInv == HeldInv /\ TimeInv /\ WholeFrames


-----------------------------------------------------------------------------
(***************************************************************************)
(* The types, and the descriptor.                                          *)
(***************************************************************************)
\* What the assumption says of the constants and of what is computed of them.
LEMMA ConstFacts ==
  ASSUME SerialPortAssumption
  PROVE  /\ Len(FrameLen) \in Nat /\ Frames = 1..Len(FrameLen)
         /\ \A f \in Frames : FrameLen[f] \in Nat \ {0}
         /\ Interval \in Nat /\ FirstWait \in Nat /\ MaxLen \in Nat \ {0}
         /\ ByteGap \in Nat /\ FrameGap \in Nat /\ MaxBusy \in Nat
         /\ MaxEintr \in Nat /\ MaxFaults \in Nat
         /\ Platform \in {"posix", "win32"}
<1>1. /\ Len(FrameLen) \in Nat /\ Frames = 1..Len(FrameLen)
      /\ \A f \in Frames : FrameLen[f] \in Nat \ {0}
  BY DEF SerialPortAssumption, Frames
<1>2. Interval \in Nat
  <2>1. ASSUME NEW x \in Nat, NEW y \in Nat \ {0} PROVE x \div y \in Nat
    OBVIOUS
  <2>2. Baud \in Nat \ {0} /\ TickUs \in Nat \ {0}
    BY DEF SerialPortAssumption
  <2>3. 38500000 \div Baud \in Nat
    BY <2>1, <2>2
  <2>4. modbus_t35_us(Baud) \in Nat
    BY <2>2, <2>3 DEF modbus_t35_us
  <2> QED BY <2>1, <2>2, <2>4 DEF Interval
<1> QED BY <1>1, <1>2 DEF SerialPortAssumption

\* The bounds of the port and of the line are numbers.
LEMMA NumFacts ==
  ASSUME SerialPortAssumption
  PROVE  /\ Interval \in Nat /\ FirstWait \in Nat /\ MaxLen \in Nat \ {0}
         /\ ByteGap \in Nat /\ FrameGap \in Nat /\ MaxBusy \in Nat
         /\ MaxEintr \in Nat /\ MaxFaults \in Nat
  BY ConstFacts

\* Faults and signals are counted up to their bounds.
LEMMA Counted ==
  ASSUME SerialPortAssumption, Typed
  PROVE  /\ Fault => faults' = faults + 1 /\ faults' \in 0..MaxFaults /\ eintr' = eintr
         /\ Signal => eintr' = eintr + 1 /\ eintr' \in 0..MaxEintr /\ faults' = faults
<1>1. faults \in 0..MaxFaults /\ eintr \in 0..MaxEintr
  BY DEF Typed
<1> QED BY <1>1, NumFacts DEF Fault, Failure, Signal

\* The first bytes of a frame are bytes.
LEMMA BytesAreBytes ==
  ASSUME SerialPortAssumption, NEW f \in Frames, NEW n \in 0..FrameLen[f]
  PROVE  BytesOf(f, n) \in Seq(Bytes) /\ Len(BytesOf(f, n)) = n
<1>1. n \in Nat /\ FrameLen[f] \in Nat
  BY ConstFacts
<1>2. \A i \in 1..n : <<f, i>> \in Bytes
  <2> TAKE i \in 1..n
  <2>1. i \in 1..FrameLen[f]
    BY <1>1
  <2> QED BY <2>1 DEF Bytes
<1> DEFINE b == [i \in 1..n |-> <<f, i>>]
<1>3. b \in [1..n -> Bytes]
  BY <1>2
<1> HIDE DEF b
<1>4. b \in Seq(Bytes) /\ Len(b) = n
  BY <1>1, <1>3
<1> QED BY <1>4 DEF BytesOf, b

\* A read takes the beginning of what has been received, at most what its
\* buffer has room for, and something if there is something.
LEMMA TakenIs ==
  ASSUME SerialPortAssumption, Typed, pc \in {"waiting", "reading"}
  PROVE  LET rest == SubSeq(rx, Len(Taken) + 1, Len(rx)) IN
         /\ Taken \in Seq(Bytes) /\ rest \in Seq(Bytes) /\ rx = Taken \o rest
         /\ buf \o Taken \in Seq(Bytes) /\ Len(buf \o Taken) <= MaxLen
         /\ Len(buf \o Taken) = Len(buf) + Len(Taken)
         /\ rx # NoBytes => Taken # NoBytes /\ buf \o Taken # NoBytes
         /\ rx = NoBytes => Taken = NoBytes
         /\ Len(Taken) = Len(rx) \/ Len(buf \o Taken) = MaxLen
<1> DEFINE n == IF Len(rx) < MaxLen - Len(buf) THEN Len(rx) ELSE MaxLen - Len(buf)
<1>1. /\ buf \in Seq(Bytes) /\ rx \in Seq(Bytes) /\ Len(buf) < MaxLen
      /\ MaxLen \in Nat
  BY ConstFacts DEF Typed
<1>2. Len(rx) \in Nat /\ Len(buf) \in Nat
  BY <1>1
<1>3. n \in 0..Len(rx) /\ (Len(rx) > 0 => n > 0) /\ Len(buf) + n <= MaxLen
      /\ (n = Len(rx) \/ Len(buf) + n = MaxLen)
  BY <1>1, <1>2
<1>4. Taken = SubSeq(rx, 1, n)
  BY DEF Taken
<1> HIDE DEF n
<1>5. Taken \in Seq(Bytes) /\ Len(Taken) = n
  BY <1>1, <1>2, <1>3, <1>4
<1>6. SubSeq(rx, Len(Taken) + 1, Len(rx)) \in Seq(Bytes)
  BY <1>1, <1>2, <1>3, <1>5
<1>7. rx = Taken \o SubSeq(rx, Len(Taken) + 1, Len(rx))
  <2>1. SubSeq(rx, 1, n) \o SubSeq(rx, n + 1, Len(rx)) = SubSeq(rx, 1, Len(rx))
    <3>1. 1 \in 1..Len(rx) + 1 /\ n \in 1 - 1..Len(rx) /\ Len(rx) \in n..Len(rx)
      BY <1>2, <1>3
    <3> QED BY <1>1, <3>1, ConcatAdjacentSubSeq
  <2>2. SubSeq(rx, 1, Len(rx)) = rx
    BY <1>1, SubSeqFull
  <2> QED BY <1>4, <1>5, <2>1, <2>2
<1>8. buf \o Taken \in Seq(Bytes) /\ Len(buf \o Taken) = Len(buf) + n
  BY <1>1, <1>5, ConcatProperties
<1>9. rx # NoBytes => Taken # NoBytes /\ buf \o Taken # NoBytes
  <2> SUFFICES ASSUME rx # NoBytes PROVE Len(Taken) # 0 /\ Len(buf \o Taken) # 0
    BY DEF NoBytes
  <2>1. Len(rx) > 0
    BY <1>1, <1>2 DEF NoBytes
  <2> QED BY <1>2, <1>3, <1>5, <1>8, <2>1
<1>10. rx = NoBytes => Taken = NoBytes
  <2> SUFFICES ASSUME rx = NoBytes PROVE Taken = NoBytes
    OBVIOUS
  <2>1. Len(rx) = 0
    BY DEF NoBytes
  <2>2. Len(Taken) = 0
    BY <1>3, <1>5, <2>1
  <2> QED BY <1>5, <2>2 DEF NoBytes
<1> QED BY <1>3, <1>5, <1>6, <1>7, <1>8, <1>9, <1>10

\* Flushing and reading leave bytes.
LEMMA FlushTyped ==
  ASSUME Typed, Flush
  PROVE  /\ rx' \in Seq(Bytes) /\ gone' \in Seq(Bytes) /\ lost' \in SUBSET Bytes
         /\ rx' = NoBytes
<1>1. rx \in Seq(Bytes) /\ gone \in Seq(Bytes) /\ lost \in SUBSET Bytes
  BY DEF Typed
<1>2. gone \o rx \in Seq(Bytes)
  BY <1>1, ConcatProperties
<1>3. ToSet(rx) \in SUBSET Bytes
  BY <1>1 DEF ToSet
<1>4. NoBytes \in Seq(Bytes)
  BY DEF NoBytes
<1> QED BY <1>1, <1>2, <1>3, <1>4 DEF Flush

\* A read that returns what its buffer holds leaves everything else its type.
LEMMA ReturnTyped ==
  ASSUME SerialPortAssumption, Typed, NEW b \in Seq(Bytes), Len(b) <= MaxLen, Return(b),
         UNCHANGED <<port, fds, tx, quiet, lost>>, rx' \in Seq(Bytes),
         pc \in {"waiting", "reading"}, eintr' \in 0..MaxEintr, faults' \in 0..MaxFaults
  PROVE  Typed'
<1>1. gone' \in Seq(Bytes)
  BY ConcatProperties DEF Return, Typed
<1>2. /\ pc' = "busy" /\ busy' = 0 /\ result' = b /\ timer' = 0 /\ deadline' = 0
      /\ buf' = NoBytes /\ have_first_byte' = FALSE
  BY DEF Return
<1>3. /\ busy' \in 0..MaxBusy /\ timer' \in 0..FirstWait /\ deadline' \in 0..FirstWait
      /\ buf' \in Seq(Bytes)
  BY <1>2, ConstFacts DEF NoBytes
<1>4. /\ port' = port /\ fds' = fds /\ tx' = tx /\ quiet' = quiet /\ lost' = lost
      /\ port = "open"
  BY DEF Typed
<1> QED BY <1>1, <1>2, <1>3, <1>4 DEF Typed

\* Every step keeps the types.
LEMMA TypedStep ==
  ASSUME SerialPortAssumption, Typed, Paper, [Next]_vars
  PROVE  Typed'
<1> USE DEF opening, reading, writer, counts
<1>1. CASE OpenFd
  <2>1. buf = NoBytes /\ pc = "busy" /\ fds = 0
    BY <1>1 DEF OpenFd, Typed
  <2>2. CASE port' = "settings" /\ fds' = fds + 1 /\ UNCHANGED <<pc, counts>>
    BY <1>1, <2>1, <2>2 DEF OpenFd, Typed
  <2>3. CASE Fault /\ pc' = "failed" /\ UNCHANGED opening
    BY <1>1, <2>1, <2>3, Counted DEF OpenFd, Typed
  <2> QED BY <1>1, <2>2, <2>3 DEF OpenFd
<1>2. CASE OpenSettings
  <2>1. buf = NoBytes /\ pc = "busy"
    BY <1>2 DEF OpenSettings, Typed
  <2>2. CASE port' = "open" /\ Flush /\ UNCHANGED <<fds, pc, counts>>
    BY <1>2, <2>1, <2>2, FlushTyped DEF OpenSettings, Typed
  <2>3. CASE /\ port' = "closed" /\ fds' = fds - 1 /\ pc' = "failed"
             /\ UNCHANGED <<rx, gone, lost>>
    <3>1. /\ UNCHANGED counts \/ Fault
          /\ fds = 1
      BY <1>2, <2>1, <2>3 DEF OpenSettings, Typed
    <3>2. faults' \in 0..MaxFaults /\ eintr' \in 0..MaxEintr
      BY <3>1, Counted DEF Typed
    <3> QED BY <1>2, <2>1, <2>3, <3>1, <3>2 DEF OpenSettings, Typed
  <2> QED BY <1>2, <2>2, <2>3 DEF OpenSettings
<1>3. CASE Close
  BY <1>3 DEF Close, Typed
<1>4. CASE StartWrite
  BY <1>4 DEF StartWrite, Typed
<1>5. CASE WriteSome
  <2>1. PICK n \in 1..(FrameLen[frame] - written[frame].n) :
          tx' = tx \o SubSeq(BytesOf(frame, written[frame].n + n),
                             written[frame].n + 1, written[frame].n + n)
    BY <1>5 DEF WriteSome
  <2> DEFINE w == written[frame].n + n
  <2>2. frame \in Frames /\ written[frame].n \in Nat /\ FrameLen[frame] \in Nat
    <3>1. frame \in 0..Len(FrameLen) /\ frame # 0
      BY <1>5 DEF WriteSome, Between, Paper
    <3>2. frame \in Frames
      BY <3>1, ConstFacts
    <3> QED BY <3>2, ConstFacts DEF Paper
  <2>3. w \in 0..FrameLen[frame] /\ n \in Nat /\ w \in Nat
    BY <2>2
  <2>4. BytesOf(frame, w) \in Seq(Bytes) /\ Len(BytesOf(frame, w)) = w
    BY <2>2, <2>3, BytesAreBytes
  <2>5. SubSeq(BytesOf(frame, w), written[frame].n + 1, w) \in Seq(Bytes)
    <3> HIDE DEF w
    <3> QED BY <2>2, <2>3, <2>4
  <2>6. tx' \in Seq(Bytes)
    BY <2>1, <2>5, ConcatProperties DEF Typed
  <2> HIDE DEF w
  <2> QED BY <1>5, <2>6 DEF WriteSome, Typed
<1>6. CASE WriteEintr
  BY <1>6, Counted DEF WriteEintr, Typed
<1>7. CASE WriteFails
  BY <1>7, Counted DEF WriteFails, Typed
<1>8. CASE Arrive
  <2>1. Head(tx) \in Bytes /\ Tail(tx) \in Seq(Bytes)
    BY <1>8, HeadTailProperties DEF Arrive, Typed, NoBytes
  <2>2. rx \in Seq(Bytes) /\ rx' = Append(rx, Head(tx))
    BY <1>8 DEF Arrive, Typed
  <2>3. rx' \in Seq(Bytes) /\ rx' # NoBytes
    BY <2>1, <2>2, AppendProperties DEF NoBytes
  <2>4. tx' \in Seq(Bytes) /\ quiet' \in 0..FrameGap
    BY <1>8, <2>1, NumFacts DEF Arrive
  <2> QED BY <1>8, <2>3, <2>4 DEF Arrive, Typed
<1>9. CASE ReadBegins
  <2>1. /\ timer' \in 0..FirstWait /\ deadline' \in 0..FirstWait
        /\ result' = NoBytes /\ NoBytes \in Seq(Bytes) /\ Len(NoBytes) = 0
    BY <1>9, ConstFacts DEF ReadBegins, NoBytes
  <2>2. buf = NoBytes
    BY <1>9 DEF ReadBegins, Typed
  <2>3. Len(buf') < MaxLen /\ Len(result') <= MaxLen
    BY <1>9, <2>1, <2>2, ConstFacts DEF ReadBegins
  <2> QED BY <1>9, <2>1, <2>2, <2>3 DEF ReadBegins, Typed
<1>10. CASE SelectReady
  BY <1>10 DEF SelectReady, Typed
<1>11. CASE SelectTimeout
  <2>1. buf \in Seq(Bytes) /\ Len(buf) <= MaxLen /\ rx \in Seq(Bytes)
    BY SMTT(30), <1>11, ConstFacts DEF SelectTimeout, Typed
  <2> QED BY <1>11, <2>1, ReturnTyped DEF SelectTimeout, Typed
<1>12. CASE ReadEintr
  <2>1. timer' \in 0..FirstWait \cup 0..Interval /\ eintr' \in 0..MaxEintr /\ faults' = faults
    <3>1. timer' \in {Interval, FirstWait}
      BY <1>12 DEF ReadEintr, NextWait
    <3> QED BY <1>12, <3>1, Counted, NumFacts DEF ReadEintr
  <2> QED BY <1>12, <2>1 DEF ReadEintr, Typed
<1>13. CASE ReadSome
  <2>1. /\ rx' \in Seq(Bytes) /\ buf \o Taken \in Seq(Bytes)
        /\ Len(buf \o Taken) <= MaxLen /\ buf \o Taken # NoBytes
    BY <1>13, TakenIs DEF ReadSome, Typed
  <2>2. CASE Len(buf \o Taken) >= MaxLen
    BY <1>13, <2>1, <2>2, ReturnTyped DEF ReadSome, Typed
  <2>3. CASE ~(Len(buf \o Taken) >= MaxLen)
    <3>1. timer' \in 0..Interval
      BY <1>13, <2>3, ConstFacts DEF ReadSome, NextWait
    <3>2. /\ buf' = buf \o Taken /\ have_first_byte' = TRUE /\ pc' = "waiting"
          /\ UNCHANGED <<busy, deadline, result, gone, opening, writer, quiet, lost, counts>>
      BY <1>13, <2>3 DEF ReadSome
    <3>3. Len(buf') < MaxLen
      <4>1. Len(buf \o Taken) \in Nat
        BY <2>1
      <4> QED BY <2>3, <3>2, <4>1, ConstFacts
    <3>4. port = "open" /\ result = NoBytes
      BY <1>13 DEF ReadSome, Typed
    <3> QED BY <2>1, <3>1, <3>2, <3>3, <3>4 DEF Typed
  <2> QED BY <2>2, <2>3
<1>19. CASE ReadNone
  <2>1. buf \in Seq(Bytes) /\ Len(buf) <= MaxLen /\ rx \in Seq(Bytes)
    BY SMTT(30), <1>19, ConstFacts DEF ReadNone, Typed
  <2>2. faults' \in 0..MaxFaults /\ eintr' \in 0..MaxEintr
    BY <1>19, ConstFacts DEF ReadNone, Failure, Typed
  <2> QED BY <1>19, <2>1, <2>2, ReturnTyped DEF ReadNone
<1>14. CASE ReadFails
  <2>1. buf \in Seq(Bytes) /\ gone \in Seq(Bytes)
    BY DEF Typed
  <2>2. gone' \in Seq(Bytes)
    BY <1>14, <2>1, ConcatProperties DEF ReadFails
  <2>3. lost' \in SUBSET Bytes
    BY <1>14, <2>1 DEF ReadFails, Typed, ToSet
  <2>4. /\ busy' \in 0..MaxBusy /\ timer' \in 0..FirstWait /\ deadline' \in 0..FirstWait
        /\ buf' = NoBytes /\ buf' \in Seq(Bytes) /\ result' = NoBytes
        /\ Len(result') <= MaxLen /\ result' \in Seq(Bytes)
        /\ faults' \in 0..MaxFaults /\ eintr' = eintr
    BY SMTT(30), <1>14, ConstFacts DEF ReadFails, NoBytes, Fault, Failure, Typed
  <2> QED BY <1>14, <2>2, <2>3, <2>4 DEF ReadFails, Typed
<1>15. CASE ReadFile
  <2>1. /\ rx' \in Seq(Bytes) /\ buf \o Taken \in Seq(Bytes)
        /\ Len(buf \o Taken) <= MaxLen /\ (rx # NoBytes => buf \o Taken # NoBytes)
        /\ pc = "waiting" /\ port = "open" /\ result = NoBytes
    BY <1>15, TakenIs DEF ReadFile, Typed
  <2>2. CASE Return(buf \o Taken)
    BY <1>15, <2>1, <2>2, ReturnTyped DEF ReadFile, Typed
  <2>3. CASE /\ rx # NoBytes /\ Len(buf \o Taken) < MaxLen
             /\ buf' = buf \o Taken /\ have_first_byte' = TRUE
             /\ timer' = Interval
             /\ UNCHANGED <<pc, busy, deadline, result, gone>>
    <3>1. timer' \in 0..Interval
      BY <2>3, ConstFacts
    <3> QED BY <1>15, <2>1, <2>3, <3>1 DEF ReadFile, Typed
  <2> QED BY <1>15, <2>2, <2>3 DEF ReadFile
<1>16. CASE Drain
  <2>1. /\ result' = NoBytes /\ result' \in Seq(Bytes) /\ Len(result') <= MaxLen
    BY <1>16, ConstFacts DEF Drain, NoBytes
  <2> QED BY <1>16, <2>1, FlushTyped DEF Drain, Typed
<1>17. CASE Tick
  <2>1. /\ timer' \in 0..FirstWait \cup 0..Interval /\ deadline' \in 0..FirstWait
        /\ busy' \in 0..MaxBusy /\ quiet' \in 0..FrameGap
    <3>1. /\ timer \in 0..FirstWait \cup 0..Interval /\ deadline \in 0..FirstWait
          /\ busy \in 0..MaxBusy /\ quiet \in 0..FrameGap
      BY DEF Typed
    <3>2. /\ timer' = Minus1(timer) /\ deadline' = Minus1(deadline)
          /\ busy' = IF busy < MaxBusy THEN busy + 1 ELSE busy
          /\ quiet' = IF quiet < FrameGap THEN quiet + 1 ELSE quiet
      BY <1>17 DEF Tick
    <3>3. busy' \in 0..MaxBusy /\ quiet' \in 0..FrameGap
      BY <3>1, <3>2, NumFacts
    <3>4. ASSUME NEW n \in Nat, NEW x \in 0..n PROVE Minus1(x) \in 0..n
      BY DEF Minus1
    <3>5. timer' \in 0..FirstWait \cup 0..Interval /\ deadline' \in 0..FirstWait
      BY <3>1, <3>2, <3>4, NumFacts
    <3> QED BY <3>3, <3>5
  <2> QED BY <1>17, <2>1 DEF Tick, Typed
<1>18. CASE UNCHANGED vars
  BY <1>18 DEF Typed, vars
<1> QED BY <1>1, <1>2, <1>3, <1>4, <1>5, <1>6, <1>7, <1>8, <1>9, <1>10, <1>11,
           <1>12, <1>13, <1>14, <1>15, <1>16, <1>17, <1>18, <1>19
        DEF Next, Opens, Writes, Reads

\* What was written of a frame grows while it is written, and stays as it is.
LEMMA PaperStep ==
  ASSUME SerialPortAssumption, Typed, Paper, [Next]_vars
  PROVE  Paper'
<1> USE DEF opening, reading, writer, counts
<1>0. CASE UNCHANGED <<frame, written>>
  BY <1>0 DEF Paper
<1>1. CASE StartWrite
  <2>1. frame < Len(FrameLen) /\ frame' = frame + 1 /\ written' = written
    BY <1>1 DEF StartWrite
  <2>2. frame \in 0..Len(FrameLen) /\ frame' \in 0..Len(FrameLen)
    BY <2>1, ConstFacts DEF Paper
  <2>3. \A f \in Frames : f > frame' => f > frame
    BY <2>1, <2>2, ConstFacts
  <2> QED BY <2>1, <2>2, <2>3 DEF Paper
<1>2. CASE ~Between /\ \E n \in 1..(FrameLen[frame] - written[frame].n) :
              LET w == written[frame].n + n
              IN /\ written' = [written EXCEPT ![frame] =
                                  [n |-> w, done |-> WriteEnds(w)]]
                 /\ frame' = frame
  <2>1. PICK n \in 1..(FrameLen[frame] - written[frame].n) :
          /\ written' = [written EXCEPT ![frame] =
               [n |-> written[frame].n + n,
                done |-> WriteEnds(written[frame].n + n)]]
          /\ frame' = frame
    BY <1>2
  <2>2. frame \in Frames /\ written[frame].n \in Nat /\ FrameLen[frame] \in Nat
        /\ frame \in Nat
    <3>1. frame \in 0..Len(FrameLen) /\ frame # 0
      BY <1>2 DEF Between, Paper
    <3>2. frame \in Frames
      BY <3>1, ConstFacts
    <3> QED BY <3>1, <3>2, ConstFacts DEF Paper
  <2> DEFINE w == written[frame].n + n
             full == WriteEnds(w)
             e == [n |-> w, done |-> full]
  <2>3. /\ e \in [n : Nat, done : BOOLEAN] /\ e.n <= FrameLen[frame]
        /\ e.n = FrameLen[frame] => e.done
    <3>1. w \in Nat /\ w <= FrameLen[frame] /\ full \in BOOLEAN
      BY <2>2 DEF WriteEnds
    <3>2. w = FrameLen[frame] => full
      BY DEF WriteEnds
    <3> HIDE DEF w, full
    <3>3. e \in [n : Nat, done : BOOLEAN] /\ e.n = w /\ e.done = full
      BY <3>1
    <3> HIDE DEF e
    <3> QED BY <3>1, <3>2, <3>3
  <2> HIDE DEF e
  <2>4. /\ written' = [written EXCEPT ![frame] = e]
        /\ written \in [Frames -> [n : Nat, done : BOOLEAN]]
    BY <2>1 DEF e, Paper
  <2>5. /\ written' \in [Frames -> [n : Nat, done : BOOLEAN]]
        /\ \A f \in Frames : written'[f] = IF f = frame THEN e ELSE written[f]
    BY <2>2, <2>3, <2>4
  <2>6. ~(frame > frame)
    BY <2>2
  <2> QED BY <2>1, <2>3, <2>5, <2>6 DEF Paper
<1>3. CASE WriteFails
  <2>1. frame \in Frames /\ frame \in Nat
    <3>1. frame \in 0..Len(FrameLen) /\ frame # 0
      BY <1>3 DEF WriteFails, Between, Paper
    <3> QED BY <3>1, ConstFacts
  <2>2. /\ written' = [written EXCEPT ![frame].done = TRUE] /\ frame' = frame
        /\ written \in [Frames -> [n : Nat, done : BOOLEAN]]
    BY <1>3 DEF WriteFails, Paper
  <2>3. /\ written' \in [Frames -> [n : Nat, done : BOOLEAN]]
        /\ \A f \in Frames : /\ written'[f].n = written[f].n
                             /\ f # frame => written'[f] = written[f]
        /\ written'[frame].done = TRUE
    BY <2>1, <2>2
  <2>4. ~(frame > frame)
    BY <2>1
  <2> QED BY <2>2, <2>3, <2>4 DEF Paper
<1>4. CASE WriteSome
  BY <1>2, <1>4 DEF WriteSome
<1>5. CASE Opens \/ Arrive \/ Tick \/ WriteEintr
  BY <1>0, <1>5 DEF Opens, OpenFd, OpenSettings, Close, Arrive, Tick, WriteEintr
<1>6. CASE Reads
  BY <1>0, <1>6 DEF Reads, ReadBegins, SelectReady, SelectTimeout, ReadEintr,
                    ReadSome, ReadNone, ReadFails, ReadFile, Drain, Return
<1>7. CASE UNCHANGED vars
  BY <1>0, <1>7 DEF vars
<1> QED BY <1>1, <1>3, <1>4, <1>5, <1>6, <1>7 DEF Next, Writes

\* A port that was never opened holds nothing.
LEMMA InitTyped ==
  ASSUME SerialPortAssumption, Init
  PROVE  Typed /\ Paper
<1>1. Typed
  <2>1. /\ NoBytes \in Seq(Bytes) /\ Len(NoBytes) = 0 /\ {} \in SUBSET Bytes
        /\ 0 \in 0..MaxBusy /\ 0 \in 0..FirstWait /\ 0 \in 0..MaxEintr
        /\ 0 \in 0..MaxFaults /\ FrameGap \in 0..FrameGap /\ 0 <= MaxLen
    BY NumFacts DEF NoBytes
  <2> QED BY <2>1 DEF Init, Typed
<1>2. written \in [Frames -> [n : Nat, done : BOOLEAN]]
  BY DEF Init
<1>3. \A f \in Frames : written[f] = [n |-> 0, done |-> FALSE] /\ FrameLen[f] > 0
  BY ConstFacts DEF Init
<1>4. \A f \in Frames : /\ written[f].n <= FrameLen[f]
                        /\ written[f].n = FrameLen[f] => written[f].done
  BY <1>3, ConstFacts
<1>5. frame \in 0..Len(FrameLen)
  BY ConstFacts DEF Init
<1> QED BY <1>1, <1>2, <1>3, <1>4, <1>5 DEF Paper

\* The port keeps its types, and its history what write() has accepted.
THEOREM PortTyped == SerialPortAssumption => (Spec => [](Typed /\ Paper))
<1> SUFFICES ASSUME SerialPortAssumption PROVE Spec => [](Typed /\ Paper)
  OBVIOUS
<1>1. Init => Typed /\ Paper
  BY InitTyped
<1>2. Typed /\ Paper /\ [Next]_vars => (Typed /\ Paper)'
  BY TypedStep, PaperStep
<1> QED BY <1>1, <1>2, PTL DEF Spec

\* Only ReadFile's total timeout and a read() of 0 bytes cut a read short, behind
\* a byte it gives.
LEMMA CutStep ==
  ASSUME SerialPortAssumption, Typed, cut \subseteq Bytes, [Next]_vars
  PROVE  cut \subseteq cut' /\ cut' \subseteq Bytes
<1> USE DEF counts
<1>0. ASSUME NEW b \in Seq(Bytes) PROVE EndOf(b) \subseteq Bytes
  <2>1. \A i \in {Len(b)} \ {0} : b[i] \in Bytes
    OBVIOUS
  <2> QED BY <2>1 DEF EndOf
<1>1. CASE ReadFile
  <2>1. buf \o Taken \in Seq(Bytes)
    BY <1>1, TakenIs DEF ReadFile
  <2>2. EndOf(buf \o Taken) \subseteq Bytes
    BY <1>0, <2>1
  <2>3. cut' = cut \/ cut' = cut \cup EndOf(buf \o Taken)
    BY <1>1 DEF ReadFile
  <2> QED BY <1>1, <2>2, <2>3 DEF ReadFile
<1>3. CASE ReadNone
  <2>1. EndOf(buf) \subseteq Bytes
    BY <1>0 DEF Typed
  <2> QED BY <1>3, <2>1 DEF ReadNone
<1>2. CASE ~ReadFile /\ ~ReadNone
  <2>1. CASE Opens
    BY <2>1 DEF Opens, OpenFd, OpenSettings, Close, Fault
  <2>2. CASE Writes
    BY <2>2 DEF Writes, StartWrite, WriteSome, WriteEintr, WriteFails, Signal, Fault
  <2>3. CASE Reads
    BY <1>2, <2>3 DEF Reads, ReadBegins, SelectReady, SelectTimeout, ReadEintr, ReadSome,
                      ReadFails, Drain, Signal, Fault
  <2>4. CASE Arrive \/ Tick \/ UNCHANGED vars
    BY <2>4 DEF Arrive, Tick, vars
  <2> QED BY <2>1, <2>2, <2>3, <2>4 DEF Next
<1> QED BY <1>1, <1>2, <1>3

\* What is cut are bytes of the frames.
LEMMA CutTyped == SerialPortAssumption => (Spec => [](cut \subseteq Bytes))
<1> SUFFICES ASSUME SerialPortAssumption PROVE Spec => [](cut \subseteq Bytes)
  OBVIOUS
<1>1. Init => cut \subseteq Bytes
  BY DEF Init
<1>2. Typed /\ cut \subseteq Bytes /\ [Next]_vars => (cut \subseteq Bytes)'
  BY CutStep
<1> QED BY <1>1, <1>2, PortTyped, PTL DEF Spec

\* The types of the port, of a read and of a write, on either platform: no
\* buffer overruns, and a read in progress has room left for a byte.
THEOREM TypeCorrect == SerialPortAssumption => (Spec => []TypeOK)
<1> SUFFICES ASSUME SerialPortAssumption PROVE Spec => []TypeOK
  OBVIOUS
<1>1. Typed /\ Paper /\ cut \subseteq Bytes => TypeOK
  <2> SUFFICES ASSUME Typed, Paper, cut \subseteq Bytes PROVE TypeOK
    OBVIOUS
  <2>1. Len(buf) <= MaxLen /\ fds \in 0..1
    BY SMTT(30), NumFacts DEF Typed, NoBytes
  <2>2. ToSet(rx) \cup ToSet(tx) \cup ToSet(result) \cup lost \subseteq Bytes
    BY DEF Typed, ToSet
  <2>3. frame \in 0..Len(FrameLen)
    BY DEF Paper
  <2> QED BY <2>1, <2>2, <2>3 DEF Typed, TypeOK
<1> QED BY <1>1, CutTyped, PortTyped, PTL

\* A descriptor is held exactly while the port is open or being opened.
THEOREM NoLeak == SerialPortAssumption => (Spec => []NoDescriptorLeaks)
<1> SUFFICES ASSUME SerialPortAssumption PROVE Spec => []NoDescriptorLeaks
  OBVIOUS
<1>1. Typed /\ Paper => NoDescriptorLeaks
  BY DEF Typed, NoDescriptorLeaks
<1> QED BY <1>1, PortTyped, PTL

-----------------------------------------------------------------------------
(***************************************************************************)
(* The stream.                                                             *)
(***************************************************************************)
\* What bytes do when they move: concatenation is associative, and nothing is
\* its identity.
LEMMA Glue ==
  /\ \A x, y, z \in Seq(Bytes) : x \o (y \o z) = (x \o y) \o z
  /\ \A x \in Seq(Bytes) : x \o NoBytes = x /\ NoBytes \o x = x
  /\ \A x, y \in Seq(Bytes) : x \o y \in Seq(Bytes)
  /\ NoBytes \in Seq(Bytes)
<1>1. \A x, y, z \in Seq(Bytes) : x \o (y \o z) = (x \o y) \o z
  OBVIOUS
<1>2. \A x \in Seq(Bytes) : x \o NoBytes = x /\ NoBytes \o x = x
  BY ConcatEmptySeq DEF NoBytes
<1>3. \A x, y \in Seq(Bytes) : x \o y \in Seq(Bytes)
  BY ConcatProperties
<1> QED BY <1>1, <1>2, <1>3 DEF NoBytes

\* What write() has accepted of each frame.
Accepted == [f \in Frames |-> BytesOf(f, written[f].n)]

\* What write() has accepted of each frame is a sequence of bytes.
LEMMA AcceptedIs ==
  ASSUME SerialPortAssumption, Paper
  PROVE  Accepted \in [1..Len(FrameLen) -> Seq(Bytes)]
<1> SUFFICES ASSUME NEW f \in Frames PROVE BytesOf(f, written[f].n) \in Seq(Bytes)
  BY ConstFacts DEF Accepted
<1>1. written[f].n \in 0..FrameLen[f]
  BY ConstFacts DEF Paper
<1> QED BY <1>1, BytesAreBytes

\* The bytes a write adds follow those it has written of the frame.
LEMMA Continues ==
  ASSUME SerialPortAssumption, NEW f \in Frames, NEW n \in Nat,
         NEW w \in n..FrameLen[f]
  PROVE  BytesOf(f, w) = BytesOf(f, n) \o SubSeq(BytesOf(f, w), n + 1, w)
<1>1. FrameLen[f] \in Nat /\ w \in 0..FrameLen[f] /\ n \in 0..FrameLen[f] /\ n \in 0..w
  BY ConstFacts
<1> DEFINE b == BytesOf(f, w)
<1>2. b \in Seq(Bytes) /\ Len(b) = w
  BY <1>1, BytesAreBytes
<1>3. 1 \in 1..Len(b) + 1 /\ n \in 1 - 1..Len(b) /\ w \in n..Len(b)
  BY <1>1, <1>2
<1>4. BytesOf(f, n) = SubSeq(b, 1, n)
  <2>1. \A i \in 1..n : b[i] = <<f, i>>
    BY <1>1 DEF BytesOf
  <2>2. SubSeq(b, 1, n) = [i \in 1..n |-> b[i]]
    <3> HIDE DEF b
    <3> QED BY <1>1, <1>2
  <2> QED BY <2>1, <2>2 DEF BytesOf
<1> HIDE DEF b
<1>5. SubSeq(b, 1, n) \o SubSeq(b, n + 1, w) = SubSeq(b, 1, w)
  BY <1>2, <1>3, ConcatAdjacentSubSeq
<1>6. SubSeq(b, 1, w) = b
  BY <1>2, SubSeqFull
<1> QED BY <1>4, <1>5, <1>6 DEF b

\* FlattenGrows of the bytes on the line.
LEMMA StreamGrows ==
  \A n \in Nat : \A k \in 1 .. n, p \in Seq(Bytes), s, t \in [1 .. n -> Seq(Bytes)] :
    (/\ t[k] = s[k] \o p
     /\ \A i \in 1 .. k - 1 : t[i] = s[i]
     /\ \A i \in k + 1 .. n : s[i] = <<>> /\ t[i] = <<>>)
    => FlattenSeq(t) = FlattenSeq(s) \o p
BY FlattenGrows, Zenon

\* A write adds at the end of the stream what it adds to the frame.
LEMMA WriteAdds ==
  ASSUME SerialPortAssumption, Typed, Paper, Paper', WriteSome
  PROVE  \E p \in Seq(Bytes) : /\ tx' = tx \o p
                               /\ FlattenSeq(Accepted') = FlattenSeq(Accepted) \o p
<1>1. PICK m \in 1..(FrameLen[frame] - written[frame].n) :
        LET w == written[frame].n + m IN
        /\ tx' = tx \o SubSeq(BytesOf(frame, w), written[frame].n + 1, w)
        /\ written' = [written EXCEPT ![frame] = [n |-> w, done |-> WriteEnds(w)]]
  BY DEF WriteSome
<1> DEFINE n == written[frame].n
           w == n + m
           p == SubSeq(BytesOf(frame, w), n + 1, w)
<1>2. frame \in Frames /\ n \in Nat /\ FrameLen[frame] \in Nat /\ frame \in Nat
      /\ frame \in 1..Len(FrameLen)
  <2>1. frame \in 0..Len(FrameLen) /\ frame # 0
    BY DEF WriteSome, Between, Paper
  <2>2. frame \in Frames
    BY <2>1, ConstFacts
  <2> QED BY <2>1, <2>2, ConstFacts DEF Paper
<1>3. w \in n..FrameLen[frame] /\ w \in 0..FrameLen[frame] /\ w \in Nat
  BY <1>2
<1>4. BytesOf(frame, w) = BytesOf(frame, n) \o p
  BY <1>2, <1>3, Continues
<1>5. p \in Seq(Bytes)
  <2>1. BytesOf(frame, w) \in Seq(Bytes) /\ Len(BytesOf(frame, w)) = w
    BY <1>2, <1>3, BytesAreBytes
  <2> HIDE DEF w, n
  <2> QED BY <1>2, <1>3, <2>1
<1>6. written'[frame].n = w /\ \A f \in Frames : f # frame => written'[f] = written[f]
  <2>1. written \in [Frames -> [n : Nat, done : BOOLEAN]]
    BY DEF Paper
  <2> QED BY <1>1, <1>2, <2>1
<1> DEFINE s == Accepted
           t == [f \in Frames |-> BytesOf(f, written'[f].n)]
<1>7. s \in [1..Len(FrameLen) -> Seq(Bytes)] /\ t \in [1..Len(FrameLen) -> Seq(Bytes)]
  <2>1. \A f \in Frames : written'[f].n \in 0..FrameLen[f]
    BY ConstFacts DEF Paper
  <2>2. \A f \in Frames : BytesOf(f, written'[f].n) \in Seq(Bytes)
    BY <2>1, BytesAreBytes
  <2> QED BY <2>2, AcceptedIs, ConstFacts
<1>8. t[frame] = s[frame] \o p
  BY <1>2, <1>4, <1>6 DEF Accepted
<1>9. \A i \in 1..frame - 1 : t[i] = s[i]
  <2>1. \A i \in 1..frame - 1 : i \in Frames /\ i # frame
    BY <1>2, ConstFacts
  <2> QED BY <1>6, <2>1 DEF Accepted
<1>10. \A i \in frame + 1..Len(FrameLen) : s[i] = <<>> /\ t[i] = <<>>
  <2> TAKE i \in frame + 1..Len(FrameLen)
  <2>1. i \in Frames /\ i # frame /\ i > frame
    BY <1>2, ConstFacts
  <2>2. written[i].n = 0 /\ written'[i].n = 0
    BY <1>6, <2>1 DEF Paper
  <2>3. BytesOf(i, 0) = <<>>
    BY DEF BytesOf
  <2> QED BY <2>1, <2>2, <2>3 DEF Accepted
<1> HIDE DEF s, t, p, w, n
<1>11. FlattenSeq(t) = FlattenSeq(s) \o p
  <2>1. Len(FrameLen) \in Nat
    BY ConstFacts
  <2> QED BY ONLY <1>2, <1>5, <1>7, <1>8, <1>9, <1>10, <2>1, StreamGrows, Zenon
<1>12. tx' = tx \o p
  BY <1>1 DEF p, w, n
<1>13. Accepted' = t
  BY DEF Accepted, t
<1> QED BY <1>5, <1>11, <1>12, <1>13 DEF s

\* No step of the port, the line or their faults repeats, skips or reorders a
\* byte.
LEMMA StreamStep ==
  ASSUME SerialPortAssumption, Typed, Paper, Paper', StreamIntact, [Next]_vars
  PROVE  StreamIntact'
<1> USE DEF opening, reading, writer, counts
<1> DEFINE stream == gone \o buf \o rx \o tx
<1>t. /\ gone \in Seq(Bytes) /\ buf \in Seq(Bytes) /\ rx \in Seq(Bytes)
      /\ tx \in Seq(Bytes)
  BY DEF Typed
<1>s. StreamIntact <=> stream = FlattenSeq(Accepted)
  BY DEF StreamIntact, Accepted
<1>p. StreamIntact' <=> stream' = FlattenSeq(Accepted')
  BY DEF StreamIntact, Accepted
<1>u. ASSUME written' = written PROVE Accepted' = Accepted
  BY <1>u DEF Accepted
<1>0. CASE UNCHANGED <<gone, buf, rx, tx>> /\ \A f \in Frames : written'[f].n = written[f].n
  <2>1. Accepted' = Accepted
    BY <1>0 DEF Accepted
  <2>2. stream' = stream
    BY <1>0
  <2> HIDE DEF stream
  <2> QED BY <1>s, <1>p, <2>1, <2>2
<1>1. ASSUME written' = written, stream' = stream PROVE StreamIntact'
  <2>1. Accepted' = Accepted
    BY <1>1, <1>u
  <2> HIDE DEF stream
  <2> QED BY <1>1, <1>s, <1>p, <2>1
<1>2. CASE WriteSome
  <2>1. PICK p \in Seq(Bytes) : /\ tx' = tx \o p
                                /\ FlattenSeq(Accepted') = FlattenSeq(Accepted) \o p
    BY <1>2, WriteAdds
  <2>2. gone' = gone /\ buf' = buf /\ rx' = rx
    BY <1>2 DEF WriteSome
  <2>3. gone \o buf \o rx \in Seq(Bytes)
    BY <1>t, Glue
  <2>4. (gone \o buf \o rx) \o (tx \o p) = ((gone \o buf \o rx) \o tx) \o p
    BY ONLY <1>t, <2>3, p \in Seq(Bytes), SMTT(30)
  <2>5. stream' = stream \o p
    BY <2>1, <2>2, <2>4
  <2> HIDE DEF stream
  <2> QED BY <1>s, <1>p, <2>1, <2>5
<1>3. CASE Flush /\ UNCHANGED <<buf, tx, written>> /\ buf = NoBytes
  <2>1. gone' = gone \o rx /\ rx' = NoBytes
    BY <1>3 DEF Flush
  <2>2. gone \o rx \in Seq(Bytes)
    BY <1>t, Glue
  <2>3. (gone \o rx) \o NoBytes = gone \o rx /\ gone \o NoBytes = gone
    BY <1>t, <2>2, Glue
  <2>4. stream' = stream
    BY <1>3, <2>1, <2>3
  <2> HIDE DEF stream
  <2> QED BY <1>1, <1>3, <2>4
<1>4. CASE Return(buf) /\ UNCHANGED <<rx, tx, written>>
  <2>1. gone' = gone \o buf /\ buf' = NoBytes /\ rx' = rx /\ tx' = tx
    BY <1>4 DEF Return
  <2>2. gone \o buf \in Seq(Bytes)
    BY <1>t, Glue
  <2>3. (gone \o buf) \o NoBytes = gone \o buf
    BY <2>2, Glue
  <2>4. stream' = stream
    BY <2>1, <2>3
  <2> HIDE DEF stream
  <2> QED BY <1>1, <1>4, <2>4
<1>5. CASE /\ pc \in {"waiting", "reading"}
           /\ rx' = SubSeq(rx, Len(Taken) + 1, Len(rx)) /\ UNCHANGED <<tx, written>>
           /\ Return(buf \o Taken) \/ (buf' = buf \o Taken /\ gone' = gone)
  <2>1. Taken \in Seq(Bytes) /\ rx' \in Seq(Bytes) /\ rx = Taken \o rx'
    BY <1>5, TakenIs
  <2>2. /\ gone \o (buf \o Taken) \o rx' \o tx = stream
        /\ gone \o (buf \o Taken) \o NoBytes \o rx' \o tx = stream
    <3>1. gone \o (buf \o Taken) = (gone \o buf) \o Taken
      BY ONLY <1>t, <2>1, SMTT(30)
    <3>2. gone \o buf \in Seq(Bytes) /\ (gone \o buf) \o Taken \in Seq(Bytes)
      BY ONLY <1>t, <2>1
    <3>3. ((gone \o buf) \o Taken) \o rx' = (gone \o buf) \o (Taken \o rx')
      <4>1. Taken \in Seq(Bytes) /\ rx' \in Seq(Bytes)
        BY <2>1
      <4> QED BY ONLY <3>2, <4>1
    <3>4. ((gone \o buf) \o Taken) \o NoBytes = (gone \o buf) \o Taken
      BY <3>2, Glue
    <3> QED BY <2>1, <3>1, <3>3, <3>4
  <2>3. stream' = stream
    BY <1>5, <2>2 DEF Return
  <2> HIDE DEF stream
  <2> QED BY <1>1, <1>5, <2>3
<1>6. CASE ReadFails
  <2>1. /\ gone' = gone \o buf /\ buf' = NoBytes /\ rx' = rx /\ tx' = tx
        /\ written' = written
    BY <1>6 DEF ReadFails
  <2>2. gone \o buf \in Seq(Bytes)
    BY <1>t, Glue
  <2>3. (gone \o buf) \o NoBytes = gone \o buf
    BY <2>2, Glue
  <2>4. stream' = stream
    BY <2>1, <2>3
  <2> HIDE DEF stream
  <2> QED BY <1>1, <2>1, <2>4
<1>7. CASE Arrive
  <2>1. /\ tx # NoBytes /\ rx' = Append(rx, Head(tx)) /\ tx' = Tail(tx)
        /\ gone' = gone /\ buf' = buf /\ written' = written
    BY <1>7 DEF Arrive
  <2>2. Head(tx) \in Bytes /\ Tail(tx) \in Seq(Bytes) /\ tx = <<Head(tx)>> \o Tail(tx)
    BY <1>t, <2>1 DEF NoBytes
  <2>3. rx' = rx \o <<Head(tx)>> /\ <<Head(tx)>> \in Seq(Bytes)
    BY <1>t, <2>1, <2>2, AppendIsConcat
  <2>4. gone \o buf \in Seq(Bytes) /\ (gone \o buf) \o rx \in Seq(Bytes)
    BY <1>t, Glue
  <2>5. (gone \o buf) \o (rx \o <<Head(tx)>>) = ((gone \o buf) \o rx) \o <<Head(tx)>>
    <3>1. \A h \in Seq(Bytes) : (gone \o buf) \o (rx \o h) = ((gone \o buf) \o rx) \o h
      BY ZenonT(30), <1>t, <2>4, Glue
    <3> QED BY <2>3, <3>1, Zenon
  <2>6. (((gone \o buf) \o rx) \o <<Head(tx)>>) \o Tail(tx)
          = ((gone \o buf) \o rx) \o (<<Head(tx)>> \o Tail(tx))
    <3>1. \A h, l \in Seq(Bytes) :
             (((gone \o buf) \o rx) \o h) \o l = ((gone \o buf) \o rx) \o (h \o l)
      BY ONLY <2>4, SMTT(30)
    <3> QED BY <2>2, <2>3, <3>1, Zenon
  <2>7. stream' = stream
    BY <2>1, <2>2, <2>3, <2>5, <2>6
  <2> HIDE DEF stream
  <2> QED BY <1>1, <2>1, <2>7
<1>8. CASE OpenSettings
  <2>1. buf = NoBytes
    BY <1>8 DEF OpenSettings, Typed
  <2> QED BY <1>0, <1>3, <1>8, <2>1 DEF OpenSettings
<1>9. CASE Drain
  BY <1>3, <1>9 DEF Drain, Typed
<1>10. CASE SelectTimeout \/ ReadNone
  BY <1>4, <1>10 DEF SelectTimeout, ReadNone
<1>11. CASE ReadSome
  BY <1>5, <1>11 DEF ReadSome
<1>12. CASE ReadFile
  BY <1>5, <1>12 DEF ReadFile
<1>13. CASE WriteFails
  <2>1. written' = [written EXCEPT ![frame].done = TRUE]
    BY <1>13 DEF WriteFails
  <2>2. \A f \in Frames : written'[f].n = written[f].n
    BY <2>1 DEF Paper
  <2> QED BY <1>0, <1>13, <2>2 DEF WriteFails
<1>14. CASE OpenFd \/ Close \/ StartWrite \/ WriteEintr \/ ReadBegins
            \/ SelectReady \/ ReadEintr \/ Tick \/ UNCHANGED vars
  BY <1>0, <1>14 DEF OpenFd, Close, StartWrite, WriteEintr, ReadBegins, SelectReady,
                     ReadEintr, Tick, vars
<1> QED BY <1>2, <1>6, <1>7, <1>8, <1>9, <1>10, <1>11, <1>12, <1>13, <1>14
        DEF Next, Opens, Writes, Reads

\* What write() accepts of frames of any number and length reaches the
\* reader's side once and in order, whatever fails or is interrupted.
THEOREM NoByteLost == SerialPortAssumption => (Spec => []StreamIntact)
<1> SUFFICES ASSUME SerialPortAssumption PROVE Spec => []StreamIntact
  OBVIOUS
<1>1. Init => StreamIntact
  <2> SUFFICES ASSUME Init PROVE StreamIntact
    OBVIOUS
  <2>1. Accepted \in [1..Len(FrameLen) -> {<<>>}]
    <3>1. \A f \in Frames : BytesOf(f, written[f].n) = <<>>
      BY DEF Init, BytesOf
    <3> QED BY <3>1, ConstFacts DEF Accepted
  <2>2. FlattenSeq(Accepted) = <<>>
    BY <2>1, ConstFacts, FlattenNothing
  <2>3. gone \o buf \o rx \o tx = <<>>
    BY Glue DEF Init, NoBytes
  <2> QED BY <2>2, <2>3 DEF StreamIntact, Accepted
<1>2. Typed /\ Paper /\ Paper' /\ StreamIntact /\ [Next]_vars => StreamIntact'
  BY StreamStep
<1> QED BY <1>1, <1>2, PortTyped, PTL DEF Spec

-----------------------------------------------------------------------------
(***************************************************************************)
(* Pieces of a frame.                                                      *)
(***************************************************************************)
\* A function on 1..n is a sequence of length n.
LEMMA FnIsSeq ==
  ASSUME NEW T, NEW n \in Nat, NEW s \in [1..n -> T]
  PROVE  s \in Seq(T) /\ Len(s) = n
  OBVIOUS

\* A piece has the bytes it says, and as many.
LEMMA SegIs ==
  ASSUME NEW f, NEW a \in Nat, NEW b \in Nat, a <= b
  PROVE  /\ Seg(f, a, b) \in Seq({f} \X Nat) /\ Len(Seg(f, a, b)) = b - a
         /\ \A i \in 1..b - a : Seg(f, a, b)[i] = <<f, a + i>>
<1>1. b - a \in Nat
  OBVIOUS
<1> DEFINE s == [i \in 1..b - a |-> <<f, a + i>>]
<1>2. s \in [1..b - a -> {f} \X Nat]
  OBVIOUS
<1>3. \A i \in 1..b - a : s[i] = <<f, a + i>>
  OBVIOUS
<1> HIDE DEF s
<1>4. s \in Seq({f} \X Nat) /\ Len(s) = b - a
  BY <1>1, <1>2, FnIsSeq, Zenon
<1> QED BY <1>3, <1>4 DEF Seg, s

\* A piece is empty if it begins where it ends.
LEMMA SegNone ==
  \A f \in Nat : \A a, b \in Nat : a <= b =>
    (Seg(f, a, b) = NoBytes <=> a = b)
<1> SUFFICES ASSUME NEW f \in Nat, NEW a \in Nat, NEW b \in Nat, a <= b
             PROVE  Seg(f, a, b) = NoBytes <=> a = b
  OBVIOUS
<1> DEFINE s == Seg(f, a, b)
<1>1. s \in Seq({f} \X Nat) /\ Len(s) = b - a
  BY SegIs
<1> HIDE DEF s
<1>2. s = <<>> <=> Len(s) = 0
  BY <1>1
<1> QED BY <1>1, <1>2 DEF NoBytes, s

\* Two pieces, the second of which begins where the first ends, are one.
LEMMA SegJoin ==
  \A f \in Nat : \A a, b, c \in Nat : a <= b /\ b <= c =>
    (Seg(f, a, b) \o Seg(f, b, c) = Seg(f, a, c))
<1> SUFFICES ASSUME NEW f \in Nat, NEW a \in Nat, NEW b \in Nat, NEW c \in Nat, a <= b, b <= c
             PROVE  Seg(f, a, b) \o Seg(f, b, c) = Seg(f, a, c)
  OBVIOUS
<1> DEFINE s == Seg(f, a, b)
           t == Seg(f, b, c)
           u == Seg(f, a, c)
           T == {f} \X Nat
<1>1. /\ s \in Seq(T) /\ Len(s) = b - a /\ \A i \in 1..b - a : s[i] = <<f, a + i>>
      /\ t \in Seq(T) /\ Len(t) = c - b /\ \A i \in 1..c - b : t[i] = <<f, b + i>>
      /\ u \in Seq(T) /\ Len(u) = c - a /\ \A i \in 1..c - a : u[i] = <<f, a + i>>
  <2>1. a <= c
    OBVIOUS
  <2> QED BY <2>1, SegIs
<1> HIDE DEF s, t, u, T
<1>2. s \o t \in Seq(T) /\ Len(s \o t) = c - a
  <2>1. s \o t \in Seq(T) /\ Len(s \o t) = Len(s) + Len(t)
    BY <1>1, ConcatProperties, Zenon
  <2>2. (b - a) + (c - b) = c - a
    OBVIOUS
  <2> QED BY <1>1, <2>1, <2>2
<1>3. \A i \in 1..c - a : (s \o t)[i] = u[i]
  <2> TAKE i \in 1..c - a
  <2>1. CASE i <= b - a
    <3>1. i \in 1..Len(s) /\ (s \o t)[i] = s[i]
      BY <1>1, <2>1, ConcatProperties
    <3> QED BY <1>1, <3>1
  <2>2. CASE i > b - a
    <3>1. i - (b - a) \in 1..c - b /\ b + (i - (b - a)) = a + i
      BY <2>2
    <3>2. (s \o t)[i] = t[i - Len(s)]
      <4>1. i \in Len(s) + 1 .. Len(s) + Len(t) /\ s \in Seq(T) /\ t \in Seq(T)
        BY <1>1, <2>2
      <4> QED BY ONLY <4>1, c \in Nat, a \in Nat, i \in 1..c - a
    <3> QED BY <1>1, <3>1, <3>2
  <2>3. i <= b - a \/ i > b - a
    OBVIOUS
  <2> QED BY <2>1, <2>2, <2>3
<1>4. s \o t = u
  <2>1. Len(s \o t) = Len(u) /\ \A i \in 1..Len(u) : (s \o t)[i] = u[i]
    BY <1>1, <1>2, <1>3
  <2> QED BY <1>1, <1>2, <2>1, SeqEqual
<1> QED BY <1>4 DEF s, t, u

\* What is left when the first byte of a piece is taken.
LEMMA SegHead ==
  \A f \in Nat : \A a, b \in Nat : a < b =>
    (Head(Seg(f, a, b)) = <<f, a + 1>> /\ Tail(Seg(f, a, b)) = Seg(f, a + 1, b))
<1> SUFFICES ASSUME NEW f \in Nat, NEW a \in Nat, NEW b \in Nat, a < b
             PROVE  Head(Seg(f, a, b)) = <<f, a + 1>> /\ Tail(Seg(f, a, b)) = Seg(f, a + 1, b)
  OBVIOUS
<1> DEFINE s == Seg(f, a, b)
           t == Seg(f, a + 1, b)
           T == {f} \X Nat
<1>1. /\ s \in Seq(T) /\ Len(s) = b - a /\ \A i \in 1..b - a : s[i] = <<f, a + i>>
      /\ t \in Seq(T) /\ Len(t) = b - (a + 1)
      /\ \A i \in 1..b - (a + 1) : t[i] = <<f, (a + 1) + i>>
  <2>1. a <= b /\ a + 1 <= b /\ a + 1 \in Nat
    OBVIOUS
  <2> HIDE DEF T
  <2>2. s \in Seq({f} \X Nat) /\ Len(s) = b - a /\ \A i \in 1..b - a : s[i] = <<f, a + i>>
    BY <2>1, SegIs
  <2>3. /\ t \in Seq({f} \X Nat) /\ Len(t) = b - (a + 1)
        /\ \A i \in 1..b - (a + 1) : t[i] = <<f, (a + 1) + i>>
    BY <2>1, SegIs
  <2> QED BY <2>2, <2>3 DEF T
<1> HIDE DEF s, t, T
<1>2. s # <<>> /\ Head(s) = s[1]
  BY <1>1
<1>3. Head(s) = <<f, a + 1>>
  BY <1>1, <1>2
<1>4. Tail(s) \in Seq(T) /\ Len(Tail(s)) = b - (a + 1)
  BY <1>1, <1>2
<1>5. \A i \in 1..Len(t) : Tail(s)[i] = t[i]
  <2> TAKE i \in 1..Len(t)
  <2>1. i + 1 \in 1..b - a /\ i \in 1..b - (a + 1) /\ a + (i + 1) = (a + 1) + i
    BY <1>1
  <2>2. Tail(s)[i] = s[i + 1]
    BY <1>1, <1>2, <1>4, <2>1
  <2> QED BY <1>1, <2>1, <2>2
<1>6. Tail(s) = t
  BY <1>1, <1>4, <1>5, SeqEqual
<1> QED BY <1>3, <1>6 DEF s, t

\* The next byte makes a piece longer by one.
LEMMA SegAppend ==
  \A f \in Nat : \A a, b \in Nat : a <= b =>
    (Append(Seg(f, a, b), <<f, b + 1>>) = Seg(f, a, b + 1))
<1> SUFFICES ASSUME NEW f \in Nat, NEW a \in Nat, NEW b \in Nat, a <= b
             PROVE  Append(Seg(f, a, b), <<f, b + 1>>) = Seg(f, a, b + 1)
  OBVIOUS
<1> DEFINE s == Seg(f, a, b)
           t == Seg(f, a, b + 1)
           T == {f} \X Nat
           e == <<f, b + 1>>
<1>1. /\ s \in Seq(T) /\ Len(s) = b - a /\ \A i \in 1..b - a : s[i] = <<f, a + i>>
      /\ t \in Seq(T) /\ Len(t) = (b + 1) - a
      /\ \A i \in 1..(b + 1) - a : t[i] = <<f, a + i>>
  <2>1. a <= b + 1 /\ b + 1 \in Nat
    OBVIOUS
  <2> HIDE DEF T
  <2>2. s \in Seq({f} \X Nat) /\ Len(s) = b - a /\ \A i \in 1..b - a : s[i] = <<f, a + i>>
    BY SegIs
  <2>3. /\ t \in Seq({f} \X Nat) /\ Len(t) = (b + 1) - a
        /\ \A i \in 1..(b + 1) - a : t[i] = <<f, a + i>>
    BY <2>1, SegIs
  <2> QED BY <2>2, <2>3 DEF T
<1>2. e \in T
  OBVIOUS
<1>3. e = <<f, a + ((b + 1) - a)>>
  OBVIOUS
<1> HIDE DEF s, t, T, e
<1>4. Append(s, e) \in Seq(T) /\ Len(Append(s, e)) = (b + 1) - a
  BY <1>1, <1>2
<1>5. \A i \in 1..Len(t) : Append(s, e)[i] = t[i]
  <2> TAKE i \in 1..Len(t)
  <2>1. CASE i <= b - a
    <3>1. i \in 1..b - a /\ i \in 1..(b + 1) - a
      BY <1>1, <2>1
    <3>2. Append(s, e)[i] = s[i]
      BY <1>1, <1>2, <3>1
    <3> QED BY <1>1, <3>1, <3>2
  <2>2. CASE i > b - a
    <3>1. i = (b + 1) - a /\ i = Len(s) + 1
      BY <1>1, <2>2
    <3>2. Append(s, e)[i] = e
      BY SMTT(30), <1>1, <1>2, <3>1
    <3>3. i \in 1..(b + 1) - a
      BY <3>1
    <3> QED BY <1>1, <1>3, <3>1, <3>2, <3>3
  <2> QED BY <1>1, <2>1, <2>2
<1>6. Append(s, e) = t
  BY <1>1, <1>4, <1>5, SeqEqual
<1> QED BY <1>6 DEF s, t, e

\* SubSeq under a name the provers do not look behind.
Part(s, i, j) == SubSeq(s, i, j)

\* A part of a piece is a piece.
LEMMA SegPart ==
  \A f \in Nat : \A a, b, c, d, i, j \in Nat :
    a <= c /\ c <= d /\ d <= b /\ i = (c - a) + 1 /\ j = d - a =>
      Part(Seg(f, a, b), i, j) = Seg(f, c, d)
<1> SUFFICES ASSUME NEW f \in Nat, NEW a \in Nat, NEW b \in Nat, NEW c \in Nat, NEW d \in Nat,
                    NEW i \in Nat, NEW j \in Nat,
                    a <= c /\ c <= d /\ d <= b /\ i = (c - a) + 1 /\ j = d - a
             PROVE  Part(Seg(f, a, b), i, j) = Seg(f, c, d)
  OBVIOUS
<1> DEFINE s == Seg(f, a, b)
           t == Seg(f, c, d)
           T == {f} \X Nat
<1>1. /\ s \in Seq(T) /\ Len(s) = b - a /\ \A k \in 1..b - a : s[k] = <<f, a + k>>
      /\ t \in Seq(T) /\ Len(t) = d - c /\ \A k \in 1..d - c : t[k] = <<f, c + k>>
  <2>1. a <= b /\ c <= d
    OBVIOUS
  <2> HIDE DEF T
  <2>2. s \in Seq({f} \X Nat) /\ Len(s) = b - a /\ \A k \in 1..b - a : s[k] = <<f, a + k>>
    BY <2>1, SegIs
  <2>3. t \in Seq({f} \X Nat) /\ Len(t) = d - c /\ \A k \in 1..d - c : t[k] = <<f, c + k>>
    BY <2>1, SegIs
  <2> QED BY <2>2, <2>3 DEF T
<1> HIDE DEF s, t, T
<1>2. i \in 1..Len(s) + 1 /\ j \in i - 1..Len(s) /\ j - i + 1 = d - c
  BY <1>1
<1>3. /\ SubSeq(s, i, j) \in Seq(T) /\ Len(SubSeq(s, i, j)) = j - i + 1
      /\ \A k \in 1..j - i + 1 : SubSeq(s, i, j)[k] = s[i + k - 1]
  BY ONLY <1>1, <1>2, i \in Nat, j \in Nat
<1>4. \A k \in 1..d - c : i + k - 1 \in 1..b - a /\ a + (i + k - 1) = c + k
  OBVIOUS
<1>5. \A k \in 1..Len(t) : SubSeq(s, i, j)[k] = t[k]
  <2> TAKE k \in 1..Len(t)
  <2>1. k \in 1..d - c /\ k \in 1..j - i + 1
    BY <1>1, <1>2
  <2>2. SubSeq(s, i, j)[k] = s[i + k - 1] /\ s[i + k - 1] = <<f, a + (i + k - 1)>>
    BY <1>1, <1>3, <1>4, <2>1
  <2> QED BY <1>1, <1>4, <2>1, <2>2
<1>6. SubSeq(s, i, j) = t
  BY <1>1, <1>2, <1>3, <1>5, SeqEqual
<1> QED BY <1>6 DEF s, t, Part

\* The first bytes of a frame are a piece.
LEMMA SegFirst ==
  \A f \in Nat : \A n \in Nat :
    (BytesOf(f, n) = Seg(f, 0, n))
<1> SUFFICES ASSUME NEW f \in Nat, NEW n \in Nat
             PROVE  BytesOf(f, n) = Seg(f, 0, n)
  OBVIOUS
<1>1. n - 0 = n /\ \A i \in 1..n : 0 + i = i
  OBVIOUS
<1> QED BY <1>1 DEF BytesOf, Seg

\* The last byte of a piece is in it.
LEMMA SegLast ==
  \A f \in Nat : \A a, b \in Nat : a < b =>
    (<<f, b>> \in ToSet(Seg(f, a, b)))
<1> SUFFICES ASSUME NEW f \in Nat, NEW a \in Nat, NEW b \in Nat, a < b
             PROVE  <<f, b>> \in ToSet(Seg(f, a, b))
  OBVIOUS
<1> DEFINE s == Seg(f, a, b)
<1>0. a <= b
  OBVIOUS
<1>3. b - a \in 1..b - a
  OBVIOUS
<1>1. Len(s) = b - a /\ s \in Seq({f} \X Nat) /\ s[b - a] = <<f, a + (b - a)>>
  BY <1>0, <1>3, SegIs
<1>2. a + (b - a) = b /\ b - a \in 1..b - a
  OBVIOUS
<1> HIDE DEF s
<1>5. b - a \in DOMAIN s
  BY <1>1, <1>2
<1>4. <<f, b>> \in ToSet(s)
  BY <1>1, <1>2, <1>5 DEF ToSet
<1> QED BY <1>4 DEF s

\* A part of a frame is the bytes between two positions of the frame.
LEMMA SegOfFrame ==
  \A f \in Nat : \A c, a, b, i \in Nat : a <= b /\ b <= c /\ i = a + 1 =>
    Part(BytesOf(f, c), i, b) = Seg(f, a, b)
<1> SUFFICES ASSUME NEW f \in Nat, NEW c \in Nat, NEW a \in Nat, NEW b \in Nat, NEW i \in Nat,
                    a <= b /\ b <= c /\ i = a + 1
             PROVE  Part(BytesOf(f, c), i, b) = Seg(f, a, b)
  OBVIOUS
<1>0. PICK z \in Nat : z = 0
  OBVIOUS
<1>1. PICK l \in Nat : l = b
  OBVIOUS
<1>2. z <= a /\ a <= b /\ b <= c /\ i = (a - z) + 1 /\ l = b - z
  BY <1>0, <1>1
<1>3. Part(Seg(f, z, c), i, l) = Seg(f, a, b)
  BY <1>2, SegPart
<1>4. BytesOf(f, c) = Seg(f, z, c)
  BY <1>0, SegFirst
<1> QED BY <1>1, <1>3, <1>4

\* A caller rejects what is not as long as the frame it is a piece of.
LEMMA PartRejected ==
  ASSUME SerialPortAssumption, NEW f \in Frames, NEW a \in Nat, NEW b \in Nat,
         a < b, b - a # FrameLen[f]
  PROVE  /\ Seg(f, a, b) # NoBytes
         /\ \A g \in Frames : Seg(f, a, b) # BytesOf(g, FrameLen[g])
<1> DEFINE s == Seg(f, a, b)
<1>1. a <= b /\ 1 \in 1..b - a /\ a # b /\ f \in Nat
  BY ConstFacts
<1>2. Len(s) = b - a /\ s[1] = <<f, a + 1>>
  BY <1>1, SegIs
<1>3. s # NoBytes
  BY <1>1, SegNone
<1>4. ASSUME NEW g \in Frames, s = BytesOf(g, FrameLen[g]) PROVE FALSE
  <2>0. PICK z \in Nat : z = 0
    OBVIOUS
  <2>1. g \in Nat /\ FrameLen[g] \in Nat \ {0} /\ z <= FrameLen[g] /\ 1 \in 1..FrameLen[g] - z
    BY SMTT(30), <2>0, ConstFacts
  <2> HIDE DEF s
  <2>2. s = Seg(g, z, FrameLen[g])
    BY <1>4, <2>0, <2>1, SegFirst
  <2>3. Len(Seg(g, z, FrameLen[g])) = FrameLen[g] - z /\ Seg(g, z, FrameLen[g])[1] = <<g, z + 1>>
    <3> DEFINE l == FrameLen[g]
    <3> HIDE DEF l
    <3>1. l \in Nat /\ z <= l /\ 1 \in 1..l - z
      BY <2>1 DEF l
    <3>2. Len(Seg(g, z, l)) = l - z /\ Seg(g, z, l)[1] = <<g, z + 1>>
      BY <3>1, SegIs
    <3> QED BY <3>2 DEF l
  <2>4. g = f
    BY <1>2, <2>2, <2>3
  <2> QED BY <1>2, <2>0, <2>1, <2>2, <2>3, <2>4
<1> QED BY <1>3, <1>4

-----------------------------------------------------------------------------
(***************************************************************************)
(* Time: what is left of the budget.                                       *)
(***************************************************************************)
\* One less of a counter costs one of what it multiplies.
LEMMA OneLess ==
  ASSUME NEW x \in Nat, NEW y \in Nat, NEW z \in 0..x
  PROVE  /\ (x - z) * y \in Nat
         /\ (x - z) * y + y <= (x + 1) * y
         /\ z + 1 <= x => (x - (z + 1)) * y = (x - z) * y - y
<1>1. x - z \in Nat
  OBVIOUS
<1>2. ASSUME NEW u \in Nat, NEW v \in Nat PROVE u * v \in Nat
  OBVIOUS
<1>3. ASSUME NEW u \in Int, NEW v \in Nat
      PROVE  (u - 1) * v = u * v - v /\ (u + 1) * v = u * v + v
  OBVIOUS
<1>4. (x - z) * y \in Nat /\ z * y \in Nat /\ x * y \in Nat
  BY <1>1, <1>2
<1>5. x * y = (x - z) * y + z * y
  <2>1. ASSUME NEW u \in Nat, NEW v \in Nat, NEW w \in Nat PROVE (u + v) * w = u * w + v * w
    OBVIOUS
  <2>2. ((x - z) + z) * y = (x - z) * y + z * y
    BY <1>1, <2>1
  <2>3. (x - z) + z = x
    OBVIOUS
  <2> QED BY <2>2, <2>3
<1>6. (x - z) * y + y <= (x + 1) * y
  <2>1. (x + 1) * y = x * y + y
    BY <1>3
  <2> QED BY <1>4, <1>5, <2>1
<1>7. (x - (z + 1)) * y = (x - z) * y - y
  <2>1. x - (z + 1) = (x - z) - 1 /\ x - z \in Int
    OBVIOUS
  <2>2. ((x - z) - 1) * y = (x - z) * y - y
    BY <1>3, <2>1
  <2> QED BY <2>1, <2>2
<1> QED BY <1>4, <1>6, <1>7

\* What the budget is, and what a fault and a signal take of it.
LEMMA BudgetIs ==
  ASSUME SerialPortAssumption, Typed
  PROVE  /\ Budget \in Nat /\ Silence \in Nat /\ Budget + MaxBusy + Interval <= Silence
         /\ Failure \/ Fault => Budget' = Budget - MaxBusy /\ Budget' \in Nat
         /\ Signal => Budget' = Budget - Interval /\ Budget' \in Nat
         /\ UNCHANGED counts => Budget' = Budget
<1> DEFINE p == (MaxFaults - faults) * MaxBusy
           q == (MaxEintr - eintr) * Interval
           P == (MaxFaults + 1) * MaxBusy
           Q == (MaxEintr + 1) * Interval
<1>1. /\ Interval \in Nat /\ MaxBusy \in Nat /\ MaxEintr \in Nat /\ MaxFaults \in Nat
      /\ faults \in 0..MaxFaults /\ eintr \in 0..MaxEintr
  BY NumFacts DEF Typed
<1>2. p \in Nat /\ q \in Nat /\ p + MaxBusy <= P /\ q + Interval <= Q
  BY <1>1, OneLess
<1>3. P \in Nat /\ Q \in Nat
  <2>1. ASSUME NEW u \in Nat, NEW v \in Nat PROVE (u + 1) * v \in Nat
    OBVIOUS
  <2> QED BY <1>1, <2>1
<1>4. Budget = p + q /\ Silence = P + Q
  BY DEF Budget, Silence
<1>5. ASSUME Failure \/ Fault PROVE Budget' = Budget - MaxBusy /\ Budget' \in Nat
  <2>1. faults' = faults + 1 /\ eintr' = eintr /\ faults + 1 <= MaxFaults
        /\ faults' \in 0..MaxFaults
    BY <1>1, <1>5 DEF Fault, Failure
  <2>2. (MaxFaults - (faults + 1)) * MaxBusy = p - MaxBusy
    BY <1>1, <2>1, OneLess
  <2>3. (MaxFaults - faults') * MaxBusy \in Nat
    BY <1>1, <2>1, OneLess
  <2>4. Budget' = (MaxFaults - faults') * MaxBusy + q
    BY <2>1 DEF Budget
  <2> HIDE DEF p, q
  <2> QED BY <1>1, <1>2, <1>4, <2>1, <2>2, <2>3, <2>4
<1>6. ASSUME Signal PROVE Budget' = Budget - Interval /\ Budget' \in Nat
  <2>1. eintr' = eintr + 1 /\ faults' = faults /\ eintr + 1 <= MaxEintr
        /\ eintr' \in 0..MaxEintr
    BY <1>1, <1>6 DEF Signal
  <2>2. (MaxEintr - (eintr + 1)) * Interval = q - Interval
    BY <1>1, <2>1, OneLess
  <2>3. (MaxEintr - eintr') * Interval \in Nat
    BY <1>1, <2>1, OneLess
  <2>4. Budget' = p + (MaxEintr - eintr') * Interval
    BY <2>1 DEF Budget
  <2> HIDE DEF p, q
  <2> QED BY <1>1, <1>2, <1>4, <2>1, <2>2, <2>3, <2>4
<1>7. UNCHANGED counts => Budget' = Budget
  BY DEF counts, Budget
<1> HIDE DEF p, q, P, Q
<1>8. Budget \in Nat /\ Silence \in Nat /\ Budget + MaxBusy + Interval <= Silence
  BY <1>1, <1>2, <1>3, <1>4
<1> QED BY <1>5, <1>6, <1>7, <1>8

-----------------------------------------------------------------------------
(***************************************************************************)
(* Whole frames.                                                           *)
(***************************************************************************)
\* What a read returns is as WholeFrames says if it is a piece of a frame that
\* begins at the frame's beginning, after a lost byte or after a cut, and that
\* ends with the frame or at a cut.
LEMMA WholeOf ==
  ASSUME SerialPortAssumption, Paper, frame \in Frames, UNCHANGED <<frame, written>>,
         NEW a \in Nat, NEW n \in Nat, a < n, n <= written[frame].n,
         result' = Seg(frame, a, n),
         FrameLen[frame] <= MaxLen =>
           /\ a = 0 \/ <<frame, a>> \in lost' \cup cut'
           /\ <<frame, n>> \in cut' \/ (written[frame].done /\ n = written[frame].n)
  PROVE  WholeFrames'
<1> DEFINE k == a + 1
<1>1. written[frame].n <= FrameLen[frame] /\ FrameLen[frame] \in Nat /\ written[frame].n \in Nat
  BY ConstFacts DEF Paper
<1>2. k \in 1..FrameLen[frame] /\ n \in k..FrameLen[frame] /\ k - 1 = a
  BY <1>1
<1>3. SubSeq(BytesOf(frame, FrameLen[frame]), k, n) = Seg(frame, a, n)
  <2>1. a <= n /\ n <= FrameLen[frame] /\ FrameLen[frame] \in Nat
    BY <1>1
  <2>2. frame \in Nat
    BY ConstFacts
  <2>3. k \in Nat /\ k = a + 1
    OBVIOUS
  <2> HIDE DEF k
  <2>4. Part(BytesOf(frame, FrameLen[frame]), k, n) = Seg(frame, a, n)
    BY ONLY <2>1, <2>2, <2>3, n \in Nat, a \in Nat, SegOfFrame, SMTT(30)
  <2> QED BY <2>4 DEF Part
<1>4. k = 1 \/ <<frame, k - 1>> \in lost' \cup cut' \/ ~(FrameLen[frame] <= MaxLen)
  BY <1>2
<1> HIDE DEF k
<1>5. /\ result' = SubSeq(BytesOf(frame, FrameLen[frame]), k, n)
      /\ FrameLen[frame] <= MaxLen =>
           /\ k = 1 \/ <<frame, k - 1>> \in lost' \cup cut'
           /\ <<frame, n>> \in cut' \/ (written'[frame].done /\ n = written'[frame].n)
  BY <1>3, <1>4
<1> QED BY <1>2, <1>5 DEF WholeFrames

\* What a read returned stays what it was: a frame that was finished stays as
\* it is, and lost bytes stay lost.
LEMMA WholeKept ==
  ASSUME WholeFrames, result' = result \/ result' = NoBytes, lost \subseteq lost',
         cut \subseteq cut',
         \A f \in Frames : written[f].done => written'[f] = written[f]
  PROVE  WholeFrames'
<1> SUFFICES ASSUME result' # NoBytes
             PROVE  \E f \in Frames : \E k \in 1..FrameLen[f] : \E n \in k..FrameLen[f] :
                       /\ result' = SubSeq(BytesOf(f, FrameLen[f]), k, n)
                       /\ FrameLen[f] <= MaxLen =>
                            /\ k = 1 \/ <<f, k - 1>> \in lost' \cup cut'
                            /\ <<f, n>> \in cut' \/ (written'[f].done /\ n = written'[f].n)
  BY DEF WholeFrames
<1>0. PICK f \in Frames : \E k \in 1..FrameLen[f] : \E n \in k..FrameLen[f] :
          /\ result = SubSeq(BytesOf(f, FrameLen[f]), k, n)
          /\ FrameLen[f] <= MaxLen =>
               /\ k = 1 \/ <<f, k - 1>> \in lost \cup cut
               /\ <<f, n>> \in cut \/ (written[f].done /\ n = written[f].n)
  BY DEF WholeFrames
<1>1. PICK k \in 1..FrameLen[f] : \E n \in k..FrameLen[f] :
          /\ result = SubSeq(BytesOf(f, FrameLen[f]), k, n)
          /\ FrameLen[f] <= MaxLen =>
               /\ k = 1 \/ <<f, k - 1>> \in lost \cup cut
               /\ <<f, n>> \in cut \/ (written[f].done /\ n = written[f].n)
  BY <1>0
<1>2. PICK n \in k..FrameLen[f] :
          /\ result = SubSeq(BytesOf(f, FrameLen[f]), k, n)
          /\ FrameLen[f] <= MaxLen =>
               /\ k = 1 \/ <<f, k - 1>> \in lost \cup cut
               /\ <<f, n>> \in cut \/ (written[f].done /\ n = written[f].n)
  BY <1>1
<1>3. /\ result' = SubSeq(BytesOf(f, FrameLen[f]), k, n)
      /\ FrameLen[f] <= MaxLen =>
           /\ k = 1 \/ <<f, k - 1>> \in lost' \cup cut'
           /\ <<f, n>> \in cut' \/ (written'[f].done /\ n = written'[f].n)
  BY <1>2
<1> QED BY <1>1, <1>2, <1>3

-----------------------------------------------------------------------------
(***************************************************************************)
(* What the reader holds.                                                  *)
(***************************************************************************)
\* How much of the current frame is written is a number, up to its length.
LEMMA GivenIs ==
  ASSUME SerialPortAssumption
  PROVE  /\ Paper => /\ frame \in Nat /\ Given \in Nat
                     /\ Given > 0 => /\ frame \in Frames /\ Given = written[frame].n
                                     /\ Given <= FrameLen[frame]
                                     /\ Given = FrameLen[frame] => written[frame].done
         /\ Paper' => frame' \in Nat /\ Given' \in Nat
<1>1. Len(FrameLen) \in Nat /\ Frames = 1..Len(FrameLen)
  BY ConstFacts
<1>2. ASSUME Paper
      PROVE  /\ frame \in Nat /\ Given \in Nat
             /\ Given > 0 => /\ frame \in Frames /\ Given = written[frame].n
                             /\ Given <= FrameLen[frame]
                             /\ Given = FrameLen[frame] => written[frame].done
  <2>1. frame \in 0..Len(FrameLen)
    BY <1>2 DEF Paper
  <2>2. CASE frame = 0
    BY <2>2 DEF Given
  <2>3. CASE frame # 0
    <3>1. frame \in Frames /\ frame \in Nat /\ Given = written[frame].n
      BY <1>1, <2>1, <2>3 DEF Given
    <3>2. written[frame].n \in Nat /\ written[frame].n <= FrameLen[frame]
          /\ (written[frame].n = FrameLen[frame] => written[frame].done)
      BY <1>2, <3>1 DEF Paper
    <3> QED BY <3>1, <3>2
  <2> QED BY <2>2, <2>3
<1>3. ASSUME Paper' PROVE frame' \in Nat /\ Given' \in Nat
  <2>1. frame' \in 0..Len(FrameLen)
    BY <1>3 DEF Paper
  <2>2. CASE frame' = 0
    BY <2>2 DEF Given
  <2>3. CASE frame' # 0
    <3>1. frame' \in Frames /\ frame' \in Nat /\ Given' = written'[frame'].n
      BY <1>1, <2>1, <2>3 DEF Given
    <3>2. written'[frame'].n \in Nat
      BY <1>3, <3>1 DEF Paper
    <3> QED BY <3>1, <3>2
  <2> QED BY <2>2, <2>3
<1> QED BY <1>2, <1>3

\* A reader that has the bytes of the current frame from a founded beginning
\* on holds what it should, whether it will be emptied or not.
LEMMA Holds ==
  ASSUME SerialPortAssumption, Typed', Paper',
         NEW a \in Nat, NEW m \in Nat, NEW b \in Nat,
         a <= m, m <= b, b <= Given',
         tx' = Seg(frame', b, Given'),
         buf' = Seg(frame', a, m), rx' = Seg(frame', m, b), Founded(a)',
         (b > 0 /\ InsideFrame') => quiet' <= ByteGap
  PROVE  HeldInv'
<1>1. frame' \in Nat /\ Given' \in Nat
  BY GivenIs
<1>2. rx' = NoBytes <=> m = b
  BY <1>1, SegNone
<1>3. Doomed' => a = m
  <2> SUFFICES ASSUME Doomed' PROVE a = m
    OBVIOUS
  <2>1. buf' = NoBytes
    BY DEF Doomed, Typed
  <2>2. Seg(frame', a, m) = NoBytes <=> a = m
    BY <1>1, SegNone
  <2> QED BY <2>1, <2>2
<1>4. Doomed' /\ rx' = NoBytes => Founded(b)'
  <2> SUFFICES ASSUME Doomed', rx' = NoBytes PROVE Founded(b)'
    OBVIOUS
  <2>1. a = b
    BY <1>2, <1>3
  <2> QED BY <2>1
<1>5. rx' # NoBytes => <<frame', b>> \in ToSet(rx')
  <2> SUFFICES ASSUME rx' # NoBytes PROVE <<frame', b>> \in ToSet(rx')
    OBVIOUS
  <2>1. m < b
    BY <1>2
  <2> QED BY <1>1, <2>1, SegLast
<1>6. Held(a, m, b)'
  BY <1>4, <1>5 DEF Held
<1>7. a \in 0..Given' /\ m \in 0..Given' /\ b \in 0..Given'
  BY <1>1
<1> QED BY <1>6, <1>7 DEF HeldInv

\* A reader that will be emptied holds what it should.
LEMMA HoldsDoomed ==
  ASSUME SerialPortAssumption, Paper', Doomed', NEW b \in Nat, b <= Given',
         tx' = Seg(frame', b, Given'),
         rx' = NoBytes => Founded(b)',
         (rx' # NoBytes /\ b > 0) => <<frame', b>> \in ToSet(rx'),
         (b > 0 /\ InsideFrame') => quiet' <= ByteGap
  PROVE  HeldInv'
<1>1. Given' \in Nat
  BY GivenIs
<1>2. b \in 0..Given' /\ b <= b
  BY <1>1
<1>3. Held(b, b, b)'
  BY <1>2 DEF Held
<1> QED BY <1>2, <1>3 DEF HeldInv

\* A beginning stays founded while the frame is the same.
LEMMA StaysFounded ==
  ASSUME NEW a, Founded(a), frame' = frame, lost \subseteq lost', cut \subseteq cut',
         a = Given /\ written[frame].done => a = Given' /\ written'[frame].done
  PROVE  Founded(a)'
BY DEF Founded

\* A step that moves no byte leaves the reader with what it held.
LEMMA HeldKept ==
  ASSUME SerialPortAssumption, Paper, Paper', HeldInv,
         UNCHANGED <<frame, tx, rx, buf>>, Given' = Given, lost \subseteq lost',
         cut \subseteq cut',
         Given > 0 => (written[frame].done => written'[frame].done),
         InsideFrame' => InsideFrame /\ (quiet' = quiet \/ quiet' <= ByteGap),
         Doomed' <=> Doomed
  PROVE  HeldInv'
<1>1. PICK a \in 0..Given, m \in 0..Given, b \in 0..Given : Held(a, m, b)
  BY DEF HeldInv
<1>2. Given \in Nat
  BY GivenIs
<1>3. ASSUME NEW x \in 0..Given, Founded(x) PROVE Founded(x)'
  <2>1. CASE x = 0
    BY <2>1 DEF Founded
  <2>2. CASE x # 0
    <3>1. Given > 0
      BY <1>2, <2>2
    <3> QED BY <1>3, <3>1, StaysFounded
  <2> QED BY <2>1, <2>2
<1>4. /\ a <= m /\ m <= b /\ b <= Given /\ tx = Seg(frame, b, Given)
      /\ ~Doomed => (buf = Seg(frame, a, m) /\ rx = Seg(frame, m, b) /\ Founded(a))
      /\ Doomed => /\ rx = NoBytes => Founded(b)
                   /\ (rx # NoBytes /\ b > 0) => <<frame, b>> \in ToSet(rx)
      /\ (b > 0 /\ InsideFrame) => quiet <= ByteGap
  BY <1>1 DEF Held
<1>5. /\ Founded(a) => Founded(a)'
      /\ Founded(b) => Founded(b)'
  BY <1>3
<1>6. Held(a, m, b)'
  BY <1>4, <1>5 DEF Held
<1> QED BY <1>6 DEF HeldInv

\* Whether the reader's buffer will be emptied depends on the port, on where
\* the reader is and on what it was given.
LEMMA SameDoom ==
  ASSUME UNCHANGED <<port, pc, result>>
  PROVE  Doomed' <=> Doomed
BY DEF Doomed, Rejected

\* A reader inside serial_port_read is not about to drain the port.
LEMMA InsideRead ==
  ASSUME Typed, pc \in {"waiting", "reading"}
  PROVE  ~Doomed
BY DEF Doomed, Typed

\* The numbers that time is told by.
LEMMA TimeTypes ==
  ASSUME SerialPortAssumption, Typed
  PROVE  /\ quiet \in Nat /\ timer \in Nat /\ busy \in Nat /\ MaxBusy - busy \in Nat
         /\ Interval \in Nat /\ FrameGap \in Nat /\ MaxBusy \in Nat
         /\ Budget \in Nat /\ Silence \in Nat
<1>1. quiet \in 0..FrameGap /\ timer \in 0..FirstWait \cup 0..Interval /\ busy \in 0..MaxBusy
  BY DEF Typed
<1>2. /\ Interval \in Nat /\ FrameGap \in Nat /\ MaxBusy \in Nat /\ FirstWait \in Nat
  BY NumFacts
<1>3. quiet \in Nat /\ timer \in Nat /\ busy \in Nat /\ MaxBusy - busy \in Nat
  BY <1>1, <1>2
<1> QED BY <1>2, <1>3, BudgetIs

\* The line is silent for less than FrameGap while bytes are waiting.
LEMMA StillFresh ==
  ASSUME SerialPortAssumption, GoodLine, Typed, TimeInv, ~Doomed,
         rx # NoBytes \/ buf # NoBytes
  PROVE  quiet < FrameGap
<1>1. Budget \in Nat /\ Silence \in Nat /\ Silence < FrameGap
  BY BudgetIs DEF GoodLine, Silence
<1>2. /\ quiet \in Nat /\ timer \in Nat /\ Interval \in Nat /\ FrameGap \in Nat
      /\ MaxBusy - busy \in Nat
  BY TimeTypes
<1>3. CASE rx # NoBytes /\ pc = "busy"
  BY <1>1, <1>2, <1>3 DEF TimeInv
<1>4. CASE rx # NoBytes /\ pc # "busy"
  BY <1>1, <1>2, <1>4 DEF TimeInv
<1>5. CASE rx = NoBytes /\ buf # NoBytes
  BY <1>1, <1>2, <1>5 DEF TimeInv
<1> QED BY <1>3, <1>4, <1>5

\* A step that moves no byte and takes no time leaves what is late as it is.
LEMMA TimeKept ==
  ASSUME SerialPortAssumption, Typed, TimeInv, Budget' \in Nat, Budget' <= Budget,
         UNCHANGED <<rx, buf, pc, busy, timer, quiet>>, ~Doomed' => ~Doomed
  PROVE  TimeInv'
<1>1. /\ quiet \in Nat /\ timer \in Nat /\ Interval \in Nat /\ Budget \in Nat /\ Silence \in Nat
      /\ MaxBusy \in Nat /\ busy \in Nat
  BY TimeTypes
<1>2. Silence' = Silence
  BY DEF Silence
<1>3. /\ rx' = rx /\ buf' = buf /\ pc' = pc /\ busy' = busy /\ timer' = timer /\ quiet' = quiet
  OBVIOUS
<1>4. \A x \in Int : x + Budget <= Silence => x + Budget' <= Silence
  <2>1. \A u, v, w \in Nat : v <= u => \A x \in Int : x + u <= w => x + v <= w
    OBVIOUS
  <2> QED BY <1>1, <2>1
<1> SUFFICES ASSUME ~Doomed'
             PROVE  /\ (rx # NoBytes /\ pc = "busy") =>
                         quiet + (MaxBusy - busy) + Interval + Budget' <= Silence
                    /\ (rx # NoBytes /\ pc # "busy") => quiet + Interval + Budget' <= Silence
                    /\ (rx = NoBytes /\ buf # NoBytes) =>
                         (quiet + timer + Budget' <= Silence /\ quiet + timer >= Interval)
  BY <1>2, <1>3 DEF TimeInv
<1>5. /\ (rx # NoBytes /\ pc = "busy") =>
                         quiet + (MaxBusy - busy) + Interval + Budget <= Silence
      /\ (rx # NoBytes /\ pc # "busy") => quiet + Interval + Budget <= Silence
      /\ (rx = NoBytes /\ buf # NoBytes) =>
                         (quiet + timer + Budget <= Silence /\ quiet + timer >= Interval)
  BY DEF TimeInv
<1>6. /\ quiet + (MaxBusy - busy) + Interval \in Int /\ quiet + Interval \in Int
      /\ quiet + timer \in Int
  BY <1>1
<1> QED BY ONLY <1>4, <1>5, <1>6

\* A reader that has no bytes is not late.
LEMMA NothingLate ==
  ASSUME rx' = NoBytes, buf' = NoBytes
  PROVE  TimeInv'
BY DEF TimeInv

\* A step of the writer or of the line that leaves the reader as it is.
LEMMA ReaderKept ==
  ASSUME SerialPortAssumption, Typed, WholeInv,
         UNCHANGED <<port, pc, busy, buf, timer, result, quiet, rx, lost>>,
         Budget' \in Nat, Budget' <= Budget, cut \subseteq cut',
         \A f \in Frames : written[f].done => written'[f] = written[f]
  PROVE  TimeInv' /\ WholeFrames'
<1>1. Doomed' <=> Doomed
  BY SameDoom
<1>2. TimeInv'
  BY <1>1, TimeKept DEF WholeInv
<1>3. WholeFrames'
  BY WholeKept DEF WholeInv
<1> QED BY <1>2, <1>3

-----------------------------------------------------------------------------
\* The next frame starts when the silence has outlasted every reader.
LEMMA StartWriteWhole ==
  ASSUME SerialPortAssumption, GoodLine, Typed, Paper, WholeInv, Typed', Paper',
         cut \subseteq cut', StartWrite
  PROVE  WholeInv'
<1> USE DEF opening, reading, writer, counts
<1>1. /\ frame' = frame + 1 /\ quiet >= FrameGap /\ tx = NoBytes
      /\ UNCHANGED <<port, pc, busy, buf, timer, result, quiet, rx, lost, written, tx, counts>>
  BY DEF StartWrite
<1>2. Budget' \in Nat /\ Budget' <= Budget /\ Budget \in Nat
  BY <1>1, BudgetIs
<1>3. TimeInv' /\ WholeFrames'
  BY <1>1, <1>2, ReaderKept
<1>4. Given' = 0 /\ frame' \in Nat
  <2>1. frame' \in 1..Len(FrameLen) /\ frame' \in Frames /\ frame' > frame /\ frame' # 0
        /\ frame' \in Nat
    <3>1. frame \in 0..Len(FrameLen) /\ frame < Len(FrameLen) /\ Len(FrameLen) \in Nat
          /\ Frames = 1..Len(FrameLen)
      BY ConstFacts DEF StartWrite, Paper
    <3> QED BY <1>1, <3>1
  <2>2. written'[frame'] = [n |-> 0, done |-> FALSE]
    BY <1>1, <2>1 DEF Paper
  <2> QED BY <2>1, <2>2 DEF Given
<1>5. PICK z \in Nat : z = 0
  OBVIOUS
<1>6. tx' = Seg(frame', z, Given') /\ z <= z /\ z <= Given'
  BY <1>1, <1>4, <1>5, SegNone
<1>7. Founded(z)'
  BY <1>5 DEF Founded
<1>8. ~(z > 0)
  BY <1>5
<1>9. CASE Doomed'
  BY <1>6, <1>7, <1>8, <1>9, <1>3, HoldsDoomed DEF WholeInv
<1>10. CASE ~Doomed'
  <2>1. ~Doomed
    BY <1>1, <1>10, SameDoom
  <2>2. rx = NoBytes /\ buf = NoBytes
    <3>1. quiet \in Nat /\ FrameGap \in Nat
      BY NumFacts DEF Typed
    <3>2. ~(quiet < FrameGap)
      BY <1>1, <3>1
    <3> QED BY <2>1, <3>2, StillFresh DEF WholeInv
  <2>3. buf' = Seg(frame', z, z) /\ rx' = Seg(frame', z, z)
    BY <1>1, <1>4, <2>2, SegNone
  <2>4. HeldInv'
    BY <1>6, <1>7, <1>8, <2>3, Holds
  <2> QED BY <1>3, <2>4 DEF WholeInv
<1> QED BY <1>9, <1>10

\* A write makes the end of the frame that waits in the queue longer.
LEMMA WriteSomeWhole ==
  ASSUME SerialPortAssumption, GoodLine, Typed, Paper, WholeInv, Typed', Paper',
         cut \subseteq cut', WriteSome
  PROVE  WholeInv'
<1> USE DEF opening, reading, writer, counts
<1>1. PICK l \in 1..(FrameLen[frame] - written[frame].n) :
        LET w == written[frame].n + l IN
        /\ tx' = tx \o SubSeq(BytesOf(frame, w), written[frame].n + 1, w)
        /\ written' = [written EXCEPT ![frame] = [n |-> w, done |-> WriteEnds(w)]]
  BY DEF WriteSome
<1>2. /\ UNCHANGED <<port, pc, busy, buf, timer, result, quiet, rx, lost, frame, counts>>
      /\ ~Between
  BY DEF WriteSome
<1> DEFINE n == written[frame].n
           w == n + l
<1>3. /\ frame \in Frames /\ frame \in Nat /\ frame # 0 /\ ~written[frame].done
      /\ n \in Nat /\ FrameLen[frame] \in Nat /\ Given = n
  <2>1. frame \in 0..Len(FrameLen) /\ frame # 0 /\ ~written[frame].done
    BY <1>2 DEF Between, Paper
  <2>2. frame \in Frames /\ frame \in Nat
    BY <2>1, ConstFacts
  <2> QED BY <2>1, <2>2, ConstFacts DEF Paper, Given
<1>4. w \in Nat /\ n <= w /\ w <= FrameLen[frame]
  BY <1>3
<1>5. written'[frame].n = w /\ \A f \in Frames : f # frame => written'[f] = written[f]
  <2>1. written \in [Frames -> [n : Nat, done : BOOLEAN]]
    BY DEF Paper
  <2> QED BY <1>1, <1>3, <2>1
<1>6. Given' = w
  BY <1>2, <1>3, <1>5 DEF Given
<1>7. tx' = tx \o Seg(frame, n, w)
  <2>1. tx' = tx \o Part(BytesOf(frame, w), n + 1, w)
    BY <1>1 DEF Part
  <2> HIDE DEF n, w
  <2>2. PICK k \in Nat : k = n + 1
    BY <1>3
  <2>3. w <= w
    BY <1>4
  <2>4. frame \in Nat /\ w \in Nat /\ n \in Nat /\ n <= w
    BY <1>3, <1>4
  <2>5. Part(BytesOf(frame, w), k, w) = Seg(frame, n, w)
    BY ONLY <2>2, <2>3, <2>4, SegOfFrame, SMTT(30)
  <2> QED BY <2>1, <2>2, <2>5
<1> HIDE DEF n, w
<1>8. PICK a \in 0..Given, m \in 0..Given, b \in 0..Given : Held(a, m, b)
  BY DEF WholeInv, HeldInv
<1>9. a \in Nat /\ m \in Nat /\ b \in Nat /\ a <= m /\ m <= b /\ b <= n /\ b <= Given'
  BY <1>3, <1>4, <1>6, <1>8 DEF Held
<1>10. tx' = Seg(frame', b, Given')
  <2>1. tx = Seg(frame, b, n)
    BY <1>3, <1>8 DEF Held
  <2>2. Seg(frame, b, n) \o Seg(frame, n, w) = Seg(frame, b, w)
    <3>1. frame \in Nat /\ n \in Nat /\ w \in Nat /\ b \in Nat /\ b <= n /\ n <= w
      BY <1>3, <1>4, <1>9
    <3> QED BY ONLY <3>1, SegJoin, Zenon
  <2> QED BY <1>2, <1>6, <1>7, <2>1, <2>2
<1>11. b > 0 => quiet' <= ByteGap
  BY <1>2, <1>8 DEF Held, InsideFrame
<1>12. \A x : Founded(x) => Founded(x)'
  BY <1>2, <1>3, StaysFounded
<1>13. HeldInv'
  <2>1. CASE Doomed
    <3>1. Doomed'
      BY <1>2, <2>1, SameDoom
    <3>2. /\ rx' = NoBytes => Founded(b)'
          /\ (rx' # NoBytes /\ b > 0) => <<frame', b>> \in ToSet(rx')
      BY <1>2, <1>8, <1>12, <2>1 DEF Held
    <3> QED BY <1>9, <1>10, <1>11, <3>1, <3>2, HoldsDoomed
  <2>2. CASE ~Doomed
    <3>1. buf' = Seg(frame', a, m) /\ rx' = Seg(frame', m, b) /\ Founded(a)'
      BY <1>2, <1>8, <1>12, <2>2 DEF Held
    <3> QED BY <1>9, <1>10, <1>11, <3>1, Holds
  <2> QED BY <2>1, <2>2
<1>14. TimeInv' /\ WholeFrames'
  <2>1. Budget' \in Nat /\ Budget' <= Budget /\ Budget \in Nat
    BY <1>2, BudgetIs
  <2>2. \A f \in Frames : written[f].done => written'[f] = written[f]
    BY <1>3, <1>5
  <2> QED BY <1>2, <2>1, <2>2, ReaderKept
<1> QED BY <1>13, <1>14 DEF WholeInv

\* An interrupted write: the loop goes on.
LEMMA WriteEintrWhole ==
  ASSUME SerialPortAssumption, Typed, Paper, WholeInv, Typed', Paper',
         cut \subseteq cut', WriteEintr
  PROVE  WholeInv'
<1> USE DEF opening, reading, writer, counts
<1>1. UNCHANGED <<port, pc, busy, buf, timer, result, quiet, rx, lost, frame, tx, written>>
  BY DEF WriteEintr
<1>2. Budget' \in Nat /\ Budget' <= Budget
  <2>1. Budget' = Budget - Interval /\ Budget' \in Nat
    BY BudgetIs DEF WriteEintr
  <2> QED BY <2>1, TimeTypes
<1>3. TimeInv' /\ WholeFrames'
  BY <1>1, <1>2, ReaderKept
<1>4. Given' = Given /\ InsideFrame' = InsideFrame
  BY <1>1 DEF Given, InsideFrame, Between
<1>5. Doomed' <=> Doomed
  BY <1>1, SameDoom
<1>6. HeldInv'
  BY <1>1, <1>4, <1>5, HeldKept DEF WholeInv
<1> QED BY <1>3, <1>6 DEF WholeInv

\* A write that fails ends the frame where it is.
LEMMA WriteFailsWhole ==
  ASSUME SerialPortAssumption, Typed, Paper, WholeInv, Typed', Paper',
         cut \subseteq cut', WriteFails
  PROVE  WholeInv'
<1> USE DEF opening, reading, writer, counts
<1>1. /\ UNCHANGED <<port, pc, busy, buf, timer, result, quiet, rx, lost, frame, tx>>
      /\ written' = [written EXCEPT ![frame].done = TRUE] /\ ~Between
  BY DEF WriteFails
<1>2. Budget' \in Nat /\ Budget' <= Budget
  <2>1. Budget' = Budget - MaxBusy /\ Budget' \in Nat
    BY BudgetIs DEF WriteFails
  <2> QED BY <2>1, TimeTypes
<1>3. frame \in Frames /\ frame # 0 /\ ~written[frame].done
  <2>1. frame \in 0..Len(FrameLen) /\ frame # 0 /\ ~written[frame].done
    BY <1>1 DEF Between, Paper
  <2> QED BY <2>1, ConstFacts
<1>4. /\ written'[frame].n = written[frame].n /\ written'[frame].done
      /\ \A f \in Frames : f # frame => written'[f] = written[f]
  <2>1. written \in [Frames -> [n : Nat, done : BOOLEAN]]
    BY DEF Paper
  <2> QED BY <1>1, <1>3, <2>1
<1>5. TimeInv' /\ WholeFrames'
  <2>1. \A f \in Frames : written[f].done => written'[f] = written[f]
    BY <1>3, <1>4
  <2> QED BY <1>1, <1>2, <2>1, ReaderKept
<1>6. Given' = Given
  BY <1>1, <1>3, <1>4 DEF Given
<1>7. InsideFrame
  BY <1>1 DEF InsideFrame
<1>8. Doomed' <=> Doomed
  BY <1>1, SameDoom
<1>9. HeldInv'
  BY <1>1, <1>4, <1>6, <1>7, <1>8, HeldKept DEF WholeInv
<1> QED BY <1>5, <1>9 DEF WholeInv

\* The next byte of the frame goes from the queue to the receive buffer.
LEMMA ArriveWhole ==
  ASSUME SerialPortAssumption, GoodLine, Typed, Paper, WholeInv, Typed', Paper',
         cut \subseteq cut', Arrive
  PROVE  WholeInv'
<1> USE DEF opening, reading, writer, counts
<1>1. /\ tx # NoBytes /\ rx' = Append(rx, Head(tx)) /\ tx' = Tail(tx) /\ quiet' = 0
      /\ UNCHANGED <<port, pc, busy, buf, timer, result, lost, frame, written, counts>>
  BY DEF Arrive
<1>2. frame \in Nat /\ Given \in Nat
  BY GivenIs
<1>3. PICK a \in 0..Given, m \in 0..Given, b \in 0..Given : Held(a, m, b)
  BY DEF WholeInv, HeldInv
<1>4. /\ a <= m /\ m <= b /\ b <= Given /\ tx = Seg(frame, b, Given)
      /\ a \in Nat /\ m \in Nat /\ b \in Nat
  BY <1>2, <1>3 DEF Held
<1>5. b < Given
  <2>1. Seg(frame, b, Given) = NoBytes <=> b = Given
    BY <1>2, <1>4, SegNone
  <2> QED BY <1>1, <1>2, <1>4, <2>1
<1>6. PICK c \in Nat : c = b + 1
  BY <1>4
<1>7. Head(tx) = <<frame, c>> /\ tx' = Seg(frame, c, Given)
  <2>1. Head(Seg(frame, b, Given)) = <<frame, b + 1>>
        /\ Tail(Seg(frame, b, Given)) = Seg(frame, b + 1, Given)
    BY <1>2, <1>4, <1>5, SegHead
  <2> QED BY <1>1, <1>4, <1>6, <2>1
<1>8. Given' = Given /\ frame' = frame /\ c <= Given /\ m <= c /\ c > 0
  <2>1. Given' = Given /\ frame' = frame
    BY <1>1 DEF Given
  <2> QED BY <1>2, <1>4, <1>5, <1>6, <2>1
<1>9. quiet' <= ByteGap
  BY <1>1, NumFacts
<1>10. \A x : Founded(x) => Founded(x)'
  BY <1>1, <1>8, StaysFounded
<1>11. rx' # NoBytes /\ <<frame, c>> \in ToSet(rx')
  <2>1. rx \in Seq(Bytes) /\ rx' \in Seq(Bytes)
    BY DEF Typed
  <2>2. <<frame, c>> \in Bytes
    <3>1. Head(tx) \in Bytes
      BY <1>1 DEF Typed, NoBytes
    <3> QED BY <1>7, <3>1
  <2>3. rx' = Append(rx, <<frame, c>>)
    BY <1>1, <1>7
  <2>4. Len(rx') = Len(rx) + 1 /\ rx'[Len(rx) + 1] = <<frame, c>>
    BY ONLY <2>1, <2>2, <2>3
  <2>5. Len(rx) + 1 \in DOMAIN rx'
    BY <2>1, <2>4
  <2>6. rx' # NoBytes
    BY <2>1, <2>4 DEF NoBytes
  <2> QED BY <2>4, <2>5, <2>6 DEF ToSet
<1>12. Doomed' <=> Doomed
  BY <1>1, SameDoom
<1>13. HeldInv'
  <2>1. CASE Doomed
    BY <1>7, <1>8, <1>9, <1>11, <1>12, <2>1, HoldsDoomed
  <2>2. CASE ~Doomed
    <3>1. buf' = Seg(frame', a, m) /\ Founded(a)' /\ rx = Seg(frame, m, b)
      BY <1>1, <1>3, <1>10, <2>2 DEF Held
    <3>2. rx' = Seg(frame', m, c)
      <4>1. Append(Seg(frame, m, b), <<frame, b + 1>>) = Seg(frame, m, b + 1)
        BY <1>2, <1>4, SegAppend
      <4> QED BY <1>1, <1>6, <1>7, <3>1, <4>1
    <3> QED BY <1>4, <1>7, <1>8, <1>9, <3>1, <3>2, Holds
  <2> QED BY <2>1, <2>2
<1>14. TimeInv'
  <2> SUFFICES ASSUME ~Doomed'
               PROVE  /\ (rx' # NoBytes /\ pc' = "busy") =>
                           quiet' + (MaxBusy - busy') + Interval + Budget' <= Silence
                      /\ (rx' # NoBytes /\ pc' # "busy") =>
                           quiet' + Interval + Budget' <= Silence
    BY <1>11 DEF TimeInv, Silence
  <2>1. Budget' = Budget /\ Budget + MaxBusy + Interval <= Silence
    BY <1>1, BudgetIs
  <2>2. quiet' = 0 /\ busy' = busy
    BY <1>1
  <2>3. 0 + (MaxBusy - busy) + Interval + Budget <= Silence
        /\ 0 + Interval + Budget <= Silence
    BY ONLY <2>1, TimeTypes, SerialPortAssumption, Typed
  <2> QED BY <2>1, <2>2, <2>3
<1>15. WholeFrames'
  BY <1>1, WholeKept DEF WholeInv
<1> QED BY <1>13, <1>14, <1>15 DEF WholeInv

-----------------------------------------------------------------------------
\* What read() takes of a piece, and what it leaves, are pieces.
LEMMA Takes ==
  ASSUME SerialPortAssumption, Typed, Paper, pc \in {"waiting", "reading"},
         NEW a \in Nat, NEW m \in Nat, NEW b \in Nat, a <= m, m <= b,
         buf = Seg(frame, a, m), rx = Seg(frame, m, b)
  PROVE  \E t \in m..b :
           /\ SubSeq(rx, Len(Taken) + 1, Len(rx)) = Seg(frame, t, b)
           /\ buf \o Taken = Seg(frame, a, t)
           /\ Len(buf \o Taken) = t - a
           /\ t - a <= MaxLen /\ (t = b \/ t - a = MaxLen)
<1> DEFINE n == IF Len(rx) < MaxLen - Len(buf) THEN Len(rx) ELSE MaxLen - Len(buf)
           t == m + n
<1>0. frame \in Nat
  BY GivenIs
<1>1. Len(rx) = b - m /\ Len(buf) = m - a
  BY SegIs
<1>2. MaxLen \in Nat /\ Len(buf) < MaxLen
  BY NumFacts DEF Typed
<1>3. n \in Nat /\ n <= b - m /\ t \in m..b /\ t \in Nat /\ t - a <= MaxLen
      /\ (t = b \/ t - a = MaxLen)
  BY <1>1, <1>2
<1>4. Taken = Part(rx, 1, n)
  BY DEF Taken, Part
<1> HIDE DEF n
<1>5. Taken = Seg(frame, m, t)
  <2>1. m <= t /\ t <= b /\ m <= m /\ n = t - m /\ 1 = (m - m) + 1
    BY <1>3
  <2> HIDE DEF t
  <2>2. PICK i \in Nat : i = 1
    OBVIOUS
  <2>3. i = (m - m) + 1
    BY <2>2
  <2>4. Part(Seg(frame, m, b), i, n) = Seg(frame, m, t)
    BY <1>0, <1>3, <2>1, <2>3, SegPart
  <2> QED BY <1>4, <2>2, <2>4
<1>6. Len(Taken) = n
  <2>1. m <= t /\ t - m = n
    BY <1>3
  <2> HIDE DEF t
  <2>2. Len(Seg(frame, m, t)) = t - m
    BY <1>3, <2>1, SegIs
  <2> QED BY <1>5, <2>1, <2>2
<1>7. SubSeq(rx, Len(Taken) + 1, Len(rx)) = Seg(frame, t, b)
  <2>1. PICK i \in Nat : i = n + 1
    BY <1>3
  <2>2. PICK j \in Nat : j = b - m
    OBVIOUS
  <2>3. m <= t /\ t <= b /\ b <= b /\ i = (t - m) + 1 /\ j = b - m
    BY <1>3, <2>1, <2>2
  <2> HIDE DEF t
  <2>4. Part(Seg(frame, m, b), i, j) = Seg(frame, t, b)
    BY <1>0, <1>3, <2>3, SegPart
  <2>5. Part(rx, i, j) = Seg(frame, t, b)
    BY <2>4
  <2> QED BY <1>1, <1>6, <2>1, <2>2, <2>5 DEF Part
<1>8. buf \o Taken = Seg(frame, a, t)
  <2>1. m <= t
    BY <1>3
  <2> HIDE DEF t
  <2>2. Seg(frame, a, m) \o Seg(frame, m, t) = Seg(frame, a, t)
    <3>1. a \in Nat /\ m \in Nat /\ t \in Nat /\ a <= m /\ m <= t
      BY <1>3, <2>1
    <3> QED BY ONLY <1>0, <3>1, SegJoin, ZenonT(30)
  <2> QED BY <1>5, <2>2
<1>9. Len(buf \o Taken) = t - a
  <2>1. a <= t
    BY <1>3
  <2> HIDE DEF t
  <2>2. Len(Seg(frame, a, t)) = t - a
    BY <1>3, <2>1, SegIs
  <2> QED BY <1>8, <2>2
<1> HIDE DEF t
<1> QED BY <1>3, <1>7, <1>8, <1>9

\* A read that begins, and a select() that sees a byte, leave the bytes alone.
LEMMA ReadBeginsWhole ==
  ASSUME SerialPortAssumption, Typed, Paper, WholeInv, Typed', Paper', cut \subseteq cut',
         ReadBegins \/ SelectReady
  PROVE  WholeInv'
<1> USE DEF opening, reading, writer, counts
<1>1. /\ UNCHANGED <<port, busy, buf, quiet, rx, lost, frame, tx, written, counts>>
      /\ result' = result \/ result' = NoBytes
      /\ pc' # "busy" /\ port = "open"
      /\ pc = "busy" => ~Rejected /\ buf = NoBytes
      /\ pc # "busy" => timer' = timer
  BY DEF ReadBegins, SelectReady, Typed
<1>2. Given' = Given /\ InsideFrame' = InsideFrame
  BY <1>1 DEF Given, InsideFrame, Between
<1>3. ~Doomed /\ ~Doomed'
  BY <1>1 DEF Doomed
<1>4. HeldInv'
  BY <1>1, <1>2, <1>3, HeldKept DEF WholeInv
<1>5. WholeFrames'
  BY <1>1, WholeKept DEF WholeInv
<1>6. TimeInv'
  <2>1. Budget' = Budget
    BY <1>1, BudgetIs
  <2>2. /\ (rx # NoBytes /\ pc = "busy") =>
             quiet + (MaxBusy - busy) + Interval + Budget <= Silence
        /\ (rx # NoBytes /\ pc # "busy") => quiet + Interval + Budget <= Silence
        /\ (rx = NoBytes /\ buf # NoBytes) =>
             (quiet + timer + Budget <= Silence /\ quiet + timer >= Interval)
    BY <1>3 DEF WholeInv, TimeInv
  <2>3. quiet + (MaxBusy - busy) + Interval + Budget <= Silence
          => quiet + Interval + Budget <= Silence
    BY ONLY TimeTypes, SerialPortAssumption, Typed
  <2>4. /\ rx # NoBytes => quiet + Interval + Budget <= Silence
        /\ (rx = NoBytes /\ buf # NoBytes) =>
             (quiet + timer' + Budget <= Silence /\ quiet + timer' >= Interval)
    BY <1>1, <2>2, <2>3
  <2> QED BY <1>1, <2>1, <2>4 DEF TimeInv, Silence
<1> QED BY <1>4, <1>5, <1>6 DEF WholeInv

\* A signal starts the wait again, and costs an interval of the budget.
LEMMA ReadEintrWhole ==
  ASSUME SerialPortAssumption, Typed, Paper, WholeInv, Typed', Paper',
         cut \subseteq cut', ReadEintr
  PROVE  WholeInv'
<1> USE DEF opening, reading, writer, counts
<1>1. /\ UNCHANGED <<port, busy, buf, quiet, rx, lost, frame, tx, written, result>>
      /\ pc' = "waiting" /\ pc \in {"waiting", "reading"} /\ pc # "busy" /\ pc' # "busy"
      /\ timer' = NextWait(have_first_byte) /\ Signal
  BY DEF ReadEintr
<1>2. Given' = Given /\ InsideFrame' = InsideFrame
  BY <1>1 DEF Given, InsideFrame, Between
<1>3. ~Doomed /\ ~Doomed'
  <2>1. ~Doomed
    BY <1>1, InsideRead
  <2> QED BY <1>1, <2>1 DEF Doomed
<1>4. HeldInv'
  BY <1>1, <1>2, <1>3, HeldKept DEF WholeInv
<1>5. WholeFrames'
  BY <1>1, WholeKept DEF WholeInv
<1>6. TimeInv'
  <2>1. Budget' = Budget - Interval /\ Budget' \in Nat
    BY <1>1, BudgetIs
  <2>2. /\ rx # NoBytes => quiet + Interval + Budget <= Silence
        /\ (rx = NoBytes /\ buf # NoBytes) => quiet + timer + Budget <= Silence
    BY <1>1, <1>3 DEF WholeInv, TimeInv
  <2>3. buf # NoBytes => timer' = Interval
    BY <1>1 DEF Typed, NextWait
  <2>4. /\ quiet + Interval + Budget <= Silence => quiet + Interval + (Budget - Interval) <= Silence
        /\ quiet + timer + Budget <= Silence => quiet + Interval + (Budget - Interval) <= Silence
        /\ quiet + Interval >= Interval
    BY ONLY TimeTypes, SerialPortAssumption, Typed
  <2>5. /\ rx # NoBytes => quiet + Interval + (Budget - Interval) <= Silence
        /\ (rx = NoBytes /\ buf # NoBytes) =>
             quiet + Interval + (Budget - Interval) <= Silence /\ quiet + Interval >= Interval
    BY <2>2, <2>4
  <2>6. Silence' = Silence
    BY DEF Silence
  <2> QED BY <1>1, <2>1, <2>3, <2>5, <2>6 DEF TimeInv
<1> QED BY <1>4, <1>5, <1>6 DEF WholeInv

\* A timeout between two bytes is the end of the frame: nothing of it is on
\* its way.
LEMMA TimeoutWhole ==
  ASSUME SerialPortAssumption, GoodLine, Typed, Paper, WholeInv, Typed', Paper',
         cut \subseteq cut', pc = "waiting", rx = NoBytes, timer = 0, Return(buf),
         UNCHANGED <<port, quiet, rx, lost, frame, tx, written>>
  PROVE  WholeInv'
<1>1. /\ UNCHANGED <<port, quiet, rx, lost, frame, tx, written>>
      /\ rx = NoBytes /\ buf' = NoBytes /\ result' = buf /\ timer = 0
      /\ pc \in {"waiting", "reading"}
  BY DEF Return
<1>2. frame' \in Nat /\ frame \in Nat /\ Given \in Nat
  BY GivenIs
<1>3. PICK a \in 0..Given, m \in 0..Given, b \in 0..Given : Held(a, m, b)
  BY DEF WholeInv, HeldInv
<1>4. ~Doomed
  BY <1>1, InsideRead
<1>5. /\ a <= m /\ m <= b /\ b <= Given /\ tx = Seg(frame, b, Given)
      /\ buf = Seg(frame, a, m) /\ rx = Seg(frame, m, b) /\ Founded(a)
      /\ (b > 0 /\ InsideFrame) => quiet <= ByteGap
      /\ a \in Nat /\ m \in Nat /\ b \in Nat
  BY <1>2, <1>3, <1>4 DEF Held
<1>6. m = b
  <2>1. Seg(frame, m, b) = NoBytes <=> m = b
    BY <1>2, <1>5, SegNone
  <2> QED BY <1>1, <1>5, <2>1
<1>7. Given' = Given /\ (InsideFrame' <=> InsideFrame)
  BY <1>1 DEF Given, InsideFrame, Between
<1>8. ASSUME buf # NoBytes
      PROVE  a < b /\ b = Given /\ frame \in Frames /\ written[frame].done
             /\ Given = written[frame].n
  <2>1. a < b
    <3>1. Seg(frame, a, b) = NoBytes <=> a = b
      BY <1>2, <1>5, <1>6, SegNone
    <3> QED BY <1>5, <1>6, <1>8, <3>1
  <2>2. quiet + timer >= Interval
    BY <1>1, <1>4, <1>8 DEF WholeInv, TimeInv
  <2>3. ~(quiet <= ByteGap)
    <3>1. quiet \in Nat /\ Interval \in Nat /\ ByteGap \in Nat /\ ByteGap < Interval
      BY NumFacts, TimeTypes DEF GoodLine
    <3> QED BY <1>1, <2>2, <3>1
  <2>4. ~InsideFrame
    BY <1>5, <2>1, <2>3
  <2>5. tx = NoBytes /\ Between
    BY <2>4 DEF InsideFrame
  <2>6. b = Given
    <3>1. Seg(frame, b, Given) = NoBytes <=> b = Given
      BY <1>2, <1>5, SegNone
    <3> QED BY <1>5, <2>5, <3>1
  <2>7. frame \in Frames /\ Given = written[frame].n
    <3>1. Given > 0
      BY <1>2, <1>5, <2>1, <2>6
    <3> QED BY <3>1, GivenIs
  <2>8. frame # 0
    BY <2>7, ConstFacts
  <2>9. written[frame].done
    BY <2>5, <2>8 DEF Between
  <2> QED BY <2>1, <2>6, <2>7, <2>9
<1>9. Founded(b)'
  <2>1. CASE buf = NoBytes
    <3>1. a = b
      <4>1. Seg(frame, a, b) = NoBytes <=> a = b
        BY <1>2, <1>5, <1>6, SegNone
      <4> QED BY <1>5, <1>6, <2>1, <4>1
    <3> QED BY <1>1, <1>5, <1>7, <3>1, StaysFounded
  <2>2. CASE buf # NoBytes
    BY <1>1, <1>7, <1>8, <2>2 DEF Founded
  <2> QED BY <2>1, <2>2
<1>10. HeldInv'
  <2>1. buf' = Seg(frame', b, b) /\ rx' = Seg(frame', b, b) /\ b <= b
    BY <1>1, <1>2, <1>5, SegNone
  <2>2. tx' = Seg(frame', b, Given') /\ b <= Given'
    BY <1>1, <1>5, <1>7
  <2>3. (b > 0 /\ InsideFrame') => quiet' <= ByteGap
    BY <1>1, <1>5, <1>7
  <2> QED BY <1>5, <1>9, <2>1, <2>2, <2>3, Holds
<1>11. WholeFrames'
  <2>1. CASE buf = NoBytes
    BY <1>1, <2>1, WholeKept DEF WholeInv
  <2>2. CASE buf # NoBytes
    <3>1. /\ a \in Nat /\ b \in Nat /\ a < b /\ b <= written[frame].n /\ frame \in Frames
          /\ UNCHANGED <<frame, written>> /\ result' = Seg(frame, a, b)
      BY <1>1, <1>5, <1>6, <1>8, <2>2
    <3>2. FrameLen[frame] <= MaxLen => /\ written[frame].done /\ b = written[frame].n
                                       /\ a = 0 \/ <<frame, a>> \in lost' \cup cut'
      <4>1. a # Given
        BY <1>8, <2>2, <1>5
      <4>2. FrameLen[frame] <= MaxLen /\ FrameLen[frame] > MaxLen => FALSE
        BY <3>1, ConstFacts, NumFacts
      <4> QED BY <1>1, <1>5, <1>8, <2>2, <4>1, <4>2 DEF Founded
    <3> QED BY <3>1, <3>2, WholeOf
  <2> QED BY <2>1, <2>2
<1>12. TimeInv'
  BY <1>1, NothingLate
<1> QED BY <1>10, <1>11, <1>12 DEF WholeInv

\* A read that fails loses what it had: what follows begins after a lost byte.
LEMMA ReadFailsWhole ==
  ASSUME SerialPortAssumption, Typed, Paper, WholeInv, Typed', Paper',
         cut \subseteq cut', ReadFails
  PROVE  WholeInv'
<1> USE DEF opening, reading, writer, counts
<1>1. /\ UNCHANGED <<port, quiet, rx, frame, tx, written>>
      /\ pc \in {"waiting", "reading"} /\ pc # "busy" /\ pc' = "busy" /\ busy' = 0
      /\ result' = NoBytes /\ buf' = NoBytes
      /\ lost' = lost \cup ToSet(buf) /\ Fault
  BY DEF ReadFails
<1>2. frame' \in Nat /\ frame \in Nat /\ Given \in Nat
  BY GivenIs
<1>3. PICK a \in 0..Given, m \in 0..Given, b \in 0..Given : Held(a, m, b)
  BY DEF WholeInv, HeldInv
<1>4. ~Doomed
  BY <1>1, InsideRead
<1>5. /\ a <= m /\ m <= b /\ b <= Given /\ tx = Seg(frame, b, Given)
      /\ buf = Seg(frame, a, m) /\ rx = Seg(frame, m, b) /\ Founded(a)
      /\ (b > 0 /\ InsideFrame) => quiet <= ByteGap
      /\ a \in Nat /\ m \in Nat /\ b \in Nat
  BY <1>2, <1>3, <1>4 DEF Held
<1>6. Given' = Given /\ (InsideFrame' <=> InsideFrame)
  BY <1>1 DEF Given, InsideFrame, Between
<1>7. Founded(m)'
  <2>1. CASE a = m
    BY <1>1, <1>5, <1>6, <2>1, StaysFounded
  <2>2. CASE a # m
    <3>1. a < m
      BY <1>5, <2>2
    <3>2. <<frame, m>> \in ToSet(Seg(frame, a, m))
      BY <1>2, <1>5, <3>1, SegLast
    <3> QED BY <1>1, <1>5, <3>2 DEF Founded
  <2> QED BY <2>1, <2>2
<1>8. HeldInv'
  <2>1. buf' = Seg(frame', m, m) /\ rx' = Seg(frame', m, b) /\ m <= m
    BY <1>1, <1>2, <1>5, SegNone
  <2>2. tx' = Seg(frame', b, Given') /\ b <= Given'
    BY <1>1, <1>5, <1>6
  <2>3. (b > 0 /\ InsideFrame') => quiet' <= ByteGap
    BY <1>1, <1>5, <1>6
  <2> QED BY <1>5, <1>7, <2>1, <2>2, <2>3, Holds
<1>9. WholeFrames'
  BY <1>1, WholeKept DEF WholeInv
<1>10. TimeInv'
  <2>1. Budget' = Budget - MaxBusy /\ Budget' \in Nat
    BY <1>1, BudgetIs
  <2>2. rx # NoBytes => quiet + Interval + Budget <= Silence
    BY <1>1, <1>4 DEF WholeInv, TimeInv
  <2>3. quiet + Interval + Budget <= Silence
          => quiet + (MaxBusy - 0) + Interval + (Budget - MaxBusy) <= Silence
    BY ONLY TimeTypes, SerialPortAssumption, Typed
  <2>4. Silence' = Silence
    BY DEF Silence
  <2> QED BY <1>1, <2>1, <2>2, <2>3, <2>4 DEF TimeInv
<1> QED BY <1>8, <1>9, <1>10 DEF WholeInv

\* What a read that took what it could has, and what it left, are pieces of the
\* current frame; it left nothing, or its buffer is full.
LEMMA ReadTakes ==
  ASSUME SerialPortAssumption, Typed, Paper, WholeInv, pc \in {"waiting", "reading"},
         rx' = SubSeq(rx, Len(Taken) + 1, Len(rx)), UNCHANGED <<quiet, frame, tx, written>>
  PROVE  \E a, t, b \in Nat :
           /\ a <= t /\ t <= b /\ b <= Given /\ Founded(a)
           /\ buf \o Taken = Seg(frame, a, t) /\ Len(buf \o Taken) = t - a
           /\ t - a <= MaxLen /\ (t = b \/ t - a = MaxLen)
           /\ rx' = Seg(frame, t, b) /\ tx' = Seg(frame, b, Given)
           /\ (b > 0 /\ InsideFrame') => quiet' <= ByteGap
<1>2. frame \in Nat /\ Given \in Nat
  BY GivenIs
<1>3. PICK a \in 0..Given, m \in 0..Given, b \in 0..Given : Held(a, m, b)
  BY DEF WholeInv, HeldInv
<1>4. ~Doomed
  BY InsideRead
<1>5. /\ a <= m /\ m <= b /\ b <= Given /\ tx = Seg(frame, b, Given)
      /\ buf = Seg(frame, a, m) /\ rx = Seg(frame, m, b) /\ Founded(a)
      /\ (b > 0 /\ InsideFrame) => quiet <= ByteGap
      /\ a \in Nat /\ m \in Nat /\ b \in Nat
  BY <1>2, <1>3, <1>4 DEF Held
<1>6. PICK t \in m..b :
           /\ SubSeq(rx, Len(Taken) + 1, Len(rx)) = Seg(frame, t, b)
           /\ buf \o Taken = Seg(frame, a, t)
           /\ Len(buf \o Taken) = t - a
           /\ t - a <= MaxLen /\ (t = b \/ t - a = MaxLen)
  BY <1>5, Takes
<1>7. t \in Nat /\ t <= b /\ a <= t /\ rx' = Seg(frame, t, b)
  BY SMTT(30), <1>5, <1>6
<1>8. (b > 0 /\ InsideFrame') => quiet' <= ByteGap
  BY <1>5 DEF InsideFrame, Between
<1> QED BY <1>5, <1>6, <1>7, <1>8

\* A read that returns with its buffer full: what is then left belongs to a
\* frame that does not fit.
LEMMA FullWhole ==
  ASSUME SerialPortAssumption, Typed, Paper, WholeInv, Typed', Paper', cut \subseteq cut',
         pc \in {"waiting", "reading"}, Return(buf \o Taken), Len(buf \o Taken) >= MaxLen,
         rx' = SubSeq(rx, Len(Taken) + 1, Len(rx)),
         UNCHANGED <<port, quiet, lost, frame, tx, written>>
  PROVE  WholeInv'
<1>1. UNCHANGED <<port, quiet, lost, frame, tx, written>>
  OBVIOUS
<1>2. frame' \in Nat /\ frame \in Nat /\ Given \in Nat /\ MaxLen \in Nat \ {0}
  BY GivenIs, NumFacts
<1>3. PICK a \in Nat, t \in Nat, b \in Nat :
           /\ a <= t /\ t <= b /\ b <= Given /\ Founded(a)
           /\ buf \o Taken = Seg(frame, a, t) /\ Len(buf \o Taken) = t - a
           /\ t - a <= MaxLen /\ (t = b \/ t - a = MaxLen)
           /\ rx' = Seg(frame, t, b) /\ tx' = Seg(frame, b, Given)
           /\ (b > 0 /\ InsideFrame') => quiet' <= ByteGap
  BY ReadTakes
<1>4. ~Doomed /\ pc # "busy"
  BY InsideRead
<1>5. Given' = Given
  BY <1>1 DEF Given
<1>6. tx' = Seg(frame', b, Given') /\ b <= Given' /\ frame' = frame
      /\ ((b > 0 /\ InsideFrame') => quiet' <= ByteGap)
  BY <1>1, <1>3, <1>5
<1>11. result' = Seg(frame, a, t) /\ buf' = NoBytes /\ pc' = "busy"
  BY <1>3 DEF Return
<1>12. t - a = MaxLen /\ a < t
  BY <1>2, <1>3
<1>13. frame \in Frames /\ t <= written[frame].n /\ written[frame].n <= FrameLen[frame]
      /\ Given = written[frame].n /\ (Given = FrameLen[frame] => written[frame].done)
  <2>1. Given > 0 /\ t <= Given
    BY <1>2, <1>3, <1>12
  <2> QED BY <1>2, <2>1, GivenIs
<1>14. FrameLen[frame] \in Nat /\ written[frame].n \in Nat
  BY <1>13, ConstFacts DEF Paper
<1>15. FrameLen[frame] <= MaxLen => a = 0 /\ t = Given /\ Given = FrameLen[frame]
  BY <1>2, <1>3, <1>12, <1>13, <1>14
<1>16. Founded(t)'
  <2>1. FrameLen[frame] > MaxLen \/ FrameLen[frame] <= MaxLen
    BY <1>2, <1>14
  <2>2. FrameLen[frame] <= MaxLen => t = Given' /\ written'[frame'].done
    BY <1>1, <1>5, <1>13, <1>15
  <2> QED BY <1>1, <2>1, <2>2 DEF Founded
<1>17. HeldInv'
  <2>1. buf' = Seg(frame', t, t) /\ t <= t
    BY <1>2, <1>3, <1>11, SegNone
  <2>2. rx' = Seg(frame', t, b)
    BY <1>3, <1>6
  <2> QED BY <1>3, <1>6, <1>16, <2>1, <2>2, Holds
<1>18. WholeFrames'
  <2>1. FrameLen[frame] <= MaxLen => /\ written[frame].done /\ t = written[frame].n
                                     /\ a = 0
    BY <1>13, <1>15
  <2> QED BY <1>1, <1>3, <1>11, <1>12, <1>13, <2>1, WholeOf
<1>19. TimeInv'
  <2>1. CASE rx' = NoBytes
    BY <1>11, <2>1, NothingLate
  <2>2. CASE rx' # NoBytes
    <3>1. t < b
      <4>1. Seg(frame, t, b) = NoBytes <=> t = b
        BY <1>2, <1>3, SegNone
      <4> QED BY <1>3, <2>2, <4>1
    <3>2. t - a # FrameLen[frame]
      BY <1>2, <1>3, <1>12, <1>13, <1>14, <3>1
    <3>3. Rejected'
      BY <1>3, <1>11, <1>12, <1>13, <3>2, PartRejected DEF Rejected
    <3> QED BY <1>11, <3>3 DEF TimeInv, Doomed
  <2> QED BY <2>1, <2>2
<1> QED BY <1>17, <1>18, <1>19 DEF WholeInv

\* A read that goes on with more of the frame, and waits for the next byte.
LEMMA MoreWhole ==
  ASSUME SerialPortAssumption, Typed, Paper, WholeInv, Typed', Paper', cut \subseteq cut',
         pc \in {"waiting", "reading"}, rx # NoBytes, Len(buf \o Taken) < MaxLen,
         buf' = buf \o Taken, rx' = SubSeq(rx, Len(Taken) + 1, Len(rx)),
         timer' = Interval, pc' = "waiting",
         UNCHANGED <<port, quiet, lost, frame, tx, written, result, eintr, faults>>
  PROVE  WholeInv'
<1>1. UNCHANGED <<port, quiet, lost, frame, tx, written, result, eintr, faults>>
  OBVIOUS
<1>2. frame' \in Nat /\ frame \in Nat /\ Given \in Nat /\ MaxLen \in Nat \ {0}
  BY GivenIs, NumFacts
<1>3. PICK a \in Nat, t \in Nat, b \in Nat :
           /\ a <= t /\ t <= b /\ b <= Given /\ Founded(a)
           /\ buf \o Taken = Seg(frame, a, t) /\ Len(buf \o Taken) = t - a
           /\ t - a <= MaxLen /\ (t = b \/ t - a = MaxLen)
           /\ rx' = Seg(frame, t, b) /\ tx' = Seg(frame, b, Given)
           /\ (b > 0 /\ InsideFrame') => quiet' <= ByteGap
  BY ReadTakes
<1>4. ~Doomed /\ pc # "busy"
  BY InsideRead
<1>5. Given' = Given
  BY <1>1 DEF Given
<1>6. tx' = Seg(frame', b, Given') /\ b <= Given' /\ frame' = frame
      /\ ((b > 0 /\ InsideFrame') => quiet' <= ByteGap)
  BY <1>1, <1>3, <1>5
<1>12. t = b
  BY <1>2, <1>3
<1>13. rx' = NoBytes /\ rx' = Seg(frame', b, b) /\ b <= b
  BY <1>2, <1>3, <1>6, <1>12, SegNone
<1>14. Founded(a)'
  BY <1>1, <1>3, <1>5, StaysFounded
<1>15. HeldInv'
  <2>1. buf' = Seg(frame', a, b) /\ a <= b
    BY <1>3, <1>6, <1>12
  <2> QED BY <1>3, <1>6, <1>13, <1>14, <2>1, Holds
<1>16. WholeFrames'
  BY <1>1, WholeKept DEF WholeInv
<1>17. TimeInv'
  <2>1. Budget' = Budget /\ Silence' = Silence
    BY <1>1 DEF Budget, Silence
  <2>2. quiet + Interval + Budget <= Silence
    BY <1>4 DEF WholeInv, TimeInv
  <2>3. quiet + Interval >= Interval
    BY TimeTypes
  <2>4. quiet' + timer' + Budget' <= Silence' /\ quiet' + timer' >= Interval
    BY <1>1, <2>1, <2>2, <2>3
  <2> QED BY <1>13, <2>4 DEF TimeInv
<1> QED BY <1>15, <1>16, <1>17 DEF WholeInv

\* The last byte of a piece of a frame.
LEMMA SegEnd ==
  ASSUME NEW f \in Nat, NEW a \in Nat, NEW b \in Nat, a < b
  PROVE  <<f, b>> \in EndOf(Seg(f, a, b))
<1>1. PICK l \in Nat : l = b - a
  OBVIOUS
<1>2. a <= b /\ l \in 1..b - a /\ a + l = b /\ l # 0
  BY <1>1
<1>3. /\ Len(Seg(f, a, b)) = b - a
      /\ \A i \in 1..b - a : Seg(f, a, b)[i] = <<f, a + i>>
  BY ONLY <1>2, f \in Nat, a \in Nat, b \in Nat, SegIs, Zenon
<1>4. Seg(f, a, b)[l] = <<f, a + l>>
  BY ONLY <1>2, <1>3, Zenon
<1>5. l \in {Len(Seg(f, a, b))} \ {0} /\ Seg(f, a, b)[l] = <<f, b>>
  BY <1>1, <1>2, <1>3, <1>4
<1> QED BY <1>5 DEF EndOf

\* A read that returns a piece behind whose last byte the frame is cut.
LEMMA CutWhole ==
  ASSUME SerialPortAssumption, Typed, Paper, Paper', NEW a \in Nat, NEW b \in Nat,
         a <= b, b <= Given, Founded(a), result' = Seg(frame, a, b),
         a < b => <<frame, b>> \in cut', cut \subseteq cut',
         UNCHANGED <<lost, frame, written>>
  PROVE  WholeFrames'
<1>1. UNCHANGED <<lost, frame, written>>
  OBVIOUS
<1>2. frame \in Nat /\ Given \in Nat /\ MaxLen \in Nat \ {0}
  BY GivenIs, NumFacts
<1>3. CASE a = b
  <2>1. result' = NoBytes
    BY <1>2, <1>3, SegNone
  <2> QED BY <2>1 DEF WholeFrames
<1>4. CASE a < b
  <2>1. frame \in Frames /\ b <= written[frame].n /\ FrameLen[frame] \in Nat
    <3>1. Given > 0
      BY <1>2, <1>4
    <3>2. frame \in Frames /\ b <= written[frame].n
      BY <1>2, <3>1, GivenIs
    <3> QED BY <3>2, ConstFacts
  <2>2. a = Given => FALSE
    BY <1>2, <1>4
  <2>3. FrameLen[frame] <= MaxLen => a = 0 \/ <<frame, a>> \in lost' \cup cut'
    <3>1. FrameLen[frame] <= MaxLen /\ FrameLen[frame] > MaxLen => FALSE
      BY <1>2, <2>1
    <3> QED BY <1>1, <2>2, <3>1 DEF Founded
  <2> QED BY <1>1, <1>4, <2>1, <2>3, WholeOf
<1> QED BY <1>3, <1>4

\* A read that ReadFile's total timeout ends with room in its buffer: it returns
\* all that has come, and its last byte is where the frame is cut.
LEMMA TotalWhole ==
  ASSUME SerialPortAssumption, Typed, Paper, WholeInv, Typed', Paper', cut \subseteq cut',
         pc \in {"waiting", "reading"}, Return(buf \o Taken), Len(buf \o Taken) < MaxLen,
         EndOf(buf \o Taken) \subseteq cut',
         rx' = SubSeq(rx, Len(Taken) + 1, Len(rx)),
         UNCHANGED <<port, quiet, lost, frame, tx, written>>
  PROVE  WholeInv'
<1>1. UNCHANGED <<port, quiet, lost, frame, tx, written>>
  OBVIOUS
<1>2. frame' \in Nat /\ frame \in Nat /\ Given \in Nat /\ MaxLen \in Nat \ {0}
  BY GivenIs, NumFacts
<1>3. PICK a \in Nat, t \in Nat, b \in Nat :
           /\ a <= t /\ t <= b /\ b <= Given /\ Founded(a)
           /\ buf \o Taken = Seg(frame, a, t) /\ Len(buf \o Taken) = t - a
           /\ t - a <= MaxLen /\ (t = b \/ t - a = MaxLen)
           /\ rx' = Seg(frame, t, b) /\ tx' = Seg(frame, b, Given)
           /\ (b > 0 /\ InsideFrame') => quiet' <= ByteGap
  BY ReadTakes
<1>4. ~Doomed /\ pc # "busy"
  BY InsideRead
<1>5. Given' = Given
  BY <1>1 DEF Given
<1>6. tx' = Seg(frame', b, Given') /\ b <= Given' /\ frame' = frame
      /\ ((b > 0 /\ InsideFrame') => quiet' <= ByteGap)
  BY <1>1, <1>3, <1>5
<1>11. result' = Seg(frame, a, t) /\ buf' = NoBytes
  BY <1>3 DEF Return
<1>12. t = b
  BY <1>2, <1>3
<1>13. rx' = NoBytes /\ rx' = Seg(frame', b, b) /\ b <= b
  BY <1>2, <1>3, <1>6, <1>12, SegNone
<1>14. a < b => <<frame, b>> \in cut'
  BY <1>2, <1>3, <1>12, SegEnd
<1>15. Founded(b)'
  <2>1. CASE a = b
    BY <1>1, <1>3, <1>5, <2>1, StaysFounded
  <2>2. CASE a < b
    BY <1>6, <1>14, <2>2 DEF Founded
  <2> QED BY <1>3, <1>12, <2>1, <2>2
<1>16. HeldInv'
  <2>1. buf' = Seg(frame', b, b)
    BY <1>11, <1>13
  <2> QED BY <1>3, <1>6, <1>13, <1>15, <2>1, Holds
<1>17. WholeFrames'
  <2>1. b <= Given
    BY <1>3
  <2> QED BY <1>1, <1>2, <1>3, <1>11, <1>12, <1>14, <2>1, CutWhole
<1>18. TimeInv'
  BY <1>11, <1>13, NothingLate
<1> QED BY <1>16, <1>17, <1>18 DEF WholeInv

\* read() gives 0: the read returns what it has, and the last byte of that is
\* where the frame is cut; what follows begins behind it.
LEMMA ReadNoneWhole ==
  ASSUME SerialPortAssumption, Typed, Paper, WholeInv, Typed', Paper',
         cut \subseteq cut', ReadNone
  PROVE  WholeInv'
<1> USE DEF opening, reading, writer, counts
<1>1. /\ UNCHANGED <<port, quiet, rx, lost, frame, tx, written>>
      /\ pc \in {"waiting", "reading"} /\ pc # "busy" /\ pc' = "busy" /\ busy' = 0
      /\ result' = buf /\ buf' = NoBytes
      /\ EndOf(buf) \subseteq cut' /\ Failure
  BY DEF ReadNone, Return
<1>2. frame' \in Nat /\ frame \in Nat /\ Given \in Nat
  BY GivenIs
<1>3. PICK a \in 0..Given, m \in 0..Given, b \in 0..Given : Held(a, m, b)
  BY DEF WholeInv, HeldInv
<1>4. ~Doomed
  BY <1>1, InsideRead
<1>5. /\ a <= m /\ m <= b /\ b <= Given /\ tx = Seg(frame, b, Given)
      /\ buf = Seg(frame, a, m) /\ rx = Seg(frame, m, b) /\ Founded(a)
      /\ (b > 0 /\ InsideFrame) => quiet <= ByteGap
      /\ a \in Nat /\ m \in Nat /\ b \in Nat
  BY <1>2, <1>3, <1>4 DEF Held
<1>6. Given' = Given /\ (InsideFrame' <=> InsideFrame)
  BY <1>1 DEF Given, InsideFrame, Between
<1>7. a < m => <<frame, m>> \in cut'
  BY <1>1, <1>2, <1>5, SegEnd
<1>8. Founded(m)'
  <2>1. CASE a = m
    BY <1>1, <1>5, <1>6, <2>1, StaysFounded
  <2>2. CASE a < m
    BY <1>1, <1>7, <2>2 DEF Founded
  <2> QED BY <1>5, <2>1, <2>2
<1>9. HeldInv'
  <2>1. buf' = Seg(frame', m, m) /\ rx' = Seg(frame', m, b) /\ m <= m
    BY <1>1, <1>2, <1>5, SegNone
  <2>2. tx' = Seg(frame', b, Given') /\ b <= Given'
    BY <1>1, <1>5, <1>6
  <2>3. (b > 0 /\ InsideFrame') => quiet' <= ByteGap
    BY <1>1, <1>5, <1>6
  <2> QED BY <1>5, <1>8, <2>1, <2>2, <2>3, Holds
<1>10. WholeFrames'
  <2>1. m <= Given
    BY <1>2, <1>5
  <2> QED BY <1>1, <1>2, <1>5, <1>7, <2>1, CutWhole
<1>11. TimeInv'
  <2>1. Budget' = Budget - MaxBusy /\ Budget' \in Nat
    BY <1>1, BudgetIs
  <2>2. rx # NoBytes => quiet + Interval + Budget <= Silence
    BY <1>1, <1>4 DEF WholeInv, TimeInv
  <2>3. quiet + Interval + Budget <= Silence
          => quiet + (MaxBusy - 0) + Interval + (Budget - MaxBusy) <= Silence
    BY ONLY TimeTypes, SerialPortAssumption, Typed
  <2>4. Silence' = Silence
    BY DEF Silence
  <2> QED BY <1>1, <2>1, <2>2, <2>3, <2>4 DEF TimeInv
<1> QED BY <1>9, <1>10, <1>11 DEF WholeInv

\* read(): the reader goes on, or returns with its buffer full.
LEMMA ReadSomeWhole ==
  ASSUME SerialPortAssumption, Typed, Paper, WholeInv, Typed', Paper', cut \subseteq cut',
         ReadSome
  PROVE  WholeInv'
<1> USE DEF opening, reading, writer, counts
<1>1. /\ UNCHANGED <<port, quiet, lost, frame, tx, written, eintr, faults>>
      /\ pc \in {"waiting", "reading"} /\ rx # NoBytes
      /\ rx' = SubSeq(rx, Len(Taken) + 1, Len(rx))
  BY DEF ReadSome, Typed
<1>2. CASE Len(buf \o Taken) >= MaxLen
  <2>1. Return(buf \o Taken)
    BY <1>2 DEF ReadSome
  <2> QED BY <1>1, <1>2, <2>1, FullWhole
<1>3. CASE ~(Len(buf \o Taken) >= MaxLen)
  <2>1. buf' = buf \o Taken /\ timer' = Interval /\ pc' = "waiting" /\ result' = result
    BY <1>3 DEF ReadSome, NextWait
  <2>2. Len(buf \o Taken) < MaxLen
    BY <1>1, <1>3, TakenIs, NumFacts
  <2> QED BY <1>1, <2>1, <2>2, MoreWhole
<1> QED BY <1>2, <1>3

\* ReadFile(): the driver goes on, or the buffer is full, or the line was silent
\* after a byte, or the call has lasted as long as it may.
LEMMA ReadFileWhole ==
  ASSUME SerialPortAssumption, GoodLine, Typed, Paper, WholeInv, Typed', Paper',
         cut \subseteq cut', ReadFile
  PROVE  WholeInv'
<1> USE DEF opening, reading, writer, counts
<1>1. /\ UNCHANGED <<port, quiet, lost, frame, tx, written, eintr, faults>>
      /\ pc = "waiting" /\ pc \in {"waiting", "reading"}
      /\ rx' = SubSeq(rx, Len(Taken) + 1, Len(rx))
  BY DEF ReadFile
<1>2. /\ Taken \in Seq(Bytes) /\ buf \in Seq(Bytes) /\ Len(buf \o Taken) \in Nat
      /\ rx = NoBytes => Taken = NoBytes
  <2>1. Taken \in Seq(Bytes) /\ buf \o Taken \in Seq(Bytes) /\ (rx = NoBytes => Taken = NoBytes)
    BY <1>1, TakenIs
  <2>2. buf \in Seq(Bytes)
    BY DEF Typed
  <2> HIDE DEF Taken
  <2>3. Len(buf \o Taken) \in Nat
    BY <2>1
  <2> QED BY <2>1, <2>2, <2>3
<1>3. CASE rx # NoBytes /\ Len(buf \o Taken) < MaxLen /\ pc' = pc
  <2>1. buf' = buf \o Taken /\ timer' = Interval /\ pc' = "waiting" /\ result' = result
    BY <1>1, <1>3 DEF ReadFile, Return
  <2> QED BY <1>1, <1>3, <2>1, MoreWhole
<1>4. CASE Return(buf \o Taken) /\ Len(buf \o Taken) >= MaxLen
  BY <1>1, <1>4, FullWhole
<1>5. CASE Return(buf \o Taken) /\ Len(buf \o Taken) < MaxLen
           /\ EndOf(buf \o Taken) \subseteq cut'
  BY <1>1, <1>5, TotalWhole
<1>6. CASE Return(buf \o Taken) /\ rx = NoBytes /\ timer = 0
  <2>1. buf \o Taken = buf /\ rx' = rx
    BY <1>1, <1>2, <1>6 DEF NoBytes
  <2> QED BY <1>1, <1>6, <2>1, TimeoutWhole
<1>7. Len(buf \o Taken) >= MaxLen \/ Len(buf \o Taken) < MaxLen
  BY <1>2, NumFacts
<1> QED BY <1>1, <1>3, <1>4, <1>5, <1>6, <1>7 DEF ReadFile, Return

-----------------------------------------------------------------------------
\* A flush of a buffer that had to be emptied: what follows begins after a lost
\* byte, if not at the beginning of a frame.
LEMMA FlushWhole ==
  ASSUME SerialPortAssumption, Typed, Paper, WholeInv, Typed', Paper',
         cut \subseteq cut', Doomed, Flush,
         UNCHANGED <<buf, quiet, frame, tx, written>>, buf = NoBytes,
         result' = result \/ result' = NoBytes
  PROVE  WholeInv'
<1>1. /\ UNCHANGED <<quiet, frame, tx, written>>
      /\ rx' = NoBytes /\ buf' = NoBytes /\ lost' = lost \cup ToSet(rx)
  BY DEF Flush
<1>2. frame' \in Nat /\ frame \in Nat /\ Given \in Nat
  BY GivenIs
<1>3. PICK a \in 0..Given, m \in 0..Given, b \in 0..Given : Held(a, m, b)
  BY DEF WholeInv, HeldInv
<1>4. /\ b <= Given /\ b <= b /\ b \in Nat /\ tx = Seg(frame, b, Given)
      /\ rx = NoBytes => Founded(b)
      /\ (rx # NoBytes /\ b > 0) => <<frame, b>> \in ToSet(rx)
      /\ (b > 0 /\ InsideFrame) => quiet <= ByteGap
  BY <1>2, <1>3 DEF Held
<1>5. Given' = Given /\ (InsideFrame' <=> InsideFrame)
  BY <1>1 DEF Given, InsideFrame, Between
<1>6. Founded(b)'
  <2>1. CASE rx = NoBytes
    BY <1>1, <1>4, <1>5, <2>1, StaysFounded
  <2>2. CASE b = 0
    BY <2>2 DEF Founded
  <2>3. CASE rx # NoBytes /\ b # 0
    <3>1. b > 0
      BY <1>4, <2>3
    <3> QED BY <1>1, <1>4, <2>3, <3>1 DEF Founded
  <2> QED BY <2>1, <2>2, <2>3
<1>7. HeldInv'
  <2>1. buf' = Seg(frame', b, b) /\ rx' = Seg(frame', b, b)
    BY <1>1, <1>2, <1>4, SegNone
  <2>2. tx' = Seg(frame', b, Given') /\ b <= Given'
    BY <1>1, <1>4, <1>5
  <2>3. (b > 0 /\ InsideFrame') => quiet' <= ByteGap
    BY <1>1, <1>4, <1>5
  <2> QED BY <1>4, <1>6, <2>1, <2>2, <2>3, Holds
<1>8. WholeFrames'
  BY <1>1, WholeKept DEF WholeInv
<1>9. TimeInv'
  BY <1>1, NothingLate
<1> QED BY <1>7, <1>8, <1>9 DEF WholeInv

\* A port that is not open is flushed before it is read.
LEMMA ShutWhole ==
  ASSUME SerialPortAssumption, Typed, Paper, WholeInv, Typed', Paper',
         cut \subseteq cut', port' # "open",
         UNCHANGED <<buf, quiet, rx, lost, frame, tx, written, result>>
  PROVE  WholeInv'
<1>1. UNCHANGED <<buf, quiet, rx, lost, frame, tx, written, result>> /\ Doomed'
  BY DEF Doomed
<1>2. frame' \in Nat /\ frame \in Nat /\ Given \in Nat
  BY GivenIs
<1>3. Given' = Given /\ (InsideFrame' <=> InsideFrame)
  BY <1>1 DEF Given, InsideFrame, Between
<1>4. HeldInv'
  <2>1. CASE Doomed
    BY <1>1, <1>3, <2>1, HeldKept DEF WholeInv
  <2>2. CASE ~Doomed
    <3>1. PICK a \in 0..Given, m \in 0..Given, b \in 0..Given : Held(a, m, b)
      BY DEF WholeInv, HeldInv
    <3>2. /\ a <= m /\ m <= b /\ b <= Given /\ tx = Seg(frame, b, Given)
          /\ buf = Seg(frame, a, m) /\ rx = Seg(frame, m, b) /\ Founded(a)
          /\ (b > 0 /\ InsideFrame) => quiet <= ByteGap
          /\ a \in Nat /\ m \in Nat /\ b \in Nat
      BY <1>2, <2>2, <3>1 DEF Held
    <3>3. Founded(a)'
      BY <1>1, <1>3, <3>2, StaysFounded
    <3>4. /\ tx' = Seg(frame', b, Given') /\ b <= Given'
          /\ buf' = Seg(frame', a, m) /\ rx' = Seg(frame', m, b)
          /\ (b > 0 /\ InsideFrame') => quiet' <= ByteGap
      BY <1>1, <1>3, <3>2
    <3> QED BY <3>2, <3>3, <3>4, Holds
  <2> QED BY <2>1, <2>2
<1>5. WholeFrames'
  BY <1>1, WholeKept DEF WholeInv
<1>6. TimeInv'
  BY <1>1 DEF TimeInv
<1> QED BY <1>4, <1>5, <1>6 DEF WholeInv

\* A tick: what waits gets older, and what may still delay it gets less.
LEMMA TickWhole ==
  ASSUME SerialPortAssumption, GoodLine,
         Typed, Paper, WholeInv, Typed', Paper',
         cut \subseteq cut', Tick
  PROVE  WholeInv'
<1> USE DEF opening, reading, writer, counts
<1>1. /\ UNCHANGED <<port, pc, buf, result, frame, tx, written, rx, lost, counts>>
      /\ ReaderIdle /\ (InsideFrame => quiet < ByteGap)
      /\ timer' = Minus1(timer)
      /\ busy' = IF busy < MaxBusy THEN busy + 1 ELSE busy
      /\ quiet' = IF quiet < FrameGap THEN quiet + 1 ELSE quiet
  BY DEF Tick
<1>2. Given' = Given /\ (InsideFrame' <=> InsideFrame)
  BY <1>1 DEF Given, InsideFrame, Between
<1>3. Doomed' <=> Doomed
  BY <1>1, SameDoom
<1>4. quiet \in Nat /\ ByteGap \in Nat
  BY NumFacts, TimeTypes
<1>5. HeldInv'
  <2>1. InsideFrame' => InsideFrame /\ quiet' <= ByteGap
    BY <1>1, <1>2, <1>4
  <2> QED BY <1>1, <1>2, <1>3, <2>1, HeldKept DEF WholeInv
<1>6. WholeFrames'
  BY <1>1, WholeKept DEF WholeInv
<1>7. TimeInv'
  <2> SUFFICES ASSUME ~Doomed PROVE TimeInv'
    BY <1>3 DEF TimeInv
  <2>1. Budget' = Budget /\ Silence' = Silence
    BY <1>1, BudgetIs DEF Silence
  <2>2. port = "open" /\ pc \in {"busy", "waiting", "reading"} /\ pc # "reading"
    <3>1. port = "open"
      BY DEF Doomed
    <3>2. pc # "reading"
      BY <1>1 DEF ReaderIdle
    <3> QED BY <3>1, <3>2 DEF Typed
  <2>3. CASE pc = "waiting"
    <3>1. rx = NoBytes /\ (buf # NoBytes => timer > 0)
      BY <1>1, <2>3, ConstFacts DEF ReaderIdle, Typed
    <3>2. CASE buf = NoBytes
      BY <1>1, <3>1, <3>2, NothingLate
    <3>3. CASE buf # NoBytes
      <4>1. quiet < FrameGap
        BY <3>3, StillFresh DEF WholeInv
      <4>2. quiet + timer + Budget <= Silence /\ quiet + timer >= Interval
        BY <3>1, <3>3 DEF WholeInv, TimeInv
      <4>3. quiet' = quiet + 1 /\ timer' = timer - 1
        BY <1>1, <3>1, <3>3, <4>1 DEF Minus1
      <4>4. (quiet + 1) + (timer - 1) = quiet + timer
        BY ONLY TimeTypes, SerialPortAssumption, Typed
      <4>5. quiet' + timer' + Budget' <= Silence' /\ quiet' + timer' >= Interval
        BY <2>1, <4>2, <4>3, <4>4
      <4> QED BY <1>1, <3>1, <4>5 DEF TimeInv
    <3> QED BY <3>2, <3>3
  <2>4. CASE pc = "busy"
    <3>1. buf = NoBytes /\ busy < MaxBusy
      BY <1>1, <2>2, <2>4 DEF ReaderIdle, Typed
    <3>2. CASE rx = NoBytes
      BY <1>1, <3>1, <3>2, NothingLate
    <3>3. CASE rx # NoBytes
      <4>1. quiet < FrameGap
        BY <3>3, StillFresh DEF WholeInv
      <4>2. quiet + (MaxBusy - busy) + Interval + Budget <= Silence
        BY <2>4, <3>3 DEF WholeInv, TimeInv
      <4>3. quiet' = quiet + 1 /\ busy' = busy + 1
        BY <1>1, <3>1, <4>1
      <4>4. (quiet + 1) + (MaxBusy - (busy + 1)) = quiet + (MaxBusy - busy)
        BY ONLY TimeTypes, SerialPortAssumption, Typed
      <4>5. quiet' + (MaxBusy - busy') + Interval + Budget' <= Silence'
        BY <2>1, <4>2, <4>3, <4>4
      <4> QED BY <1>1, <2>4, <3>3, <4>5 DEF TimeInv
    <3> QED BY <3>2, <3>3
  <2> QED BY <2>2, <2>3, <2>4
<1> QED BY <1>5, <1>6, <1>7 DEF WholeInv

\* Nothing happens.
LEMMA StutterWhole ==
  ASSUME SerialPortAssumption, Typed, Paper, WholeInv, Typed', Paper',
         cut \subseteq cut', UNCHANGED vars
  PROVE  WholeInv'
<1> USE DEF opening, reading, writer, counts
<1>1. UNCHANGED <<port, pc, busy, buf, timer, result, quiet, rx, lost, frame, tx, written, counts>>
  BY DEF vars
<1>2. Budget' \in Nat /\ Budget' <= Budget
  <2>1. Budget' = Budget
    BY <1>1, BudgetIs
  <2> QED BY <2>1, TimeTypes
<1>3. TimeInv' /\ WholeFrames'
  BY <1>1, <1>2, ReaderKept
<1>4. Given' = Given /\ InsideFrame' = InsideFrame
  BY <1>1 DEF Given, InsideFrame, Between
<1>5. Doomed' <=> Doomed
  BY <1>1, SameDoom
<1>6. HeldInv'
  BY <1>1, <1>4, <1>5, HeldKept DEF WholeInv
<1> QED BY <1>3, <1>6 DEF WholeInv

-----------------------------------------------------------------------------
\* Every step keeps what the reader holds, and when it has it.
LEMMA WholeStep ==
  ASSUME SerialPortAssumption, GoodLine,
         Typed, Paper, WholeInv, Typed', Paper',
         cut \subseteq cut', [Next]_vars
  PROVE  WholeInv'
<1> USE DEF opening, reading, writer, counts
<1>1. CASE OpenFd
  <2>1. port' # "open" /\ UNCHANGED <<buf, quiet, rx, lost, frame, tx, written, result>>
    BY <1>1 DEF OpenFd
  <2> QED BY <2>1, ShutWhole
<1>2. CASE OpenSettings
  <2>1. Doomed /\ buf = NoBytes /\ UNCHANGED <<buf, quiet, frame, tx, written, result>>
    BY <1>2 DEF OpenSettings, Doomed, Typed
  <2>2. CASE Flush
    BY <2>1, <2>2, FlushWhole
  <2>3. CASE port' = "closed" /\ UNCHANGED <<rx, lost>>
    BY <2>1, <2>3, ShutWhole
  <2> QED BY <1>2, <2>2, <2>3 DEF OpenSettings
<1>3. CASE Close
  <2>1. port' # "open" /\ UNCHANGED <<buf, quiet, rx, lost, frame, tx, written, result>>
    BY <1>3 DEF Close
  <2> QED BY <2>1, ShutWhole
<1>4. CASE StartWrite
  BY <1>4, StartWriteWhole
<1>5. CASE WriteSome
  BY <1>5, WriteSomeWhole
<1>6. CASE WriteEintr
  BY <1>6, WriteEintrWhole
<1>7. CASE WriteFails
  BY <1>7, WriteFailsWhole
<1>8. CASE Arrive
  BY <1>8, ArriveWhole
<1>9. CASE ReadBegins \/ SelectReady
  BY <1>9, ReadBeginsWhole
<1>10. CASE SelectTimeout
  <2>1. /\ pc = "waiting" /\ rx = NoBytes /\ timer = 0 /\ Return(buf)
        /\ UNCHANGED <<port, quiet, rx, lost, frame, tx, written>>
    BY <1>10 DEF SelectTimeout
  <2> QED BY <2>1, TimeoutWhole
<1>11. CASE ReadEintr
  BY <1>11, ReadEintrWhole
<1>12. CASE ReadSome
  BY <1>12, ReadSomeWhole
<1>13. CASE ReadFails
  BY <1>13, ReadFailsWhole
<1>18. CASE ReadNone
  BY <1>18, ReadNoneWhole
<1>14. CASE ReadFile
  BY <1>14, ReadFileWhole
<1>15. CASE Drain
  <2>1. /\ Doomed /\ buf = NoBytes /\ Flush /\ result' = NoBytes
        /\ UNCHANGED <<buf, quiet, frame, tx, written>>
    BY <1>15 DEF Drain, Doomed, Typed
  <2> QED BY <2>1, FlushWhole
<1>16. CASE Tick
  BY <1>16, TickWhole
<1>17. CASE UNCHANGED vars
  BY <1>17, StutterWhole
<1> QED BY <1>1, <1>2, <1>3, <1>4, <1>5, <1>6, <1>7, <1>8, <1>9, <1>10, <1>11, <1>12,
           <1>13, <1>14, <1>15, <1>16, <1>17, <1>18 DEF Next, Opens, Writes, Reads

\* On a good line, whatever signals interrupt and whatever calls fail, a read
\* returns one frame, whole and alone, or of it the part that follows a lost byte,
\* that ends where a write was given up or where a timeout of ReadFile or a read()
\* of 0 bytes cuts it, or that is a piece of a frame longer than the buffer: for
\* the POSIX half of the file and for the Win32 half.
THEOREM FramesAreWhole == SerialPortAssumption /\ GoodLine => (Spec => []WholeFrames)
<1> SUFFICES ASSUME SerialPortAssumption, GoodLine
             PROVE  Spec => []WholeFrames
  OBVIOUS
<1>1. Init => WholeInv
  <2> SUFFICES ASSUME Init PROVE WholeInv
    OBVIOUS
  <2>1. frame = 0 /\ Given = 0 /\ tx = NoBytes /\ rx = NoBytes /\ result = NoBytes
        /\ buf = NoBytes /\ Doomed /\ 0 \in Nat
    BY DEF Init, Given, Doomed
  <2>2. tx = Seg(frame, 0, Given)
    <3>1. PICK z \in Nat : z = 0
      OBVIOUS
    <3>2. Seg(frame, z, z) = NoBytes
      <4>1. frame \in Nat /\ z <= z
        BY <2>1
      <4> QED BY <4>1, SegNone
    <3> QED BY <2>1, <3>1, <3>2
  <2>3. Founded(0)
    BY DEF Founded
  <2>4. Held(0, 0, 0)
    BY <2>1, <2>2, <2>3 DEF Held
  <2>5. 0 \in 0..Given
    BY <2>1
  <2> QED BY <2>1, <2>4, <2>5 DEF WholeInv, HeldInv, TimeInv, WholeFrames
<1>2. Typed /\ Paper /\ WholeInv /\ cut \subseteq Bytes /\ Typed' /\ Paper' /\ [Next]_vars
        => WholeInv'
  BY WholeStep, CutStep
<1>3. WholeInv => WholeFrames
  BY DEF WholeInv
<1> QED BY <1>1, <1>2, <1>3, PortTyped, CutTyped, PTL DEF Spec

\* A read returns the end of a frame: all of it, or what follows a lost byte.
ReadsToTheEnd ==
  result # NoBytes =>
    \E f \in Frames : \E k \in 1..FrameLen[f] : \E n \in k..FrameLen[f] :
      /\ result = SubSeq(BytesOf(f, FrameLen[f]), k, n)
      /\ FrameLen[f] <= MaxLen => n = FrameLen[f] /\ (k = 1 \/ <<f, k - 1>> \in lost)

\* As long as no call fails, no write ends early and no read is cut.
Flawless ==
  faults = 0 =>
    cut = {} /\ \A f \in Frames : written[f].done => written[f].n = FrameLen[f]

\* On POSIX only a call that fails, or gives nothing, can end a frame early.
LEMMA FlawlessStep ==
  ASSUME SerialPortAssumption, Platform = "posix", Typed, Paper, Flawless, [Next]_vars
  PROVE  Flawless'
<1> USE DEF opening, reading, writer, counts
<1> SUFFICES ASSUME faults' = 0
             PROVE  /\ cut' = {}
                    /\ \A f \in Frames : written'[f].done => written'[f].n = FrameLen[f]
  BY DEF Flawless
<1>0. ASSUME Failure PROVE FALSE
  BY <1>0 DEF Failure, Typed
<1>1. CASE UNCHANGED <<faults, cut, written>>
  BY <1>1 DEF Flawless
<1>2. CASE WriteSome
  <2>1. /\ UNCHANGED <<faults, cut>> /\ written \in [Frames -> [n : Nat, done : BOOLEAN]]
        /\ \E n \in 1..(FrameLen[frame] - written[frame].n) :
             written' = [written EXCEPT ![frame] = [n |-> written[frame].n + n,
                                                    done |-> WriteEnds(written[frame].n + n)]]
    BY <1>2 DEF WriteSome, Paper
  <2>2. PICK w : written' = [written EXCEPT ![frame] = [n |-> w, done |-> WriteEnds(w)]]
    BY <2>1
  <2>3. ASSUME NEW f \in Frames, written'[f].done PROVE written'[f].n = FrameLen[f]
    <3>1. CASE f = frame
      <4> DEFINE e == [n |-> w, done |-> WriteEnds(w)]
      <4>1. written' = [written EXCEPT ![f] = e]
        BY <2>2, <3>1
      <4> HIDE DEF e
      <4>2. written'[f] = e
        BY <2>1, <4>1
      <4>3. e.n = w /\ e.done = WriteEnds(w)
        BY DEF e
      <4> QED BY <2>3, <3>1, <4>2, <4>3 DEF WriteEnds
    <3>2. CASE f # frame
      <4> DEFINE e == [n |-> w, done |-> WriteEnds(w)]
      <4>1. written' = [written EXCEPT ![frame] = e]
        BY <2>2
      <4> HIDE DEF e
      <4>2. written'[f] = written[f]
        BY <2>1, <3>2, <4>1
      <4> QED BY <2>1, <2>3, <4>2 DEF Flawless
    <3> QED BY <3>1, <3>2
  <2> QED BY <2>1, <2>3 DEF Flawless
<1>3. CASE Opens \/ (Writes /\ ~WriteSome) \/ Reads \/ Arrive \/ Tick \/ UNCHANGED vars
  <2>1. UNCHANGED <<faults, cut, written>> \/ Failure
    <3>1. CASE Opens
      BY <3>1 DEF Opens, OpenFd, OpenSettings, Close, Fault
    <3>2. CASE Writes /\ ~WriteSome
      BY <3>2 DEF Writes, StartWrite, WriteEintr, WriteFails, Signal, Fault
    <3>3. CASE Reads
      BY <3>3 DEF Reads, ReadBegins, SelectReady, SelectTimeout, ReadEintr, ReadSome,
                  ReadNone, ReadFails, ReadFile, Drain, Signal, Fault
    <3>4. CASE Arrive \/ Tick \/ UNCHANGED vars
      BY <3>4 DEF Arrive, Tick, vars
    <3> QED BY <1>3, <3>1, <3>2, <3>3, <3>4
  <2> QED BY <1>0, <1>1, <2>1
<1> QED BY <1>2, <1>3 DEF Next

\* The POSIX half, which arms select anew after every byte, has no timeout that
\* can end a read inside a frame: on a good line, as long as no call fails, every
\* read that gives bytes gives a frame to its end (262-317).
THEOREM PosixReadsToTheEnd ==
  SerialPortAssumption /\ GoodLine /\ Platform = "posix" =>
    (Spec => [](faults = 0 => ReadsToTheEnd))
<1> SUFFICES ASSUME SerialPortAssumption, GoodLine, Platform = "posix"
             PROVE  Spec => [](faults = 0 => ReadsToTheEnd)
  OBVIOUS
<1>1. Init => Flawless
  BY DEF Init, Flawless
<1>2. Typed /\ Paper /\ Flawless /\ [Next]_vars => Flawless'
  BY FlawlessStep
<1>3. WholeFrames /\ Flawless => (faults = 0 => ReadsToTheEnd)
  <2> SUFFICES ASSUME WholeFrames, Flawless, faults = 0, result # NoBytes
               PROVE  ReadsToTheEnd
    BY DEF ReadsToTheEnd
  <2>1. PICK f \in Frames : \E k \in 1..FrameLen[f] : \E n \in k..FrameLen[f] :
          /\ result = SubSeq(BytesOf(f, FrameLen[f]), k, n)
          /\ FrameLen[f] <= MaxLen =>
               /\ k = 1 \/ <<f, k - 1>> \in lost \cup cut
               /\ <<f, n>> \in cut \/ (written[f].done /\ n = written[f].n)
    BY DEF WholeFrames
  <2>2. cut = {} /\ (written[f].done => written[f].n = FrameLen[f])
    BY <2>1 DEF Flawless
  <2> QED BY <2>1, <2>2 DEF ReadsToTheEnd
<1> QED BY <1>1, <1>2, <1>3, PortTyped, FramesAreWhole, PTL DEF Spec
=============================================================================
