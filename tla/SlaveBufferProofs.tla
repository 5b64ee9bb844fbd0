------------------------- MODULE SlaveBufferProofs -------------------------
(***************************************************************************)
(* What the ring of packets gives its readers, whatever its size, however  *)
(* many readers there are and however many packets come too many.          *)
(*                                                                         *)
(* The packets stored since the last open lie in the ring by age, counted  *)
(* back from the slot that was stored to last, so that none of them is a   *)
(* whole round older than another.  What a reader gets is one of them: the *)
(* slot it copies has been stored to since the open, because the write     *)
(* pointer has come past it.                                               *)
(***************************************************************************)
EXTENDS SlaveBuffer, SequenceTheorems, TLAPS

-----------------------------------------------------------------------------
(* Sequences that grow by one element. *)

AtMost(s, n) == \A i \in 1 .. Len(s) : s[i] <= n
Occurs(s, p) == \E i \in 1 .. Len(s) : s[i] = p
Twice(s, p)  == \E i, j \in 1 .. Len(s) : i < j /\ s[i] = p /\ s[j] = p
NoneThrice(s) ==
    \A i, j, k \in 1 .. Len(s) :
        (i < j /\ j < k /\ s[i] # Torn) => ~(s[i] = s[j] /\ s[j] = s[k])

LEMMA OneMore ==
    ASSUME NEW s \in Seq(Int), NEW x \in Int
    PROVE  /\ Append(s, x) \in Seq(Int) /\ Len(s) \in Nat /\ Len(Append(s, x)) = Len(s) + 1
           /\ \A i \in 1 .. Len(s) : Append(s, x)[i] = s[i] /\ s[i] \in Int
           /\ Append(s, x)[Len(s) + 1] = x
<1>1. Len(s) \in Nat /\ \A i \in 1 .. Len(s) : s[i] \in Int
    BY ElementOfSeq
<1> QED BY <1>1

LEMMA RoundGrows ==
    ASSUME NEW s \in Seq(Int), NEW x \in Int, NEW n \in Int, AtMost(s, n), InRound(s),
           x = Torn \/ x > n - Size
    PROVE  InRound(Append(s, x))
<1> DEFINE t == Append(s, x)
<1>1. /\ Len(s) \in Nat /\ Len(t) = Len(s) + 1
      /\ \A i \in 1 .. Len(s) : t[i] = s[i] /\ s[i] \in Int
      /\ t[Len(s) + 1] = x
    BY OneMore
<1> HIDE DEF t
<1> SUFFICES ASSUME NEW i \in 1 .. Len(t), NEW j \in 1 .. Len(t), i < j, t[i] # Torn, t[j] # Torn
             PROVE  t[i] < t[j] + Size
    BY DEF InRound, t
<1>2. i \in 1 .. Len(s) /\ t[i] = s[i] /\ s[i] \in Int /\ s[i] <= n
    BY <1>1 DEF AtMost
<1>3. CASE j \in 1 .. Len(s)
    BY <1>1, <1>2, <1>3 DEF InRound
<1>4. CASE j = Len(s) + 1
    BY <1>1, <1>2, <1>4, SizeAssumption
<1> QED BY <1>1, <1>3, <1>4

LEMMA BoundGrows ==
    ASSUME NEW s \in Seq(Int), NEW x \in Int, NEW n \in Int, AtMost(s, n), x <= n
    PROVE  AtMost(Append(s, x), n)
<1> DEFINE t == Append(s, x)
<1>1. /\ Len(s) \in Nat /\ Len(t) = Len(s) + 1
      /\ \A i \in 1 .. Len(s) : t[i] = s[i]
      /\ t[Len(s) + 1] = x
    BY OneMore
<1> HIDE DEF t
<1>2. \A i \in 1 .. Len(t) : t[i] <= n
    BY <1>1 DEF AtMost
<1> QED BY <1>2 DEF AtMost, t

\* Only what is appended occurs once more.
LEMMA CountGrows ==
    ASSUME NEW s \in Seq(Int), NEW x \in Int, NEW p
    PROVE  /\ Twice(Append(s, x), p) => Twice(s, p) \/ (p = x /\ Occurs(s, p))
           /\ Occurs(Append(s, x), p) => Occurs(s, p) \/ p = x
<1> DEFINE t == Append(s, x)
<1>1. /\ Len(s) \in Nat /\ Len(t) = Len(s) + 1
      /\ \A i \in 1 .. Len(s) : t[i] = s[i]
      /\ t[Len(s) + 1] = x
    BY OneMore
<1> HIDE DEF t
<1>2. Occurs(t, p) => Occurs(s, p) \/ p = x
    BY <1>1 DEF Occurs
<1>3. ASSUME NEW i \in 1 .. Len(t), NEW j \in 1 .. Len(t), i < j, t[i] = p, t[j] = p
      PROVE  Twice(s, p) \/ (p = x /\ Occurs(s, p))
    <2>1. i \in 1 .. Len(s) /\ s[i] = p
        BY <1>1, <1>3
    <2>2. CASE j \in 1 .. Len(s)
        BY <1>1, <1>3, <2>1, <2>2 DEF Twice
    <2>3. CASE j = Len(s) + 1
        BY <1>1, <1>3, <2>1, <2>3 DEF Occurs
    <2> QED BY <1>1, <2>2, <2>3
<1>4. Twice(t, p) => Twice(s, p) \/ (p = x /\ Occurs(s, p))
    BY <1>3 DEF Twice
<1> QED BY <1>2, <1>4 DEF t

LEMMA ThriceGrows ==
    ASSUME NEW s \in Seq(Int), NEW x \in Int, NoneThrice(s), x = Torn \/ ~Twice(s, x)
    PROVE  NoneThrice(Append(s, x))
<1> DEFINE t == Append(s, x)
<1>1. /\ Len(s) \in Nat /\ Len(t) = Len(s) + 1
      /\ \A i \in 1 .. Len(s) : t[i] = s[i]
      /\ t[Len(s) + 1] = x
    BY OneMore
<1> HIDE DEF t
<1> SUFFICES ASSUME NEW i \in 1 .. Len(t), NEW j \in 1 .. Len(t), NEW k \in 1 .. Len(t),
                    i < j, j < k, t[i] # Torn, t[i] = t[j], t[j] = t[k]
             PROVE  FALSE
    BY DEF NoneThrice, t
<1>2. i \in 1 .. Len(s) /\ j \in 1 .. Len(s) /\ t[i] = s[i] /\ t[j] = s[j]
    BY <1>1
<1>3. CASE k \in 1 .. Len(s)
    BY <1>1, <1>2, <1>3 DEF NoneThrice
<1>4. CASE k = Len(s) + 1
    BY <1>1, <1>2, <1>4 DEF Twice
<1> QED BY <1>1, <1>3, <1>4

LEMMA TrailGrows ==
    ASSUME NEW g \in Seq(Int), NEW b \in Seq(Int), NEW x \in Int
    PROVE  g \o b \in Seq(Int) /\ g \o Append(b, x) = Append(g \o b, x)
<1> DEFINE l == g \o Append(b, x)
           r == Append(g \o b, x)
<1>1. /\ g \o b \in Seq(Int) /\ Len(g \o b) = Len(g) + Len(b) /\ Len(g) \in Nat /\ Len(b) \in Nat
      /\ \A i \in 1 .. Len(g) + Len(b) : (g \o b)[i] = IF i <= Len(g) THEN g[i] ELSE b[i - Len(g)]
    BY ConcatProperties, LenProperties
<1>2. Append(b, x) \in Seq(Int) /\ Len(Append(b, x)) = Len(b) + 1
      /\ \A i \in 1 .. Len(b) : Append(b, x)[i] = b[i]
      /\ Append(b, x)[Len(b) + 1] = x
    BY OneMore
<1>3. /\ l \in Seq(Int) /\ Len(l) = Len(g) + Len(b) + 1
      /\ \A i \in 1 .. Len(g) + Len(b) + 1 : l[i] = IF i <= Len(g) THEN g[i] ELSE Append(b, x)[i - Len(g)]
    <2>1. /\ l \in Seq(Int) /\ Len(l) = Len(g) + Len(Append(b, x))
          /\ \A i \in 1 .. Len(g) + Len(Append(b, x)) :
                 l[i] = IF i <= Len(g) THEN g[i] ELSE Append(b, x)[i - Len(g)]
        BY <1>2, ConcatProperties
    <2>2. Len(g) + Len(Append(b, x)) = Len(g) + Len(b) + 1
        BY <1>1, <1>2
    <2> QED BY <2>1, <2>2
<1>4. /\ r \in Seq(Int) /\ Len(r) = Len(g) + Len(b) + 1
      /\ \A i \in 1 .. Len(g) + Len(b) : r[i] = (g \o b)[i]
      /\ r[Len(g) + Len(b) + 1] = x
    <2>1. /\ r \in Seq(Int) /\ Len(r) = Len(g \o b) + 1
          /\ \A i \in 1 .. Len(g \o b) : r[i] = (g \o b)[i]
          /\ r[Len(g \o b) + 1] = x
        BY <1>1, OneMore
    <2> QED BY <1>1, <2>1
<1> HIDE DEF l, r
<1>5. ASSUME NEW i \in 1 .. Len(g) + Len(b) + 1 PROVE l[i] = r[i]
    <2>1. CASE i <= Len(g)
        <3>1. i \in 1 .. Len(g) + Len(b)
            BY <1>1, <2>1
        <3>2. r[i] = (g \o b)[i] /\ (g \o b)[i] = g[i]
            BY <1>1, <1>4, <2>1, <3>1
        <3>3. l[i] = g[i]
            BY <1>3, <2>1
        <3> QED BY <3>2, <3>3
    <2>2. CASE i > Len(g) /\ i <= Len(g) + Len(b)
        <3>1. i - Len(g) \in 1 .. Len(b) /\ i \in 1 .. Len(g) + Len(b) /\ ~(i <= Len(g))
            BY <1>1, <2>2
        <3>2. r[i] = (g \o b)[i] /\ (g \o b)[i] = b[i - Len(g)]
            BY <1>1, <1>4, <3>1
        <3>3. l[i] = b[i - Len(g)]
            BY <1>2, <1>3, <3>1
        <3> QED BY <3>2, <3>3
    <2>3. CASE i = Len(g) + Len(b) + 1
        <3>1. i - Len(g) = Len(b) + 1 /\ ~(i <= Len(g))
            BY <1>1, <2>3
        <3>2. l[i] = Append(b, x)[i - Len(g)]
            BY <1>3, <3>1
        <3>3. l[i] = x
            BY <1>2, <3>1, <3>2
        <3> QED BY <1>4, <2>3, <3>3
    <2>4. i <= Len(g) + Len(b) \/ i = Len(g) + Len(b) + 1
        <3>1. Len(g) \in Nat /\ Len(b) \in Nat
            BY <1>1
        <3> QED BY <3>1
    <2> QED BY <2>1, <2>2, <2>3, <2>4
<1>6. l = r
    BY <1>3, <1>4, <1>5, SeqEqual
<1> QED BY <1>1, <1>6 DEF l, r

\* The parts of a sequence go back no further than the whole.
LEMMA RoundOfParts ==
    ASSUME NEW g \in Seq(Int), NEW b \in Seq(Int), InRound(g \o b)
    PROVE  InRound(g) /\ InRound(b)
<1> DEFINE l == g \o b
<1>1. /\ Len(l) = Len(g) + Len(b) /\ Len(g) \in Nat /\ Len(b) \in Nat
      /\ \A i \in 1 .. Len(g) + Len(b) : l[i] = IF i <= Len(g) THEN g[i] ELSE b[i - Len(g)]
    BY ConcatProperties, LenProperties
<1>2. InRound(l)
    OBVIOUS
<1> HIDE DEF l
<1>3. ASSUME NEW i \in 1 .. Len(g), NEW j \in 1 .. Len(g), i < j, g[i] # Torn, g[j] # Torn
      PROVE  g[i] < g[j] + Size
    <2>1. i \in 1 .. Len(l) /\ j \in 1 .. Len(l) /\ l[i] = g[i] /\ l[j] = g[j]
        BY <1>1
    <2> QED BY <1>2, <1>3, <2>1 DEF InRound
<1>4. ASSUME NEW i \in 1 .. Len(b), NEW j \in 1 .. Len(b), i < j, b[i] # Torn, b[j] # Torn
      PROVE  b[i] < b[j] + Size
    <2>1. i + Len(g) \in 1 .. Len(l) /\ j + Len(g) \in 1 .. Len(l) /\ i + Len(g) < j + Len(g)
        BY <1>1, <1>4
    <2>2. l[i + Len(g)] = b[i] /\ l[j + Len(g)] = b[j]
        <3>1. (i + Len(g)) - Len(g) = i /\ (j + Len(g)) - Len(g) = j
              /\ ~(i + Len(g) <= Len(g)) /\ ~(j + Len(g) <= Len(g))
            BY <1>1
        <3> QED BY <1>1, <2>1, <3>1
    <2> QED BY <1>2, <1>4, <2>1, <2>2 DEF InRound
<1> QED BY <1>3, <1>4 DEF InRound

-----------------------------------------------------------------------------
(* The ring. *)

\* How far a slot is behind the write pointer, and how many packets have been
\* stored since the one in it.
Dist(r) == IF r <= write THEN write - r ELSE write - r + Size

Age(k) ==
    IF push = "point" THEN Dist(k)
    ELSE IF k = write THEN Size - 1
    ELSE Dist(k) - 1

\* A slot that has been stored to since the open.
Fresh(k) == buf[k] > since

Pointers ==
    /\ read \in Slot /\ write \in Slot
    /\ buf \in [Slot -> Nat] /\ count \in Nat /\ since \in Nat /\ since <= count
    /\ push \in {"idle", "load", "store", "point"}
    /\ wp = IF push \in {"store", "point"} THEN write ELSE -1
    /\ push = "point" => buf[write] = count /\ Fresh(write)

Aged == \A k \in Slot : buf[k] <= count /\ (Fresh(k) => buf[k] = count - Age(k))

Reading ==
    /\ at \in [Files -> {"closed", "user", "check", "sleep", "start", "test", "copy", "end"}]
    /\ rp \in [Files -> Slot]
    /\ batch \in [Files -> Seq(Int)] /\ got \in Seq(Int)
    /\ \A f \in Files : at[f] \notin Copying => batch[f] = <<>>

\* What is to be read is fresh: either the write pointer has been round, or no
\* pointer is in front of it.
Round ==
    \/ \A k \in Slot : Fresh(k)
    \/ /\ read <= write
       /\ \A k \in Slot : k < write => Fresh(k)
       /\ \A f \in Files : at[f] \in Copying => rp[f] <= write /\ (at[f] = "copy" => rp[f] < write)

RingInv == Pointers /\ Aged /\ Reading /\ Round

\* One process at a time has the device open, or nothing is noted of what is read.
Alone == \A f, g \in Files : at[f] # "closed" /\ at[g] # "closed" => f = g

Shared == IF "sharing" \in unlucky THEN got = <<>> ELSE Alone

LEMMA Behind ==
    ASSUME Pointers, NEW r \in Slot
    PROVE  /\ Dist(r) \in 0 .. Size - 1 /\ (Dist(r) = 0 <=> r = write)
           /\ Age(r) \in 0 .. Size - 1
           /\ \A k \in Slot : Dist(k) = Dist(r) => k = r
           /\ \A k \in Slot : Age(k) = Age(r) => k = r
BY SizeAssumption DEF Pointers, Dist, Age, Slot

\* A process moves itself only, and only with its read pointer does it touch the
\* ring, unless it opens the device.
OnRing(f) ==
    /\ UNCHANGED <<write, buf, push, count, wp, since, unlucky>>
    /\ \/ UNCHANGED read
       \/ at[f] = "end" /\ read' = rp[f]

LEMMA OwnSteps ==
    ASSUME Reading, NEW g \in Files, Process(g)
    PROVE  /\ UNCHANGED unlucky
           /\ \A f \in Files \ {g} : at'[f] = at[f] /\ rp'[f] = rp[f] /\ batch'[f] = batch[f]
           /\ at[g] = "closed" <=> Open(g)
           /\ ~Open(g) => OnRing(g)
<1>1. UNCHANGED unlucky /\ \A f \in Files \ {g} : at'[f] = at[f] /\ rp'[f] = rp[f] /\ batch'[f] = batch[f]
    BY DEF Process, Reader, Open, Release, Read, ReadCheck, ReadStart, ReadTest, ReadCopy, ReadDone, ReadFails,
        ReadFault, Return, locals, Reading
<1>2. at[g] = "closed" <=> Open(g)
    BY DEF Process, Reader, Open, Release, Read, ReadCheck, ReadStart, ReadTest, ReadCopy, ReadDone, ReadFails,
        ReadFault
<1>3. ~Open(g) => OnRing(g)
    BY DEF Process, Reader, OnRing, Release, Read, ReadCheck, ReadStart, ReadTest, ReadCopy, ReadDone, ReadFails,
        ReadFault, StoreRead, ring, handler, history
<1> QED BY <1>1, <1>2, <1>3

\* Where a process goes from where it is.
LEMMA OwnPlace ==
    ASSUME Pointers, Reading, NEW g \in Files, Process(g)
    PROVE  /\ at'[g] \in Copying =>
                \/ at[g] = "start" /\ at'[g] = "test" /\ rp'[g] = read /\ batch'[g] = batch[g] /\ UNCHANGED got
                \/ at[g] = "test" /\ UNCHANGED <<rp, batch, got>> /\ (at'[g] = "copy" => rp[g] # write)
                \/ /\ at[g] = "copy" /\ at'[g] = "test" /\ rp'[g] = Inc(rp[g]) /\ UNCHANGED got
                   /\ \E p \in Seen(rp[g]) : batch'[g] = Append(batch[g], p)
           /\ at'[g] \notin Copying =>
                /\ batch'[g] = <<>>
                /\ \/ UNCHANGED got
                   \/ at[g] = "end" /\ "sharing" \notin unlucky /\ got' = got \o batch[g] /\ read' = rp[g]
<1>1. CASE Open(g) \/ Release(g) \/ (\E n \in Wants : Read(g, n)) \/ ReadCheck(g) \/ ReadFails(g) \/ ReadFault(g)
    BY <1>1 DEF Open, Release, Read, ReadCheck, ReadFails, ReadFault, Return, locals, history, Reading, Copying
<1>2. CASE ReadStart(g) \/ ReadTest(g)
    BY <1>2 DEF ReadStart, ReadTest, More, locals, history, Reading, Copying
<1>3. CASE ReadCopy(g)
    BY <1>3 DEF ReadCopy, history, Reading, Copying
<1>4. CASE ReadDone(g)
    BY <1>4 DEF ReadDone, StoreRead, Return, Reading, Copying
<1> QED BY Zenon, <1>1, <1>2, <1>3, <1>4 DEF Process, Reader

LEMMA SharedStep ==
    ASSUME Reading, Shared, Next
    PROVE  Shared' /\ UNCHANGED unlucky
<1>1. CASE Push
    BY <1>1 DEF Push, PushBegin, PushLoad, PushStore, PushDone, Shared, Alone, history
<1>2. ASSUME NEW g \in Files, Process(g) PROVE Shared' /\ UNCHANGED unlucky
    <2>1. UNCHANGED unlucky
        BY <1>2, OwnSteps
    <2>2. CASE "sharing" \in unlucky
        BY <1>2, <2>1, <2>2 DEF Shared, Process, Reader, Open, Release, Read, ReadCheck, ReadStart, ReadTest,
            ReadCopy, ReadDone, ReadFails, ReadFault, history
    <2>3. CASE "sharing" \notin unlucky
        <3>1. \A f \in Files \ {g} : at[f] = "closed"
            BY <1>2, <2>3, OwnSteps DEF Shared, Alone, Open, IsOpen
        <3>2. \A f \in Files \ {g} : at'[f] = "closed"
            BY <1>2, <3>1, OwnSteps
        <3> QED BY <2>1, <2>3, <3>2 DEF Shared, Alone
    <2> QED BY <2>1, <2>2, <2>3
<1> QED BY <1>1, <1>2 DEF Next

LEMMA PointersStep ==
    ASSUME "openMeanwhile" \notin unlucky, Pointers, Aged, Reading, Next
    PROVE  Pointers'
<1>1. CASE PushBegin \/ PushLoad
    BY <1>1 DEF PushBegin, PushLoad, Pointers, ring, history, Fresh
<1>2. CASE PushStore
    BY <1>2 DEF PushStore, Pointers, history, Fresh
<1>3. CASE PushDone
    BY <1>3, SizeAssumption DEF PushDone, Pointers, history, Inc, Slot
<1>4. ASSUME NEW g \in Files, Process(g) PROVE Pointers'
    <2>1. CASE Open(g)
        BY <2>1, SizeAssumption DEF Open, handler, Pointers, Slot
    <2>2. CASE ~Open(g)
        <3>1. UNCHANGED <<write, buf, push, count, wp, since>> /\ (UNCHANGED read \/ read' = rp[g])
            BY <1>4, <2>2, OwnSteps DEF OnRing
        <3>2. read' \in Slot
            BY <3>1 DEF Pointers, Reading
        <3> QED BY <3>1, <3>2 DEF Pointers, Fresh
    <2> QED BY <2>1, <2>2
<1> QED BY <1>1, <1>2, <1>3, <1>4 DEF Next, Push

LEMMA ReadingStep ==
    ASSUME Pointers, Reading, Next
    PROVE  Reading'
<1>1. CASE Push
    BY <1>1 DEF Push, PushBegin, PushLoad, PushStore, PushDone, locals, history, Reading
<1>2. ASSUME NEW g \in Files, Process(g) PROVE Reading'
    <2>1. /\ at' \in [Files -> {"closed", "user", "check", "sleep", "start", "test", "copy", "end"}]
          /\ rp' \in [Files -> Slot]
        <3>1. 0 \in Slot /\ read \in Slot /\ Inc(rp[g]) \in Slot
            BY SizeAssumption DEF Reading, Pointers, Inc, Slot
        <3>2. /\ \E p \in {"closed", "user", "check", "sleep", "start", "test", "copy", "end"} :
                     at' = [at EXCEPT ![g] = p]
              /\ rp' = rp \/ \E i \in Slot : rp' = [rp EXCEPT ![g] = i]
            BY <1>2, <3>1 DEF Process, Reader, Open, Release, Read, ReadCheck, ReadStart, ReadTest, ReadCopy,
                ReadDone, ReadFails, ReadFault, Return, locals
        <3> QED BY <3>2 DEF Reading
    <2>2. batch'[g] \in Seq(Int) /\ got' \in Seq(Int)
        <3>1. <<>> \in Seq(Int) /\ batch[g] \in Seq(Int) /\ got \in Seq(Int) /\ got \o batch[g] \in Seq(Int)
            BY ConcatProperties DEF Reading
        <3>2. \A p \in Seen(rp[g]) : Append(batch[g], p) \in Seq(Int)
            <4>1. Seen(rp[g]) \subseteq Int
                BY DEF Seen, Torn, Pointers, Reading
            <4> QED BY <3>1, <4>1
        <3> QED BY <1>2, <3>1, <3>2, OwnPlace
    <2>3. batch' \in [Files -> Seq(Int)]
        <3>1. \E b \in Seq(Int) : batch' = batch \/ batch' = [batch EXCEPT ![g] = b]
            <4>1. batch' = batch \/ \E b : batch' = [batch EXCEPT ![g] = b]
                BY <1>2 DEF Process, Reader, Open, Release, Read, ReadCheck, ReadStart, ReadTest, ReadCopy, ReadDone,
                    ReadFails, ReadFault, Return, locals
            <4>2. CASE batch' = batch
                BY <4>2 DEF Reading
            <4>3. ASSUME NEW b, batch' = [batch EXCEPT ![g] = b] PROVE b \in Seq(Int)
                BY <2>2, <4>3 DEF Reading
            <4> QED BY <4>1, <4>2, <4>3
        <3> QED BY <3>1 DEF Reading
    <2>4. \A f \in Files : at'[f] \notin Copying => batch'[f] = <<>>
        BY <1>2, OwnSteps, OwnPlace DEF Reading
    <2> QED BY <2>1, <2>2, <2>3, <2>4 DEF Reading
<1> QED BY <1>1, <1>2 DEF Next

LEMMA AgedStep ==
    ASSUME "openMeanwhile" \notin unlucky, Pointers, Aged, Reading, Next
    PROVE  Aged'
<1>1. CASE PushBegin \/ PushLoad
    BY <1>1 DEF PushBegin, PushLoad, Pointers, ring, history, Fresh, Aged, Age, Dist
<1>2. CASE PushStore
    <2>1. /\ push = "store" /\ push' = "point" /\ count' = count + 1 /\ UNCHANGED <<write, since>>
          /\ buf' = [buf EXCEPT ![write] = count + 1]
        BY <1>2 DEF PushStore, Pointers, history
    <2>2. ASSUME NEW k \in Slot PROVE buf'[k] <= count' /\ (Fresh(k)' => buf'[k] = count' - Age(k)')
        <3>0. /\ write \in Int /\ k \in Int /\ count \in Int /\ since \in Int /\ buf[k] \in Int
              /\ Age(k)' = Dist(k) /\ buf'[k] = IF k = write THEN count + 1 ELSE buf[k]
            BY <2>1 DEF Pointers, Age, Dist, Slot
        <3>1. CASE k = write
            BY <2>1, <3>0, <3>1 DEF Dist
        <3>2. CASE k # write
            <4>1. Age(k) = Dist(k) - 1 /\ Dist(k) \in Int
                BY <2>1, <3>0, <3>2, SizeAssumption DEF Age, Dist
            <4>2. buf[k] <= count /\ (buf[k] > since => buf[k] = count - Age(k))
                BY DEF Aged, Fresh
            <4> QED BY <2>1, <3>0, <3>2, <4>1, <4>2 DEF Fresh
        <3> QED BY <3>1, <3>2
    <2> QED BY <2>2 DEF Aged
<1>3. CASE PushDone
    <2>1. push = "point" /\ push' = "idle" /\ write' = Inc(write) /\ UNCHANGED <<buf, count, since>>
        BY <1>3 DEF PushDone, Pointers, history
    <2>2. ASSUME NEW k \in Slot PROVE Age(k)' = Age(k)
        BY <2>1, <2>2, SizeAssumption DEF Pointers, Age, Dist, Slot, Inc
    <2> QED BY <2>1, <2>2 DEF Aged, Fresh
<1>4. ASSUME NEW g \in Files, Process(g) PROVE Aged'
    <2>1. CASE Open(g)
        BY <2>1 DEF Open, handler, Pointers, Aged, Fresh
    <2>2. CASE ~Open(g)
        BY <1>4, <2>2, OwnSteps DEF OnRing, Aged, Fresh, Age, Dist
    <2> QED BY <2>1, <2>2
<1> QED BY <1>1, <1>2, <1>3, <1>4 DEF Next, Push

LEMMA RoundStep ==
    ASSUME "openMeanwhile" \notin unlucky, RingInv, Next
    PROVE  Round'
<1> USE DEF RingInv
<1>1. CASE PushBegin \/ PushLoad
    BY <1>1 DEF PushBegin, PushLoad, ring, history, locals, Fresh, Round
<1>2. CASE PushStore
    <2>1. /\ UNCHANGED <<read, write, since, at, rp>> /\ buf' = [buf EXCEPT ![write] = count + 1]
        BY <1>2 DEF PushStore, Pointers, history, locals
    <2>2. \A k \in Slot : Fresh(k) => Fresh(k)'
        BY <2>1 DEF Fresh, Pointers
    <2> QED BY <2>1, <2>2 DEF Round
<1>3. CASE PushDone
    <2>1. Fresh(write) /\ write' = Inc(write) /\ UNCHANGED <<read, buf, since, at, rp>>
        BY <1>3 DEF PushDone, Pointers, history, locals
    <2>2. CASE \A k \in Slot : Fresh(k)
        BY <2>1, <2>2 DEF Round, Fresh
    <2>3. CASE ~(\A k \in Slot : Fresh(k)) /\ write + 1 < Size
        <3>1. read <= write /\ \A k \in Slot : k < write => Fresh(k)
            BY <2>3 DEF Round
        <3>2. \A f \in Files : at[f] \in Copying => rp[f] <= write /\ (at[f] = "copy" => rp[f] < write)
            BY <2>3 DEF Round
        <3>3. write' = write + 1 /\ read \in Int /\ write \in Int /\ \A f \in Files : rp[f] \in Int
            BY <2>1, <2>3, SizeAssumption DEF Inc, Pointers, Reading, Slot
        <3>4. \A k \in Slot : k < write' => Fresh(k)'
            BY <2>1, <3>1, <3>3, SizeAssumption DEF Fresh, Slot
        <3> QED BY <2>1, <3>1, <3>2, <3>3, <3>4 DEF Round
    <2>4. CASE ~(\A k \in Slot : Fresh(k)) /\ write + 1 >= Size
        BY <2>1, <2>4, SizeAssumption DEF Round, Fresh, Pointers, Slot
    <2> QED BY <2>2, <2>3, <2>4, SizeAssumption DEF Pointers, Slot
<1>4. ASSUME NEW g \in Files, Process(g) PROVE Round'
    <2>1. CASE Open(g)
        <3>1. read' = 0 /\ write' = 0
            BY <2>1 DEF Open
        <3>2. \A f \in Files : at'[f] \notin Copying
            BY <2>1 DEF Open, Reading, Copying
        <3> QED BY <3>1, <3>2, SizeAssumption DEF Round, Slot
    <2>2. CASE ~Open(g)
        <3>1. UNCHANGED <<write, buf, since>>
            BY <1>4, <2>2, OwnSteps DEF OnRing
        <3>2. CASE \A k \in Slot : Fresh(k)
            BY <3>1, <3>2 DEF Round, Fresh
        <3>3. CASE ~\A k \in Slot : Fresh(k)
            <4>1. /\ read <= write /\ \A k \in Slot : k < write => Fresh(k)
                  /\ \A f \in Files : at[f] \in Copying => rp[f] <= write /\ (at[f] = "copy" => rp[f] < write)
                BY <3>3 DEF Round
            <4>2. read' <= write
                BY <1>4, <2>2, <4>1, OwnSteps DEF OnRing, Copying
            <4>3. \A k \in Slot : k < write' => Fresh(k)'
                BY <3>1, <4>1 DEF Fresh
            <4>4. at'[g] \in Copying => rp'[g] <= write /\ (at'[g] = "copy" => rp'[g] < write)
                <5>1. rp[g] \in Slot /\ write \in Slot /\ write < Size
                    BY SizeAssumption DEF Reading, Pointers, Slot
                <5> QED BY <1>4, <4>1, <5>1, OwnPlace, SizeAssumption DEF Copying, Inc, Slot
            <4>5. \A f \in Files : at'[f] \in Copying => rp'[f] <= write /\ (at'[f] = "copy" => rp'[f] < write)
                BY <1>4, <4>1, <4>4, OwnSteps
            <4> QED BY <3>1, <4>2, <4>3, <4>5 DEF Round
        <3> QED BY <3>2, <3>3
    <2> QED BY <2>1, <2>2
<1> QED BY <1>1, <1>2, <1>3, <1>4 DEF Next, Push

LEMMA RingStep ==
    ASSUME "openMeanwhile" \notin unlucky, RingInv, Next
    PROVE  RingInv'
BY PointersStep, AgedStep, ReadingStep, RoundStep DEF RingInv

\* What a reader copies is fresh, and so among the last Size packets stored.
LEMMA CopiesFresh ==
    ASSUME RingInv, NEW f \in Files, at[f] = "copy"
    PROVE  /\ rp[f] \in Slot /\ Fresh(rp[f]) /\ (rp[f] = write => \A k \in Slot : Fresh(k))
           /\ buf[rp[f]] \in Int /\ buf[rp[f]] <= count /\ buf[rp[f]] > count - Size
<1>1. rp[f] \in Slot /\ Fresh(rp[f]) /\ (rp[f] = write => \A k \in Slot : Fresh(k))
    BY DEF RingInv, Round, Reading, Copying, Pointers, Slot
<1>2. Age(rp[f]) \in 0 .. Size - 1
    BY <1>1, Behind DEF RingInv
<1> QED BY <1>1, <1>2, SizeAssumption DEF RingInv, Aged, Pointers

-----------------------------------------------------------------------------
(* What is read. *)

Trail(f) == got \o batch[f]

LEMMA Trails ==
    ASSUME Reading, NEW f \in Files
    PROVE  /\ Trail(f) \in Seq(Int) /\ got \in Seq(Int) /\ batch[f] \in Seq(Int)
           /\ at[f] \notin Copying => Trail(f) = got
<1>1. got \in Seq(Int) /\ batch[f] \in Seq(Int) /\ got \o <<>> = got
    BY ConcatEmptySeq DEF Reading
<1>2. Trail(f) \in Seq(Int)
    BY <1>1, ConcatProperties DEF Trail
<1> QED BY <1>1, <1>2 DEF Reading, Trail

LEMMA TrailSteps ==
    ASSUME Pointers, Reading, Shared, Reading', NEW g \in Files, Process(g)
    PROVE  /\ \/ got' = got
              \/ at[g] = "end" /\ got' = Trail(g) /\ read' = rp[g] /\ (\A f \in Files : at'[f] \notin Copying)
           /\ \A f \in Files : at'[f] \notin Copying => Trail(f)' = got'
           /\ \A f \in Files : at'[f] \in Copying =>
                /\ got' = got
                /\ \/ Trail(f)' = Trail(f)
                   \/ /\ f = g /\ at[g] = "copy" /\ at'[g] = "test" /\ rp'[g] = Inc(rp[g])
                      /\ \E p \in Seen(rp[g]) : Trail(g)' = Append(Trail(g), p)
<1>1. \A f \in Files : at'[f] \notin Copying => Trail(f)' = got'
    <2> SUFFICES ASSUME NEW f \in Files, at'[f] \notin Copying PROVE Trail(f)' = got'
        OBVIOUS
    <2>1. got' \o <<>> = got' /\ batch'[f] = <<>>
        BY ConcatEmptySeq DEF Reading
    <2> QED BY <2>1 DEF Trail
<1>2. got' = got \/ (/\ at[g] = "end" /\ got' = Trail(g) /\ read' = rp[g] /\ "sharing" \notin unlucky
                     /\ at'[g] \notin Copying)
    BY OwnPlace DEF Trail
<1>3. "sharing" \notin unlucky /\ at[g] = "end" => \A f \in Files \ {g} : at'[f] \notin Copying
    BY OwnSteps DEF Shared, Alone, Copying
<1>4. ASSUME NEW f \in Files, at'[f] \in Copying
      PROVE  /\ got' = got
             /\ \/ Trail(f)' = Trail(f)
                \/ /\ f = g /\ at[g] = "copy" /\ at'[g] = "test" /\ rp'[g] = Inc(rp[g])
                   /\ \E p \in Seen(rp[g]) : Trail(g)' = Append(Trail(g), p)
    <2>1. got' = got
        BY <1>2, <1>3, <1>4
    <2>2. CASE f # g
        BY <2>1, <2>2, OwnSteps DEF Trail
    <2>3. CASE f = g
        <3>1. \/ batch'[g] = batch[g]
              \/ /\ at[g] = "copy" /\ at'[g] = "test" /\ rp'[g] = Inc(rp[g])
                 /\ \E p \in Seen(rp[g]) : batch'[g] = Append(batch[g], p)
            BY <1>4, <2>3, OwnPlace
        <3>2. CASE batch'[g] = batch[g]
            BY <2>1, <2>3, <3>2 DEF Trail
        <3>3. ASSUME NEW p \in Seen(rp[g]), batch'[g] = Append(batch[g], p) PROVE Trail(g)' = Append(Trail(g), p)
            <4>1. p \in Int /\ got \in Seq(Int) /\ batch[g] \in Seq(Int)
                BY <3>3 DEF Seen, Torn, Pointers, Reading
            <4> QED BY <2>1, <3>3, <4>1, TrailGrows DEF Trail
        <3> QED BY <2>1, <2>3, <3>1, <3>2, <3>3
    <2> QED BY <2>2, <2>3
<1> QED BY <1>1, <1>2, <1>3, <1>4

ReadInv ==
    /\ InRound(got) /\ AtMost(got, count)
    /\ \A f \in Files : InRound(Trail(f)) /\ AtMost(Trail(f), count)
    /\ \A f \in Files : \A i \in 1 .. Len(batch[f]) : batch[f][i] = Torn \/ batch[f][i] > since

LEMMA ReadStep ==
    ASSUME "openMeanwhile" \notin unlucky, RingInv, Shared, ReadInv, Next
    PROVE  ReadInv'
<1> USE DEF RingInv
<1>0. Reading' /\ Pointers'
    BY ReadingStep, PointersStep
<1>1. CASE Push
    <2>1. UNCHANGED <<got, batch, since>> /\ count <= count' /\ count \in Nat /\ count' \in Nat
        BY <1>1 DEF Push, PushBegin, PushLoad, PushStore, PushDone, history, locals, Pointers
    <2>2. ASSUME NEW s \in Seq(Int), AtMost(s, count) PROVE AtMost(s, count')
        <3>1. \A i \in 1 .. Len(s) : s[i] \in Int
            BY ElementOfSeq
        <3> QED BY <2>1, <2>2, <3>1 DEF AtMost
    <2>3. AtMost(got, count') /\ \A f \in Files : AtMost(Trail(f), count')
        BY <2>2, Trails DEF ReadInv, Reading
    <2>4. \A f \in Files : Trail(f)' = Trail(f)
        BY <2>1 DEF Trail
    <2> QED BY <2>1, <2>3, <2>4 DEF ReadInv
<1>2. ASSUME NEW g \in Files, Process(g) PROVE ReadInv'
    <2>1. UNCHANGED count
        BY <1>2, OwnSteps DEF OnRing, Open, handler
    <2>2. InRound(got') /\ AtMost(got', count')
        BY <1>0, <1>2, <2>1, TrailSteps DEF ReadInv
    <2>3. ASSUME NEW p \in Seen(rp[g]), at[g] = "copy"
          PROVE  /\ InRound(Append(Trail(g), p)) /\ AtMost(Append(Trail(g), p), count)
                 /\ p \in Int /\ (p = Torn \/ p > since)
        <3>1. /\ p \in Int /\ p <= count /\ count \in Int /\ since \in Int
              /\ p = Torn \/ (p > count - Size /\ p > since)
            BY <2>3, CopiesFresh DEF Seen, Torn, Pointers, Fresh
        <3>2. Trail(g) \in Seq(Int) /\ InRound(Trail(g)) /\ AtMost(Trail(g), count)
            BY Trails DEF ReadInv
        <3> QED BY <3>1, <3>2, RoundGrows, BoundGrows
    <2>4. ASSUME NEW f \in Files PROVE InRound(Trail(f)') /\ AtMost(Trail(f)', count')
        <3>1. CASE at'[f] \notin Copying
            BY <1>0, <1>2, <2>2, <3>1, TrailSteps
        <3>2. CASE at'[f] \in Copying
            <4>1. \/ Trail(f)' = Trail(f)
                  \/ f = g /\ at[g] = "copy" /\ \E p \in Seen(rp[g]) : Trail(g)' = Append(Trail(g), p)
                BY <1>0, <1>2, <3>2, TrailSteps
            <4>2. CASE Trail(f)' = Trail(f)
                BY <2>1, <4>2 DEF ReadInv
            <4>3. CASE f = g /\ at[g] = "copy" /\ \E p \in Seen(rp[g]) : Trail(g)' = Append(Trail(g), p)
                BY <2>1, <2>3, <4>3
            <4> QED BY <4>1, <4>2, <4>3
        <3> QED BY <3>1, <3>2
    <2>5. ASSUME NEW f \in Files, NEW i \in 1 .. Len(batch'[f])
          PROVE  batch'[f][i] = Torn \/ batch'[f][i] > since'
        <3>1. at'[f] \in Copying
            BY <1>0, <2>5, LenProperties DEF Reading
        <3>2. ~Open(g)
            BY <1>2, <3>1 DEF Open, Copying, Reading
        <3>3. UNCHANGED since
            BY <1>2, <3>2, OwnSteps DEF OnRing
        <3>4. CASE batch'[f] = batch[f]
            BY <2>5, <3>3, <3>4 DEF ReadInv
        <3>5. ASSUME f = g, at[g] = "copy", NEW p \in Seen(rp[g]), batch'[g] = Append(batch[g], p)
              PROVE  batch'[f][i] = Torn \/ batch'[f][i] > since'
            <4>1. batch[g] \in Seq(Int) /\ p \in Int /\ (p = Torn \/ p > since)
                BY <2>3, <3>5, Trails
            <4>2. /\ Len(batch[g]) \in Nat /\ Len(batch'[g]) = Len(batch[g]) + 1
                  /\ \A j \in 1 .. Len(batch[g]) : batch'[g][j] = batch[g][j]
                  /\ batch'[g][Len(batch[g]) + 1] = p
                BY <3>5, <4>1, OneMore
            <4>3. CASE i \in 1 .. Len(batch[g])
                BY <3>3, <3>5, <4>2, <4>3 DEF ReadInv
            <4>4. CASE i = Len(batch[g]) + 1
                BY <3>3, <3>5, <4>1, <4>2, <4>4
            <4> QED BY <2>5, <3>5, <4>2, <4>3, <4>4
        <3> QED BY <1>2, <3>1, <3>4, <3>5, OwnSteps, OwnPlace
    <2> QED BY <2>2, <2>4, <2>5 DEF ReadInv
<1> QED BY <1>1, <1>2 DEF Next

LEMMA RingStart ==
    ASSUME Init
    PROVE  RingInv /\ Shared /\ ReadInv
<1>1. Pointers /\ Reading /\ Shared /\ got = <<>> /\ \A f \in Files : batch[f] = <<>>
    BY SizeAssumption, EmptySeq DEF Init, Pointers, Reading, Shared, Alone, Slot, Copying
<1>2. Aged /\ Round
    BY SizeAssumption DEF Init, Aged, Round, Fresh, Slot, Copying
<1>3. <<>> \o <<>> = <<>> /\ Len(<<>>) = 0 /\ (\A i \in 1 .. 0 : FALSE)
    BY EmptySeq, ConcatEmptySeq
<1>4. InRound(<<>>) /\ AtMost(<<>>, count)
    BY <1>3 DEF InRound, AtMost
<1>5. \A f \in Files : Trail(f) = <<>>
    BY <1>1, <1>3 DEF Trail
<1> QED BY <1>1, <1>2, <1>3, <1>4, <1>5 DEF RingInv, ReadInv

LEMMA Fated ==
    ASSUME Next
    PROVE  UNCHANGED unlucky
BY DEF Next, Push, PushBegin, PushLoad, PushStore, PushDone, Process, Reader, Open, Release, Read, ReadCheck,
    ReadStart, ReadTest, ReadCopy, ReadDone, ReadFails, ReadFault

Steady == "openMeanwhile" \notin unlucky => RingInv /\ Shared /\ ReadInv

\* The reader's copies are never a whole round of the ring late, and are of packets
\* stored since the open, however the pointers are overtaken
\* (p2slave_main.c:213-227, 543-555).
THEOREM PacketsReadInRound == Spec => []InOrderButOneRound
<1>1. Init => Steady
    BY RingStart DEF Steady
<1>2. Steady /\ [Next]_vars => Steady'
    <2> SUFFICES ASSUME Steady, [Next]_vars PROVE Steady'
        OBVIOUS
    <2>1. CASE Next
        BY <2>1, Fated, RingStep, ReadStep, SharedStep DEF Steady, RingInv
    <2>2. CASE UNCHANGED vars
        <3>1. /\ UNCHANGED <<read, write, buf, push, count, wp, at, rp, batch, got, since, unlucky>>
              /\ \A f \in Files : Trail(f)' = Trail(f)
            BY <2>2 DEF vars, ring, handler, locals, history, Trail
        <3>2. (RingInv => RingInv') /\ (Shared => Shared') /\ (ReadInv => ReadInv')
            BY <3>1 DEF RingInv, Pointers, Aged, Reading, Round, Fresh, Age, Dist, Shared, Alone, ReadInv
        <3> QED BY <3>1, <3>2 DEF Steady
    <2> QED BY <2>1, <2>2
<1>3. Steady => InOrderButOneRound
    <2> SUFFICES ASSUME RingInv, ReadInv, NEW f \in Files PROVE InRound(batch[f])
        BY DEF Steady, InOrderButOneRound, ReadInv
    <2>1. got \in Seq(Int) /\ batch[f] \in Seq(Int) /\ InRound(got \o batch[f])
        BY DEF RingInv, Reading, ReadInv, Trail
    <2> QED BY <2>1, RoundOfParts
<1> QED BY <1>1, <1>2, <1>3, PTL DEF Spec

-----------------------------------------------------------------------------
(* How often a packet is read.                                              *)

\* The packets in front of pointer r are still to come, so none of them was read
\* twice; nor was the one that the write pointer is about to leave.
Calm(s, r) ==
    /\ \A k \in Slot : Fresh(k) /\ 1 <= Dist(k) /\ Dist(k) <= Dist(r) => ~Twice(s, buf[k])
    /\ push = "point" => ~Twice(s, count)

\* The same for a reader that is about to copy the slot of the write pointer, which
\* has come round to it since the test: it has the whole ring in front of it.
CalmAll(s) ==
    /\ \A k \in Slot : Fresh(k) => ~Twice(s, buf[k])
    /\ push = "point" => ~Occurs(s, count)

Lapped(f) == at[f] = "copy" /\ rp[f] = write

TwiceInv ==
    /\ NoneThrice(got) /\ Calm(got, read)
    /\ \A f \in Files : NoneThrice(Trail(f))
    /\ \A f \in Files : at[f] \in Copying => IF Lapped(f) THEN CalmAll(Trail(f)) ELSE Calm(Trail(f), rp[f])

\* Fresh slots hold different packets.
LEMMA Different ==
    ASSUME RingInv, NEW k \in Slot, NEW l \in Slot, k # l, Fresh(k), Fresh(l)
    PROVE  buf[k] # buf[l]
<1>1. Age(k) \in Int /\ Age(l) \in Int /\ Age(k) # Age(l) /\ count \in Int
    BY Behind DEF RingInv, Pointers
<1> QED BY <1>1 DEF RingInv, Aged

LEMMA NewOccursNowhere ==
    ASSUME NEW s \in Seq(Int), NEW n \in Nat, AtMost(s, n)
    PROVE  ~Occurs(s, n + 1) /\ ~Twice(s, n + 1)
<1>1. \A i \in 1 .. Len(s) : s[i] \in Int /\ s[i] <= n
    BY ElementOfSeq DEF AtMost
<1> QED BY <1>1 DEF Occurs, Twice

LEMMA PushStoreCalm ==
    ASSUME RingInv, PushStore, NEW s \in Seq(Int), AtMost(s, count), NEW r \in Slot
    PROVE  /\ Calm(s, r) => Calm(s, r)'
           /\ CalmAll(s) => CalmAll(s)'
<1>1. /\ push' = "point" /\ count' = count + 1 /\ UNCHANGED <<write, since>>
      /\ buf' = [buf EXCEPT ![write] = count + 1] /\ count \in Nat /\ write \in Slot
    BY DEF PushStore, RingInv, Pointers, history
<1>2. ~Occurs(s, count + 1) /\ ~Twice(s, count + 1)
    BY <1>1, NewOccursNowhere
<1>3. \A k \in Slot : /\ Dist(k)' = Dist(k)
                      /\ buf'[k] = IF k = write THEN count + 1 ELSE buf[k]
                      /\ k # write => Fresh(k)' = Fresh(k)
    BY <1>1 DEF Dist, Fresh, RingInv, Pointers
<1>4. Calm(s, r) => Calm(s, r)'
    BY <1>1, <1>2, <1>3 DEF Calm
<1>5. CalmAll(s) => CalmAll(s)'
    BY <1>1, <1>2, <1>3 DEF CalmAll
<1> QED BY <1>4, <1>5

LEMMA PushDoneCalm ==
    ASSUME RingInv, PushDone, NEW s \in Seq(Int), NEW r \in Slot
    PROVE  /\ Calm(s, r) => Calm(s, r)'
           /\ Calm(s, r) /\ r # write /\ r = write' => CalmAll(s)'
           /\ CalmAll(s) /\ r = write => r # write' /\ Calm(s, r)'
<1>1. /\ push = "point" /\ push' = "idle" /\ write' = Inc(write) /\ UNCHANGED <<buf, count, since>>
      /\ buf[write] = count /\ Fresh(write) /\ write \in Slot /\ write # write'
    BY SizeAssumption DEF PushDone, RingInv, Pointers, history, Inc, Slot
<1>2. \A k \in Slot : /\ Dist(k) \in 0 .. Size - 1
                      /\ Dist(k) = 0 <=> k = write
                      /\ Dist(k)' = IF Dist(k) = Size - 1 THEN 0 ELSE Dist(k) + 1
                      /\ Dist(k) = Size - 1 <=> k = write'
    BY <1>1, SizeAssumption DEF Dist, Inc, Slot
<1>3. \A k \in Slot : Fresh(k)' = Fresh(k)
    BY <1>1 DEF Fresh
<1>4. ASSUME Calm(s, r) PROVE Calm(s, r)'
    <2> SUFFICES ASSUME NEW k \in Slot, Fresh(k), 1 <= Dist(k)', Dist(k)' <= Dist(r)' PROVE ~Twice(s, buf[k])
        BY <1>1, <1>3 DEF Calm
    <2>1. CASE k = write
        BY <1>1, <1>4, <2>1 DEF Calm
    <2>2. CASE k # write
        <3>1. 1 <= Dist(k) /\ Dist(k) <= Dist(r)
            BY <1>2, <2>2, SizeAssumption
        <3> QED BY <1>4, <3>1 DEF Calm
    <2> QED BY <2>1, <2>2
<1>5. ASSUME Calm(s, r), r # write, r = write' PROVE CalmAll(s)'
    <2> SUFFICES ASSUME NEW k \in Slot, Fresh(k) PROVE ~Twice(s, buf[k])
        BY <1>1, <1>3 DEF CalmAll
    <2>1. CASE k = write
        BY <1>1, <1>5, <2>1 DEF Calm
    <2>2. CASE k # write
        <3>1. 1 <= Dist(k) /\ Dist(k) <= Dist(r)
            BY <1>2, <1>5, <2>2, SizeAssumption
        <3> QED BY <1>5, <3>1 DEF Calm
    <2> QED BY <2>1, <2>2
<1>6. ASSUME CalmAll(s) PROVE Calm(s, r)'
    BY <1>1, <1>3, <1>6 DEF Calm, CalmAll
<1> QED BY <1>1, <1>4, <1>5, <1>6

\* A copy of a slot in front of the reader leaves the others as they are.
LEMMA CopyCalm ==
    ASSUME RingInv, NEW g \in Files, at[g] = "copy", NEW p \in Seen(rp[g]), NEW s \in Seq(Int), NoneThrice(s),
           IF Lapped(g) THEN CalmAll(s) ELSE Calm(s, rp[g])
    PROVE  NoneThrice(Append(s, p)) /\ Calm(Append(s, p), Inc(rp[g]))
<1> DEFINE r == rp[g]
<1>1. /\ r \in Slot /\ write \in Slot /\ Fresh(r) /\ p \in Int /\ Inc(r) \in Slot
      /\ p = buf[r] \/ (p = Torn /\ r = write /\ push # "point")
    <2>1. r \in Slot /\ write \in Slot /\ Fresh(r) /\ buf[r] \in Int
        BY CopiesFresh DEF RingInv, Pointers
    <2>2. p = buf[r] \/ (p = Torn /\ r = write /\ push # "point")
        BY DEF Seen, RingInv, Pointers
    <2>3. Inc(r) \in Slot
        BY <2>1, SizeAssumption DEF Inc, Slot
    <2> QED BY <2>1, <2>2, <2>3 DEF Torn
<1>2. /\ \A k \in Slot : Dist(k) \in 0 .. Size - 1 /\ (Dist(k) = 0 <=> k = write)
      /\ Dist(Inc(r)) = IF r = write THEN Size - 1 ELSE Dist(r) - 1
      /\ \A k \in Slot : Dist(k) = Dist(r) => k = r
    <2>1. \A k \in Slot : Dist(k) \in 0 .. Size - 1 /\ (Dist(k) = 0 <=> k = write)
        BY <1>1, SizeAssumption DEF Dist, Slot
    <2>2. ASSUME NEW i \in Slot
          PROVE  /\ Dist(Inc(i)) = IF i = write THEN Size - 1 ELSE Dist(i) - 1
                 /\ \A k \in Slot : Dist(k) = Dist(i) => k = i
        BY <1>1, SizeAssumption DEF Dist, Inc, Slot
    <2> QED BY <1>1, <2>1, <2>2
<1>3. \A k \in Slot : Fresh(k) => buf[k] # Torn
    BY DEF RingInv, Pointers, Torn
<1>4. /\ \A k \in Slot : Fresh(k) /\ 1 <= Dist(k) /\ (r # write => Dist(k) <= Dist(r)) => ~Twice(s, buf[k])
      /\ ~Twice(s, buf[r])
    <2>1. CASE r = write
        BY <1>1, <2>1 DEF CalmAll, Lapped
    <2>2. CASE r # write
        <3>1. Calm(s, r) /\ 1 <= Dist(r) /\ Dist(r) <= Dist(r)
            BY <1>1, <1>2, <2>2, SizeAssumption DEF Lapped
        <3> QED BY <1>1, <2>2, <3>1 DEF Calm
    <2> QED BY <2>1, <2>2
<1>5. NoneThrice(Append(s, p))
    BY <1>1, <1>4, ThriceGrows
<1>6. ASSUME NEW k \in Slot, Fresh(k), 1 <= Dist(k), Dist(k) <= Dist(Inc(r)) PROVE ~Twice(Append(s, p), buf[k])
    <2>1. k # r
        BY <1>1, <1>2, <1>6, SizeAssumption
    <2>2. p # buf[k]
        BY <1>1, <1>3, <1>6, <2>1, Different
    <2>3. ~Twice(s, buf[k])
        BY <1>1, <1>2, <1>4, <1>6, SizeAssumption
    <2> QED BY <1>1, <2>2, <2>3, CountGrows
<1>7. ASSUME push = "point" PROVE ~Twice(Append(s, p), count)
    <2>1. buf[write] = count /\ Fresh(write) /\ p = buf[r]
        BY <1>1, <1>7 DEF RingInv, Pointers
    <2>2. CASE r = write
        <3>1. ~Twice(s, count) /\ ~Occurs(s, count)
            BY <1>4, <1>7, <2>1, <2>2 DEF CalmAll, Lapped
        <3> QED BY <1>1, <3>1, CountGrows
    <2>3. CASE r # write
        <3>1. ~Twice(s, count) /\ p # count
            BY <1>1, <1>7, <2>1, <2>3, Different DEF Calm, Lapped
        <3> QED BY <1>1, <3>1, CountGrows
    <2> QED BY <2>2, <2>3
<1> QED BY <1>5, <1>6, <1>7 DEF Calm

LEMMA TwicePush ==
    ASSUME RingInv, ReadInv, TwiceInv, Push
    PROVE  TwiceInv'
<1>1. UNCHANGED <<read, at, rp, batch, got, since>> /\ \A f \in Files : Trail(f)' = Trail(f)
    BY DEF Push, PushBegin, PushLoad, PushStore, PushDone, ring, locals, history, Trail
<1>2. /\ read \in Slot /\ got \in Seq(Int) /\ AtMost(got, count)
      /\ \A f \in Files : Trail(f) \in Seq(Int) /\ AtMost(Trail(f), count) /\ rp[f] \in Slot
    BY Trails DEF RingInv, Pointers, Reading, ReadInv
<1>3. ASSUME NEW s \in Seq(Int), AtMost(s, count), NEW r \in Slot
      PROVE  /\ Calm(s, r) => Calm(s, r)'
             /\ Calm(s, r) /\ r # write /\ r = write' => CalmAll(s)'
             /\ CalmAll(s) /\ r = write => IF r = write' THEN CalmAll(s)' ELSE Calm(s, r)'
    <2>1. CASE PushBegin \/ PushLoad
        BY <2>1 DEF PushBegin, PushLoad, ring, history, Calm, CalmAll, Fresh, Dist
    <2>2. CASE PushStore
        BY <1>3, <2>2, PushStoreCalm DEF PushStore
    <2>3. CASE PushDone
        BY <1>3, <2>3, PushDoneCalm
    <2> QED BY <2>1, <2>2, <2>3 DEF Push
<1>4. Calm(got, read)'
    BY <1>1, <1>2, <1>3 DEF TwiceInv, Calm, Fresh, Dist
<1>5. ASSUME NEW f \in Files, at[f] \in Copying
      PROVE  IF Lapped(f)' THEN CalmAll(Trail(f))' ELSE Calm(Trail(f), rp[f])'
    <2>1. Lapped(f)' <=> at[f] = "copy" /\ rp[f] = write'
        BY <1>1 DEF Lapped
    <2>2. IF Lapped(f) THEN CalmAll(Trail(f)) /\ rp[f] = write ELSE Calm(Trail(f), rp[f])
        BY <1>5 DEF TwiceInv, Lapped
    <2> QED BY <1>1, <1>2, <1>3, <2>1, <2>2 DEF Lapped
<1> QED BY <1>1, <1>4, <1>5 DEF TwiceInv

LEMMA TwiceProcess ==
    ASSUME "openMeanwhile" \notin unlucky, RingInv, Shared, ReadInv, TwiceInv,
           NEW g \in Files, Process(g), "sharing" \notin unlucky
    PROVE  TwiceInv'
<1> USE DEF RingInv
<1>0. Reading'
    BY ReadingStep DEF Next
<1>1. CASE Open(g)
    <2>1. read' = 0 /\ write' = 0 /\ push' = "idle" /\ got' = got
        BY <1>1 DEF Open, handler
    <2>2. \A f \in Files : at'[f] \notin Copying
        BY <1>1 DEF Open, Reading, Copying
    <2>3. \A f \in Files : Trail(f)' = got'
        BY <1>0, <2>2, TrailSteps
    <2>4. Calm(got, read)'
        BY <2>1, SizeAssumption DEF Calm, Dist, Slot
    <2> QED BY <2>1, <2>2, <2>3, <2>4 DEF TwiceInv
<1>2. CASE ~Open(g)
    <2>1. UNCHANGED <<write, buf, push, count, since>> /\ (UNCHANGED read \/ (at[g] = "end" /\ read' = rp[g]))
        BY <1>2, OwnSteps DEF OnRing
    <2>2. \A k \in Slot : Dist(k)' = Dist(k) /\ Fresh(k)' = Fresh(k)
        BY <2>1 DEF Dist, Fresh
    <2>3. /\ NoneThrice(got')
          /\ \A k \in Slot : Fresh(k) /\ 1 <= Dist(k) /\ Dist(k) <= Dist(read') => ~Twice(got', buf[k])
          /\ push = "point" => ~Twice(got', count)
        <3>1. CASE ReadDone(g)
            <4>1. got' = Trail(g) /\ read' = rp[g] /\ at[g] = "end" /\ at[g] \in Copying /\ ~Lapped(g)
                BY <3>1 DEF ReadDone, StoreRead, Trail, Copying, Lapped
            <4> QED BY <4>1 DEF TwiceInv, Calm
        <3>2. CASE ~ReadDone(g)
            <4>1. got' = got /\ read' = read
                BY <1>2, <3>2 DEF Process, Reader, Release, Read, ReadCheck, ReadStart, ReadTest, ReadCopy, ReadFails,
                    ReadFault, ring, history
            <4> QED BY <4>1 DEF TwiceInv, Calm
        <3> QED BY <3>1, <3>2
    <2>4. Calm(got, read)'
        BY <2>1, <2>2, <2>3 DEF Calm, Dist
    <2>5. ASSUME NEW f \in Files, at'[f] \in Copying
          PROVE  /\ NoneThrice(Trail(f)')
                 /\ IF Lapped(f)' THEN CalmAll(Trail(f))' ELSE Calm(Trail(f), rp[f])'
        <3>1. ASSUME NEW s, NEW r, Trail(f)' = s, rp'[f] = r, NoneThrice(s), Calm(s, r),
                     at'[f] = "copy" => r # write
              PROVE  /\ NoneThrice(Trail(f)')
                     /\ IF Lapped(f)' THEN CalmAll(Trail(f))' ELSE Calm(Trail(f), rp[f])'
            BY <2>1, <2>2, <3>1 DEF Calm, Dist, Lapped
        <3>2. ASSUME f # g
              PROVE  /\ NoneThrice(Trail(f)')
                     /\ IF Lapped(f)' THEN CalmAll(Trail(f))' ELSE Calm(Trail(f), rp[f])'
            <4>1. at'[f] = at[f] /\ rp'[f] = rp[f] /\ Trail(f)' = Trail(f)
                BY <1>0, <2>5, <3>2, OwnSteps, TrailSteps
            <4>2. NoneThrice(Trail(f)) /\ IF Lapped(f) THEN CalmAll(Trail(f)) ELSE Calm(Trail(f), rp[f])
                BY <2>5, <4>1 DEF TwiceInv
            <4>3. Lapped(f)' <=> Lapped(f)
                BY <2>1, <4>1 DEF Lapped
            <4>4. CASE Lapped(f)
                BY <2>1, <2>2, <4>1, <4>2, <4>3, <4>4 DEF CalmAll
            <4>5. CASE ~Lapped(f)
                BY <2>1, <3>1, <4>1, <4>2, <4>5 DEF Lapped
            <4> QED BY <4>4, <4>5
        <3>3. CASE f = g /\ at[g] = "start" /\ at'[g] = "test" /\ rp'[g] = read /\ batch'[g] = batch[g] /\ got' = got
            <4>1. Trail(g)' = got
                BY <3>3, Trails DEF Trail, Copying
            <4> QED BY <3>1, <3>3, <4>1 DEF TwiceInv
        <3>4. CASE f = g /\ at[g] = "test" /\ UNCHANGED <<rp, batch, got>> /\ (at'[g] = "copy" => rp[g] # write)
            <4>1. Trail(g)' = Trail(g) /\ at[g] \in Copying /\ ~Lapped(g)
                BY <3>4 DEF Trail, Copying, Lapped
            <4> QED BY <3>1, <3>4, <4>1 DEF TwiceInv
        <3>5. ASSUME f = g, at[g] = "copy", at'[g] = "test", rp'[g] = Inc(rp[g]), got' = got, NEW p \in Seen(rp[g]),
                     batch'[g] = Append(batch[g], p)
              PROVE  /\ NoneThrice(Trail(f)')
                     /\ IF Lapped(f)' THEN CalmAll(Trail(f))' ELSE Calm(Trail(f), rp[f])'
            <4>1. p \in Int
                BY <3>5 DEF Seen, Torn, Pointers, Reading
            <4>2. Trail(g)' = Append(Trail(g), p) /\ Trail(g) \in Seq(Int)
                <5>1. got \in Seq(Int) /\ batch[g] \in Seq(Int) /\ Trail(g) \in Seq(Int)
                    BY Trails
                <5>2. Trail(g)' = got \o Append(batch[g], p)
                    BY <3>5 DEF Trail
                <5> QED BY <4>1, <5>1, <5>2, TrailGrows DEF Trail
            <4>3. NoneThrice(Trail(g)) /\ IF Lapped(g) THEN CalmAll(Trail(g)) ELSE Calm(Trail(g), rp[g])
                BY <3>5 DEF TwiceInv, Copying
            <4>4. NoneThrice(Append(Trail(g), p)) /\ Calm(Append(Trail(g), p), Inc(rp[g]))
                BY <3>5, <4>2, <4>3, CopyCalm
            <4> QED BY <3>1, <3>5, <4>2, <4>4
        <3> QED BY <2>5, <3>2, <3>3, <3>4, <3>5, OwnPlace
    <2>6. \A f \in Files : NoneThrice(Trail(f)')
        <3>1. \A f \in Files : at'[f] \notin Copying => Trail(f)' = got'
            BY <1>0, TrailSteps
        <3> QED BY <2>3, <2>5, <3>1
    <2> QED BY <2>3, <2>4, <2>5, <2>6 DEF TwiceInv
<1> QED BY <1>1, <1>2

Lone == unlucky \subseteq {"overflow"} => Steady /\ TwiceInv

\* However many packets come too many, a reader that has the device to itself is
\* given no packet a third time (p2slave_main.c:213-227, 543-555).
THEOREM NoPacketSeenThrice == Spec => []AtMostTwice
<1>1. Init => Lone
    <2> SUFFICES ASSUME Init PROVE Steady /\ TwiceInv
        BY DEF Lone
    <2>1. /\ RingInv /\ Shared /\ ReadInv /\ read = write /\ push = "idle" /\ got = <<>>
          /\ \A f \in Files : at[f] \notin Copying
        BY RingStart DEF Init, Copying
    <2>2. \A f \in Files : Trail(f) = <<>>
        BY <2>1, Trails DEF RingInv
    <2>3. NoneThrice(<<>>)
        BY EmptySeq DEF NoneThrice
    <2>4. Calm(got, read)
        BY <2>1, SizeAssumption DEF Calm, Dist, RingInv, Pointers, Slot
    <2> QED BY <2>1, <2>2, <2>3, <2>4 DEF Steady, TwiceInv
<1>2. Lone /\ [Next]_vars => Lone'
    <2> SUFFICES ASSUME unlucky \subseteq {"overflow"}, Steady, TwiceInv, [Next]_vars PROVE Steady' /\ TwiceInv'
        <3>1. [Next]_vars => unlucky' = unlucky
            BY Fated DEF vars
        <3> QED BY <3>1 DEF Lone
    <2>1. "openMeanwhile" \notin unlucky /\ "sharing" \notin unlucky /\ RingInv /\ Shared /\ ReadInv
        BY DEF Steady
    <2>2. CASE Next
        BY <2>1, <2>2, Fated, RingStep, ReadStep, SharedStep, TwicePush, TwiceProcess DEF Steady, RingInv, Next
    <2>3. CASE UNCHANGED vars
        <3>1. /\ UNCHANGED <<read, write, buf, push, count, wp, at, rp, batch, got, since, unlucky>>
              /\ \A f \in Files : Trail(f)' = Trail(f)
            BY <2>3 DEF vars, ring, handler, locals, history, Trail
        <3>2. RingInv' /\ Shared' /\ ReadInv'
            BY <2>1, <3>1 DEF RingInv, Pointers, Aged, Reading, Round, Fresh, Age, Dist, Shared, Alone, ReadInv
        <3>3. TwiceInv'
            BY <3>1 DEF TwiceInv, Calm, CalmAll, Lapped, Fresh, Dist
        <3> QED BY <3>2, <3>3 DEF Steady
    <2> QED BY <2>2, <2>3
<1>3. Lone => AtMostTwice
    BY DEF Lone, TwiceInv, NoneThrice, AtMostTwice
<1> QED BY <1>1, <1>2, <1>3, PTL DEF Spec

-----------------------------------------------------------------------------
(* The ring implements PacketQueue when nothing is left to luck.             *)

\* How far a reader at i is from j, the slot k places on from i, and what is
\* stored in between.
Offset(i, j) == IF i <= j THEN j - i ELSE j + Size - i

Ahead(i, k) == IF i + k < Size THEN i + k ELSE i + k - Size

Span(b, i, j) == [k \in 1 .. Offset(i, j) |-> b[Ahead(i, k - 1)]]

LEMMA Remainder ==
    ASSUME NEW n \in Nat, NEW s \in Nat \ {0}, n < s + s
    PROVE  n % s = IF n < s THEN n ELSE n - s
<1>1. n = s * (n \div s) + (n % s) /\ n \div s \in Nat /\ n % s \in 0 .. s - 1
    OBVIOUS
<1> DEFINE q == n \div s
           t == s * q
<1>2. q = 0 \/ q = 1 \/ q >= 2
    BY <1>1
<1>3. q = 0 => t = 0
    OBVIOUS
<1>4. q = 1 => t = s
    OBVIOUS
<1>5. ASSUME NEW a \in Nat, NEW d \in Nat, a >= 2
      PROVE  d * a >= d + d
    <2>1. d * a = d * (a - 2) + d + d /\ d * (a - 2) >= 0
        BY <1>5
    <2> QED BY <2>1
<1>6. q >= 2 => t >= s + s
    BY <1>1, <1>5
<1>7. t \in Nat /\ n = t + (n % s)
    BY <1>1
<1> HIDE DEF q, t
<1> QED BY <1>1, <1>2, <1>3, <1>4, <1>6, <1>7

LEMMA SlotsAhead ==
    ASSUME NEW i \in Slot, NEW j \in Slot
    PROVE  /\ Offset(i, j) \in 0 .. Size - 1
           /\ \A k \in 0 .. Size - 1 : Ahead(i, k) \in Slot /\ Ahead(i, k) = (i + k) % Size
           /\ Ahead(i, Offset(i, j)) = j
           /\ \A k \in 0 .. Offset(i, j) - 1 : Ahead(i, k) # j
<1>1. i \in Nat /\ j \in Nat /\ i < Size /\ j < Size /\ Size \in Nat /\ Size > 1
    BY SizeAssumption DEF Slot
<1>2. Offset(i, j) \in 0 .. Size - 1
    BY <1>1 DEF Offset
<1>3. ASSUME NEW k \in 0 .. Size - 1
      PROVE  Ahead(i, k) \in Slot /\ Ahead(i, k) = (i + k) % Size
    <2> DEFINE x == i + k
    <2>1. x \in Nat /\ x < Size + Size /\ Size \in Nat \ {0}
        BY <1>1
    <2>2. Ahead(i, k) = IF x < Size THEN x ELSE x - Size
        BY <1>1 DEF Ahead, x
    <2> HIDE DEF x
    <2>3. x % Size = IF x < Size THEN x ELSE x - Size
        BY <2>1, Remainder
    <2>4. Ahead(i, k) \in Slot
        BY <2>1, <2>2 DEF Slot
    <2> QED BY <2>2, <2>3, <2>4 DEF x
<1>4. Ahead(i, Offset(i, j)) = j
    BY <1>1 DEF Ahead, Offset
<1>5. \A k \in 0 .. Offset(i, j) - 1 : Ahead(i, k) # j
    BY <1>1 DEF Ahead, Offset
<1> QED BY <1>2, <1>3, <1>4, <1>5

LEMMA SpanByRemainder ==
    ASSUME NEW b, NEW i \in Slot, NEW j \in Slot
    PROVE  [k \in 1 .. (IF i <= j THEN j - i ELSE j + Size - i) |-> b[(i + k - 1) % Size]]
               = Span(b, i, j)
<1>1. Size \in Nat /\ i \in Nat
    BY SizeAssumption DEF Slot
<1>2. Offset(i, j) \in 0 .. Size - 1
    BY SlotsAhead
<1>3. \A k \in 1 .. Offset(i, j) : Ahead(i, k - 1) = (i + k - 1) % Size
    <2> TAKE k \in 1 .. Offset(i, j)
    <2>1. k - 1 \in 0 .. Size - 1 /\ i + (k - 1) = i + k - 1
        BY <1>1, <1>2
    <2> QED BY <2>1, SlotsAhead
<1> QED BY <1>3 DEF Span, Offset

\* A span is a sequence of what is stored; one slot more is one element more.
LEMMA SpanType ==
    ASSUME NEW b \in [Slot -> Nat], NEW i \in Slot, NEW j \in Slot
    PROVE  Span(b, i, j) \in Seq(Nat) /\ Len(Span(b, i, j)) = Offset(i, j)
<1>1. Offset(i, j) \in Nat /\ \A k \in 1 .. Offset(i, j) : k - 1 \in 0 .. Size - 1
    BY SlotsAhead, SizeAssumption
<1>2. \A k \in 1 .. Offset(i, j) : b[Ahead(i, k - 1)] \in Nat
    BY <1>1, SlotsAhead
<1>3. Span(b, i, j) \in [1 .. Offset(i, j) -> Nat]
    BY <1>2 DEF Span
<1> QED BY <1>1, <1>3

LEMMA OneFurther ==
    ASSUME NEW i \in Slot, NEW j \in Slot, Inc(j) # i
    PROVE  Inc(j) \in Slot /\ Offset(i, Inc(j)) = Offset(i, j) + 1
BY SizeAssumption DEF Slot, Inc, Offset

LEMMA SpanAppend ==
    ASSUME NEW b \in [Slot -> Nat], NEW i \in Slot, NEW j \in Slot, Inc(j) # i
    PROVE  Span(b, i, Inc(j)) = Append(Span(b, i, j), b[j])
<1> DEFINE n == Offset(i, j)
           s == Span(b, i, j)
           t == Span(b, i, Inc(j))
<1>1. Inc(j) \in Slot /\ Offset(i, Inc(j)) = n + 1 /\ n \in 0 .. Size - 1 /\ Ahead(i, n) = j
    BY OneFurther, SlotsAhead
<1>2. s \in Seq(Nat) /\ Len(s) = n /\ t \in Seq(Nat) /\ Len(t) = n + 1 /\ b[j] \in Nat
    BY <1>1, SpanType
<1>3. \A k \in 1 .. n : t[k] = s[k]
    BY <1>1, SizeAssumption DEF Span
<1>4. t[n + 1] = b[Ahead(i, n)]
    <2>1. n + 1 \in 1 .. Offset(i, Inc(j)) /\ (n + 1) - 1 = n
        BY <1>1
    <2> QED BY <2>1 DEF Span
<1> HIDE DEF s, t
<1>5. /\ Append(s, b[j]) \in Seq(Nat) /\ Len(Append(s, b[j])) = n + 1
      /\ \A k \in 1 .. n : Append(s, b[j])[k] = s[k]
      /\ Append(s, b[j])[n + 1] = b[j]
    BY <1>2, AppendProperties
<1>6. \A k \in 1 .. n + 1 : t[k] = Append(s, b[j])[k]
    BY <1>1, <1>3, <1>4, <1>5
<1>7. t = Append(s, b[j])
    BY <1>2, <1>5, <1>6, SeqEqual
<1> QED BY <1>7 DEF s, t

LEMMA CutNumbers ==
    ASSUME NEW s \in Seq(Nat), NEW i \in Int, NEW j \in Int, 1 <= i, i <= j + 1, j <= Len(s)
    PROVE  /\ SubSeq(s, i, j) \in Seq(Nat) /\ Len(SubSeq(s, i, j)) = j - i + 1
           /\ \A k \in 1 .. j - i + 1 : SubSeq(s, i, j)[k] = s[i + k - 1]
<1>1. PICK T : T = Nat
    OBVIOUS
<1>2. s \in Seq(T)
    BY <1>1
<1>3. /\ SubSeq(s, i, j) \in Seq(T)
      /\ Len(SubSeq(s, i, j)) = IF i <= j THEN j - i + 1 ELSE 0
      /\ \A k \in 1 .. j - i + 1 : SubSeq(s, i, j)[k] = s[i + k - 1]
    BY <1>2, SubSeqProperties
<1> QED BY <1>1, <1>3

\* What is in front of a slot and what is behind it.
LEMMA SpanSplit ==
    ASSUME NEW b \in [Slot -> Nat], NEW i \in Slot, NEW m \in Slot, NEW j \in Slot,
           Offset(i, m) <= Offset(i, j)
    PROVE  /\ Span(b, i, m) = SubSeq(Span(b, i, j), 1, Offset(i, m))
           /\ Span(b, m, j) = SubSeq(Span(b, i, j), Offset(i, m) + 1, Offset(i, j))
<1> DEFINE n == Offset(i, j)
           l == Offset(i, m)
           s == Span(b, i, j)
<1>1. n \in 0 .. Size - 1 /\ l \in 0 .. Size - 1 /\ Size \in Nat
    BY SlotsAhead, SizeAssumption
<1>2. s \in Seq(Nat) /\ Len(s) = n
    BY SpanType
<1>3. Offset(m, j) = n - l
    BY SizeAssumption DEF Offset, Slot
<1>4. \A k \in 1 .. n - l : Ahead(m, k - 1) = Ahead(i, l + k - 1)
    BY SizeAssumption DEF Offset, Slot, Ahead
<1>5. \A k \in 1 .. n : s[k] = b[Ahead(i, k - 1)]
    BY DEF Span
<1>6. Span(b, i, m) \in Seq(Nat) /\ Len(Span(b, i, m)) = l /\ \A k \in 1 .. l : Span(b, i, m)[k] = s[k]
    <2>1. \A k \in 1 .. l : Span(b, i, m)[k] = b[Ahead(i, k - 1)]
        BY DEF Span
    <2>2. \A k \in 1 .. l : k \in 1 .. n
        BY <1>1
    <2>3. \A k \in 1 .. l : Span(b, i, m)[k] = s[k]
        BY <1>5, <2>1, <2>2
    <2>4. Span(b, i, m) \in Seq(Nat) /\ Len(Span(b, i, m)) = Offset(i, m)
        BY SpanType
    <2> QED BY <2>3, <2>4
<1>7. /\ Span(b, m, j) \in Seq(Nat) /\ Len(Span(b, m, j)) = n - l
      /\ \A k \in 1 .. n - l : Span(b, m, j)[k] = s[l + k]
    <2>1. \A k \in 1 .. n - l : Span(b, m, j)[k] = b[Ahead(m, k - 1)]
        BY <1>3 DEF Span
    <2>2. Span(b, m, j) \in Seq(Nat) /\ Len(Span(b, m, j)) = n - l
        BY <1>3, SpanType
    <2>3. ASSUME NEW k \in 1 .. n - l PROVE Span(b, m, j)[k] = s[l + k]
        <3>1. l + k \in 1 .. n /\ (l + k) - 1 = l + k - 1
            BY <1>1
        <3>2. s[l + k] = b[Ahead(i, l + k - 1)]
            BY <1>5, <3>1
        <3> QED BY <1>4, <2>1, <3>2
    <2> QED BY <2>2, <2>3
<1>8. n \in Int /\ l \in Int /\ 0 <= l /\ l <= n
    BY <1>1
<1> HIDE DEF s, n, l
<1>9. /\ SubSeq(s, 1, l) \in Seq(Nat) /\ Len(SubSeq(s, 1, l)) = l
      /\ \A k \in 1 .. l : SubSeq(s, 1, l)[k] = s[k]
    <2>1. 1 \in Int /\ 1 <= l + 1 /\ l <= Len(s)
        BY <1>2, <1>8
    <2>2. /\ SubSeq(s, 1, l) \in Seq(Nat) /\ Len(SubSeq(s, 1, l)) = l - 1 + 1
          /\ \A k \in 1 .. l - 1 + 1 : SubSeq(s, 1, l)[k] = s[1 + k - 1]
        BY <1>2, <1>8, <2>1, CutNumbers
    <2> QED BY <1>8, <2>2
<1>10. /\ SubSeq(s, l + 1, n) \in Seq(Nat) /\ Len(SubSeq(s, l + 1, n)) = n - l
      /\ \A k \in 1 .. n - l : SubSeq(s, l + 1, n)[k] = s[l + k]
    <2>1. PICK e \in Int : e = l + 1
        BY <1>8
    <2>2. 1 <= e /\ e <= n + 1 /\ n <= Len(s)
        BY <1>2, <1>8, <2>1
    <2>3. /\ SubSeq(s, e, n) \in Seq(Nat) /\ Len(SubSeq(s, e, n)) = n - e + 1
          /\ \A k \in 1 .. n - e + 1 : SubSeq(s, e, n)[k] = s[e + k - 1]
        BY <1>2, <1>8, <2>2, CutNumbers
    <2> QED BY <1>8, <2>1, <2>3
<1>11. Span(b, i, m) = SubSeq(s, 1, l)
    BY <1>9, <1>6, SeqEqual
<1>12. Span(b, m, j) = SubSeq(s, l + 1, n)
    <2>1. \A k \in 1 .. n - l : Span(b, m, j)[k] = SubSeq(s, l + 1, n)[k]
        BY <1>10, <1>7
    <2> QED BY <1>10, <1>7, <2>1, SeqEqual
<1> QED BY <1>11, <1>12 DEF s, n, l
-----------------------------------------------------------------------------
(* The steps of the ring as steps of the queue. *)

\* A push has a place to go to; a reader has copied what follows its pointer, and
\* there is more when it copies.
Copied(f) ==
    at[f] \in Copying => /\ Offset(read, rp[f]) <= Offset(read, write)
                         /\ batch[f] = Span(buf, read, rp[f])
                         /\ at[f] = "copy" => rp[f] # write

QueueInv ==
    /\ RingInv /\ Shared
    /\ count <= MaxPkts
    /\ push \in {"load", "store"} => count < MaxPkts
    /\ push # "idle" => Inc(write) # read
    /\ \A f \in Files : Copied(f)

\* What waits in the ring.
Waiting == Span(buf, read, write)

Rests  == Waiting' = Waiting /\ got' = got
Grows  == \E p \in Packet : Waiting' = Append(Waiting, p) /\ got' = got
Clears == Waiting' = <<>> /\ got' = got
Serves == \E n \in 1 .. Len(Waiting) :
              /\ got' = got \o SubSeq(Waiting, 1, n)
              /\ Waiting' = SubSeq(Waiting, n + 1, Len(Waiting))

\* What is stored elsewhere does not show.
LEMMA SpanKept ==
    ASSUME NEW b, NEW c, NEW i \in Slot, NEW m \in Slot, NEW j \in Slot,
           \A k \in Slot \ {j} : c[k] = b[k],
           Offset(i, m) <= Offset(i, j)
    PROVE  Span(c, i, m) = Span(b, i, m)
<1>1. \A k \in 1 .. Offset(i, m) : Ahead(i, k - 1) \in Slot /\ Ahead(i, k - 1) # j
    <2> TAKE k \in 1 .. Offset(i, m)
    <2>1. Offset(i, m) \in 0 .. Size - 1 /\ Offset(i, j) \in 0 .. Size - 1 /\ Size \in Nat
        BY SlotsAhead, SizeAssumption
    <2>2. k - 1 \in 0 .. Size - 1 /\ k - 1 \in 0 .. Offset(i, j) - 1
        BY <2>1
    <2> QED BY <2>2, SlotsAhead
<1>2. \A k \in 1 .. Offset(i, m) : c[Ahead(i, k - 1)] = b[Ahead(i, k - 1)]
    BY <1>1
<1> QED BY <1>2 DEF Span

\* Where the reader was, the ring has as much room as before and more; a reader
\* that is not at the end may go one on.
LEMMA RoomLeft ==
    ASSUME NEW i \in Slot, NEW m \in Slot, NEW j \in Slot,
           Offset(i, m) <= Offset(i, j)
    PROVE  /\ Inc(j) # i => Inc(j) # m
           /\ m # j => Inc(m) # i /\ Inc(m) \in Slot /\ Offset(i, Inc(m)) <= Offset(i, j)
<1>1. /\ i \in Nat /\ j \in Nat /\ m \in Nat /\ Size \in Nat
      /\ i < Size /\ j < Size /\ m < Size
    BY SizeAssumption DEF Slot
<1>2. Inc(j) # i => Inc(j) # m
    BY <1>1 DEF Inc, Offset
<1>3. m # j => Inc(m) # i
    BY <1>1 DEF Inc, Offset
<1>4. m # j => Offset(i, m) < Offset(i, j)
    BY <1>1 DEF Offset
<1>5. m # j => Inc(m) \in Slot /\ Offset(i, Inc(m)) = Offset(i, m) + 1
    BY <1>3, OneFurther
<1>6. Offset(i, m) \in Int /\ Offset(i, j) \in Int
    BY <1>1 DEF Offset
<1> QED BY <1>2, <1>3, <1>4, <1>5, <1>6

LEMMA QueueTyped ==
    ASSUME unlucky = {}, QueueInv
    PROVE  /\ read \in Slot /\ write \in Slot /\ rp \in [Files -> Slot] /\ buf \in [Slot -> Nat]
           /\ got \in Seq(Int) /\ \A f \in Files : batch[f] \in Seq(Int)
           /\ Next => RingInv' /\ Shared'
BY RingStep, SharedStep DEF QueueInv, RingInv, Pointers, Reading

\* The packet goes to a slot that nobody is to read yet.
LEMMA QueueStore ==
    ASSUME unlucky = {}, QueueInv, PushBegin \/ PushLoad \/ PushStore
    PROVE  QueueInv' /\ Rests
<1>1. RingInv' /\ Shared'
    BY QueueTyped DEF Next, Push
<1>2. read \in Slot /\ write \in Slot /\ rp \in [Files -> Slot] /\ buf \in [Slot -> Nat]
    BY QueueTyped
<1>3. /\ UNCHANGED <<read, write, at, rp, batch, got>>
      /\ \A k \in Slot \ {write} : buf'[k] = buf[k]
      /\ Inc(write) # read
    BY <1>2 DEF PushBegin, PushLoad, PushStore, Room, ring, locals, history, QueueInv, RingInv, Pointers
<1>4. ASSUME NEW m \in Slot, Offset(read, m) <= Offset(read, write)
      PROVE  Span(buf', read, m) = Span(buf, read, m)
    BY <1>2, <1>3, <1>4, SpanKept
<1>5. Span(buf', read, write) = Span(buf, read, write)
    <2>1. Offset(read, write) <= Offset(read, write)
        BY <1>2, SlotsAhead, SizeAssumption
    <2> QED BY <1>2, <1>4, <2>1
<1>6. ASSUME NEW f \in Files PROVE Copied(f)'
    <2> SUFFICES ASSUME at[f] \in Copying
                 PROVE  /\ Offset(read, rp[f]) <= Offset(read, write)
                        /\ batch[f] = Span(buf', read, rp[f])
                        /\ at[f] = "copy" => rp[f] # write
        BY <1>3 DEF Copied, Offset
    <2> QED BY <1>2, <1>4 DEF QueueInv, Copied
<1>7. count' <= MaxPkts /\ (push' \in {"load", "store"} => count' < MaxPkts)
    BY BoundAssumption DEF PushBegin, PushLoad, PushStore, QueueInv, RingInv, Pointers, Packet
<1> QED BY <1>1, <1>3, <1>5, <1>6, <1>7 DEF QueueInv, Rests, Waiting

LEMMA QueuePush ==
    ASSUME unlucky = {}, QueueInv, PushDone
    PROVE  QueueInv' /\ Grows
<1>1. RingInv' /\ Shared'
    BY QueueTyped DEF Next, Push
<1>2. read \in Slot /\ write \in Slot /\ rp \in [Files -> Slot] /\ buf \in [Slot -> Nat]
    BY QueueTyped
<1>3. /\ write' = Inc(write) /\ push' = "idle" /\ buf[write] = count /\ count \in Packet
      /\ UNCHANGED <<read, buf, count, at, rp, batch, got>> /\ Inc(write) # read
    <2>1. push = "point" /\ count \in Nat /\ since \in Nat /\ buf[write] = count /\ buf[write] > since
        BY DEF PushDone, QueueInv, RingInv, Pointers, Fresh
    <2>2. count \in Packet
        BY <2>1, BoundAssumption DEF QueueInv, Packet
    <2> QED BY <2>1, <2>2 DEF PushDone, QueueInv, RingInv, Pointers, locals, history
<1>4. Inc(write) \in Slot /\ Offset(read, Inc(write)) = Offset(read, write) + 1
      /\ Offset(read, write) \in 0 .. Size - 1
    BY <1>2, <1>3, OneFurther, SlotsAhead
<1>5. Span(buf, read, Inc(write)) = Append(Span(buf, read, write), count)
    BY <1>2, <1>3, SpanAppend
<1>6. ASSUME NEW f \in Files PROVE Copied(f)'
    <2> SUFFICES ASSUME at[f] \in Copying
                 PROVE  /\ Offset(read, rp[f]) <= Offset(read, Inc(write))
                        /\ batch[f] = Span(buf, read, rp[f])
                        /\ rp[f] # Inc(write)
        BY <1>3 DEF Copied, Offset, Span, Ahead
    <2>1. Offset(read, rp[f]) \in 0 .. Size - 1
        BY <1>2, SlotsAhead
    <2>2. Offset(read, rp[f]) <= Offset(read, write) /\ batch[f] = Span(buf, read, rp[f])
        BY DEF QueueInv, Copied
    <2>3. Offset(read, rp[f]) < Offset(read, Inc(write))
        BY <1>4, <2>1, <2>2, SizeAssumption
    <2> QED BY <1>4, <2>1, <2>2, <2>3, SizeAssumption
<1>7. QueueInv'
    BY <1>1, <1>3, <1>6 DEF QueueInv
<1> QED BY <1>3, <1>5, <1>7 DEF Grows, Waiting

\* While one process reads, the others have the device closed.
LEMMA QueueOthers ==
    ASSUME NEW f \in Files, unlucky = {}, QueueInv, Process(f), Copied(f)'
    PROVE  \A g \in Files : Copied(g)'
<1>1. \A g \in Files \ {f} : at'[g] = at[g]
    BY OwnSteps DEF QueueInv, RingInv
<1>2. \A g \in Files \ {f} : at[g] \notin Copying
    <2>1. at[f] = "closed" => \A g \in Files \ {f} : at[g] \notin Copying
        BY OwnSteps DEF QueueInv, RingInv, Open, IsOpen, Copying
    <2>2. at[f] # "closed" => \A g \in Files \ {f} : at[g] = "closed"
        BY DEF QueueInv, Shared, Alone
    <2> QED BY <2>1, <2>2 DEF Copying
<1> QED BY <1>1, <1>2 DEF Copied

LEMMA QueueOpen ==
    ASSUME NEW f \in Files, unlucky = {}, QueueInv, Open(f)
    PROVE  QueueInv' /\ Clears
<1>1. RingInv' /\ Shared'
    BY QueueTyped DEF Next, Process
<1>2. /\ read' = 0 /\ write' = 0 /\ push = "idle" /\ push' = "idle" /\ at'[f] = "user"
      /\ UNCHANGED <<buf, count, got>>
    BY DEF Open, handler, QueueInv, RingInv, Reading
<1>3. Offset(0, 0) = 0 /\ Span(buf, 0, 0) = <<>>
    BY DEF Offset, Span
<1>4. QueueInv'
    BY <1>1, <1>2, QueueOthers DEF QueueInv, Copied, Copying, Process
<1> QED BY <1>2, <1>3, <1>4 DEF Clears, Waiting

\* The steps of a reader that move no packet.
LEMMA QueueRests ==
    ASSUME NEW f \in Files, unlucky = {}, QueueInv,
           \/ Release(f) \/ (\E n \in Wants : Read(f, n)) \/ ReadCheck(f) \/ ReadStart(f) \/ ReadTest(f)
           \/ ReadFails(f) \/ ReadFault(f)
    PROVE  QueueInv' /\ Rests
<1>1. RingInv' /\ Shared'
    BY QueueTyped DEF Next, Process, Reader
<1>2. UNCHANGED <<read, write, buf, push, count, got>>
    BY DEF Release, Read, ReadCheck, ReadStart, ReadTest, ReadFails, ReadFault, ring, handler, history
<1>3. \/ at'[f] \notin Copying
      \/ at'[f] = "test" /\ rp'[f] = read /\ batch'[f] = <<>>
      \/ at[f] = "test" /\ rp' = rp /\ batch' = batch /\ (at'[f] = "copy" => rp[f] # write)
    BY DEF Release, Read, ReadCheck, ReadStart, ReadTest, More, ReadFails, ReadFault, Return, locals, QueueInv,
        RingInv, Reading, Copying
<1>4. Span(buf, read, read) = <<>> /\ Offset(read, read) = 0 /\ Offset(read, write) >= 0
    <2>1. read \in Slot /\ write \in Slot /\ read \in Int
        BY QueueTyped, SizeAssumption DEF Slot
    <2>2. Offset(read, read) = 0
        BY <2>1 DEF Offset
    <2>3. Offset(read, write) >= 0
        BY <2>1, SlotsAhead, SizeAssumption
    <2> QED BY <2>2, <2>3 DEF Span
<1>5. Copied(f)'
    <2>1. CASE at'[f] \notin Copying
        BY <2>1 DEF Copied
    <2>2. CASE at'[f] = "test" /\ rp'[f] = read /\ batch'[f] = <<>>
        BY <1>2, <1>4, <2>2 DEF Copied, Offset, Span, Ahead
    <2>3. CASE at[f] = "test" /\ rp' = rp /\ batch' = batch /\ (at'[f] = "copy" => rp[f] # write)
        BY <1>2, <2>3 DEF QueueInv, Copied, Copying, Offset, Span, Ahead
    <2> QED BY <1>3, <2>1, <2>2, <2>3
<1>6. QueueInv'
    BY <1>1, <1>2, <1>5, QueueOthers DEF QueueInv, Process, Reader
<1> QED BY <1>2, <1>6 DEF Rests, Waiting

\* What is copied is whole: the slot is not the one that may be stored to.
LEMMA QueueCopy ==
    ASSUME NEW f \in Files, unlucky = {}, QueueInv, ReadCopy(f)
    PROVE  QueueInv' /\ Rests
<1>1. RingInv' /\ Shared'
    BY QueueTyped DEF Next, Process, Reader
<1>2. read \in Slot /\ write \in Slot /\ rp[f] \in Slot /\ buf \in [Slot -> Nat]
    BY QueueTyped
<1>3. /\ at[f] = "copy" /\ at'[f] = "test" /\ rp'[f] = Inc(rp[f])
      /\ UNCHANGED <<read, write, buf, push, count, got>>
    BY DEF ReadCopy, ring, handler, history, QueueInv, RingInv, Reading
<1>4. Offset(read, rp[f]) <= Offset(read, write) /\ batch[f] = Span(buf, read, rp[f]) /\ rp[f] # write
    BY <1>3 DEF QueueInv, Copied, Copying
<1>5. batch'[f] = Append(batch[f], buf[rp[f]])
    <2>1. Seen(rp[f]) = {buf[rp[f]]}
        BY <1>4 DEF Seen, QueueInv, RingInv, Pointers
    <2> QED BY <2>1 DEF ReadCopy, QueueInv, RingInv, Reading
<1>6. Inc(rp[f]) # read /\ Offset(read, Inc(rp[f])) <= Offset(read, write)
    BY <1>2, <1>4, RoomLeft
<1>7. Span(buf, read, Inc(rp[f])) = Append(Span(buf, read, rp[f]), buf[rp[f]])
    BY <1>2, <1>6, SpanAppend
<1>8. Copied(f)'
    BY <1>3, <1>4, <1>5, <1>6, <1>7 DEF Copied, Offset, Span, Ahead
<1>9. QueueInv'
    BY <1>1, <1>3, <1>8, QueueOthers DEF QueueInv, Process, Reader
<1> QED BY <1>3, <1>9 DEF Rests, Waiting

LEMMA QueueDone ==
    ASSUME NEW f \in Files, unlucky = {}, QueueInv, ReadDone(f)
    PROVE  QueueInv' /\ (Rests \/ Serves)
<1>1. RingInv' /\ Shared'
    BY QueueTyped DEF Next, Process, Reader
<1>2. read \in Slot /\ write \in Slot /\ rp[f] \in Slot /\ buf \in [Slot -> Nat]
    BY QueueTyped
<1>3. /\ at[f] = "end" /\ at'[f] = "user" /\ read' = rp[f] /\ got' = got \o batch[f]
      /\ UNCHANGED <<write, buf, push, count>>
    BY DEF ReadDone, StoreRead, Return, handler, QueueInv, RingInv, Reading
<1>4. /\ Offset(read, rp[f]) <= Offset(read, write) /\ batch[f] = Span(buf, read, rp[f])
      /\ batch[f] \in Seq(Int) /\ got \in Seq(Int)
    BY <1>3, QueueTyped DEF QueueInv, Copied, Copying
<1>6. push # "idle" => Inc(write) # rp[f]
    BY <1>2, <1>4, RoomLeft DEF QueueInv
<1>7. QueueInv'
    BY <1>1, <1>3, <1>6, QueueOthers DEF QueueInv, Copied, Copying, Process, Reader
<1> DEFINE n == Offset(read, rp[f])
<1>8. n \in Nat /\ Offset(read, write) \in Nat /\ Len(Waiting) = Offset(read, write)
    <2>1. n \in 0 .. Size - 1
        BY <1>2, SlotsAhead
    <2>2. Offset(read, write) \in 0 .. Size - 1
        BY <1>2, SlotsAhead
    <2>3. Len(Span(buf, read, write)) = Offset(read, write)
        BY <1>2, SpanType
    <2>4. \A k \in 0 .. Size - 1 : k \in Nat
        BY SizeAssumption
    <2> QED BY <2>1, <2>2, <2>3, <2>4 DEF Waiting
<1>9. /\ batch[f] = SubSeq(Waiting, 1, n)
      /\ Waiting' = SubSeq(Waiting, n + 1, Len(Waiting))
    <2>1. /\ Span(buf, read, rp[f]) = SubSeq(Span(buf, read, write), 1, n)
          /\ Span(buf, rp[f], write)
                 = SubSeq(Span(buf, read, write), n + 1, Offset(read, write))
        BY <1>2, <1>4, SpanSplit
    <2> QED BY <1>3, <1>4, <1>8, <2>1 DEF Waiting
<1>10. CASE n = 0
    <2>1. rp[f] = read
        BY <1>2, <1>10, SizeAssumption DEF Offset, Slot
    <2>2. batch[f] = <<>>
        BY <1>4, <1>10 DEF Span
    <2>3. got' = got
        BY <1>3, <1>4, <2>2
    <2> QED BY <1>3, <1>7, <2>1, <2>3 DEF Rests, Waiting
<1>11. CASE n # 0
    <2>1. n \in 1 .. Len(Waiting)
        BY <1>4, <1>8, <1>11
    <2> QED BY <1>3, <1>7, <1>9, <2>1 DEF Serves
<1> QED BY <1>10, <1>11

LEMMA QueueStep ==
    ASSUME unlucky = {}, QueueInv, Next
    PROVE  QueueInv' /\ (Rests \/ Grows \/ Clears \/ Serves)
<1>1. ASSUME NEW f \in Files, Process(f) PROVE QueueInv' /\ (Rests \/ Clears \/ Serves)
    BY <1>1, QueueOpen, QueueRests, QueueCopy, QueueDone DEF Process, Reader
<1> QED BY <1>1, QueueStore, QueuePush DEF Next, Push

\* For a ring of any size and any number of readers: when one process at a time has
\* the device open and keeps up, and no open comes in the middle of a push, the
\* ring is a queue; every packet passed on while the device is open is read once and
\* in order, and a read that fails half-way loses none
\* (p2slave_main.c:213-227, 507-556).
THEOREM RingIsQueue == Spec => ImplementsPacketQueue
<1> DEFINE Lucky == unlucky = {} => QueueInv
<1>1. ASSUME unlucky = {}, QueueInv
      PROVE  Between(read, write) = Waiting
    BY <1>1, SpanByRemainder DEF QueueInv, RingInv, Pointers, Waiting, Between
<1>2. Init => Lucky
    BY RingStart, BoundAssumption DEF Init, QueueInv, Copied, Copying
<1>3. [Next]_vars => unlucky' = unlucky
    BY Fated DEF vars
<1>4. Lucky /\ [Next]_vars => Lucky'
    <2> SUFFICES ASSUME QueueInv, [Next]_vars, unlucky = {} PROVE QueueInv'
        BY <1>3
    <2>1. CASE Next
        BY <2>1, QueueStep
    <2>2. CASE UNCHANGED vars
        BY <2>2 DEF vars, ring, handler, locals, history, QueueInv, RingInv, Pointers, Aged, Age, Dist, Fresh, Round,
                Reading, Offset, Span, Ahead, Copied, Shared, Alone
    <2> QED BY <2>1, <2>2
<1>5. Init => PQ!Init
    <2>1. Init => Between(read, write) = <<>>
        BY DEF Init, Between
    <2> QED BY <2>1 DEF Init, PQ!Init
<1>6. Lucky /\ Lucky' /\ [Next]_vars => [PQ!Next]_(<<IF unlucky = {} THEN Between(read, write) ELSE <<>>,
                                                     IF unlucky = {} THEN got ELSE <<>>>>)
    <2> SUFFICES ASSUME Lucky, Lucky', [Next]_vars
                 PROVE  [PQ!Next]_(<<IF unlucky = {} THEN Between(read, write) ELSE <<>>,
                                     IF unlucky = {} THEN got ELSE <<>>>>)
        OBVIOUS
    <2>1. unlucky' = unlucky
        BY <1>3
    <2>2. CASE unlucky # {}
        BY <2>1, <2>2
    <2>3. CASE unlucky = {}
        <3>1. Between(read, write) = Waiting /\ Between(read, write)' = Waiting'
            <4>1. QueueInv'
                BY <2>1, <2>3
            <4>2. read' \in Slot /\ write' \in Slot
                BY <4>1 DEF QueueInv, RingInv, Pointers
            <4>3. Between(read, write)' = Span(buf', read', write')
                BY <4>2, SpanByRemainder DEF Between
            <4> QED BY <1>1, <2>3, <4>3 DEF Waiting
        <3>2. Rests \/ Grows \/ Clears \/ Serves
            <4>1. CASE UNCHANGED vars
                BY <4>1 DEF vars, ring, history, Rests, Waiting, Span, Offset, Ahead
            <4> QED BY <2>3, <4>1, QueueStep
        <3>3. CASE Rests
            BY <2>1, <2>3, <3>1, <3>3 DEF Rests
        <3>4. CASE Grows
            BY <2>1, <2>3, <3>1, <3>4 DEF Grows, PQ!Push, PQ!Next
        <3>5. CASE Clears
            BY <2>1, <2>3, <3>1, <3>5 DEF Clears, PQ!Open, PQ!Next
        <3>6. CASE Serves
            BY <2>1, <2>3, <3>1, <3>6 DEF Serves, PQ!Read, PQ!Next
        <3> QED BY <3>2, <3>3, <3>4, <3>5, <3>6
    <2> QED BY <2>2, <2>3
<1> QED BY <1>2, <1>4, <1>5, <1>6, PTL DEF Spec, ImplementsPacketQueue, PQ!Spec

=============================================================================
