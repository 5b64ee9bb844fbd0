-------------------------- MODULE DmaEngineProofs --------------------------
(***************************************************************************)
(* For any number of processes, engines and requests: an engine has one    *)
(* user, it runs on pages that are pinned as long as no signal ends a      *)
(* wait, it never moves a byte outside the buffer of its user, and a       *)
(* transfer that succeeds has moved its buffer and nothing else.  The last *)
(* two need what the list of a transfer says, for every buffer and page    *)
(* table: by induction on its pieces.                                      *)
(***************************************************************************)
EXTENDS DmaEngine, SequenceTheorems, WellFoundedInduction, TLAPS

\* The variables the argument is about are functions.
CallType ==
    /\ pc \in [Procs -> {"user", "init", "program", "check", "sleep", "cleanup"}]
    /\ engine \in [Procs -> Engines \cup {None}]
    /\ pinned = [p \in Procs |-> pinned[p]] /\ req = [p \in Procs |-> req[p]]
    /\ locked \subseteq Engines

GoType == go \in [Engines -> BOOLEAN]

\* A process has an engine while it is in the call, and the mutex with it.
Holds ==
    \A p \in Procs :
        /\ engine[p] = None <=> pc[p] = "user"
        /\ engine[p] # None => engine[p] \in locked

Pinned ==
    \A p \in Procs :
        pc[p] \in {"program", "check", "sleep", "cleanup"} => pinned[p] = FramesOf(p)

\* Somebody waits for an engine that runs.
Awaited ==
    "signal" \notin unlucky =>
        \A e \in Engines : go[e] =>
            \E p \in Procs : engine[p] = e /\ pc[p] \in {"check", "sleep"}

Inv == CallType /\ GoType /\ Holds /\ OneOwner /\ Pinned /\ Awaited

-----------------------------------------------------------------------------

LEMMA NoneIsNoEngine == None \notin Engines
BY EngineAssumption DEF None, Engines

LEMMA InitInv == Init => Inv
BY NoneIsNoEngine
   DEF Init, Inv, CallType, GoType, Holds, OneOwner, Pinned, Awaited, Engines, None

\* The part about who holds what: locks, engines and pages.
Ownership == CallType /\ Holds /\ OneOwner /\ Pinned

LEMMA TakeOwnership ==
    ASSUME Ownership, NEW p \in Procs, NEW r \in Requests, TakeEngine(p, r)
    PROVE  Ownership'
BY SMTT(30), NoneIsNoEngine
   DEF Ownership, CallType, Holds, OneOwner, Pinned, TakeEngine, FreeEngines, Goto, pages, FramesOf

LEMMA ReturnOwnership ==
    ASSUME Ownership, NEW p \in Procs, InitFails(p) \/ Cleanup(p)
    PROVE  Ownership'
BY NoneIsNoEngine
   DEF Ownership, CallType, Holds, OneOwner, Pinned, InitFails, Cleanup, Unlock, Unpin, Goto,
       pages, FramesOf

LEMMA InitDoneOwnership ==
    ASSUME Ownership, NEW p \in Procs, InitDone(p)
    PROVE  Ownership'
<1>1. /\ pc[p] = "init" /\ pc' = [pc EXCEPT ![p] = "program"]
      /\ pinned' = [pinned EXCEPT ![p] = FramesOf(p)]
      /\ UNCHANGED <<req, engine, locked>>
    BY DEF InitDone, Goto
<1>2. \A q \in Procs : FramesOf(q)' = FramesOf(q)
    BY <1>1 DEF FramesOf
<1>3. CallType' /\ Holds' /\ OneOwner'
    BY <1>1, NoneIsNoEngine DEF Ownership, CallType, Holds, OneOwner
<1>4. Pinned'
    BY <1>1, <1>2 DEF Ownership, CallType, Pinned
<1> QED BY <1>3, <1>4 DEF Ownership

\* A process that moves on inside the call keeps what it holds.
LEMMA MoveOnOwnership ==
    ASSUME Ownership, NEW p \in Procs,
           pc[p] \in {"program", "check", "sleep"},
           NEW l \in {"check", "sleep", "cleanup"}, Goto(p, l),
           UNCHANGED <<req, engine, pages, locked>>
    PROVE  Ownership'
BY NoneIsNoEngine
   DEF Ownership, CallType, Holds, OneOwner, Pinned, Goto, pages, FramesOf

LEMMA SameOwnership ==
    ASSUME Ownership, UNCHANGED <<pc, req, engine, pages, locked>>
    PROVE  Ownership'
BY DEF Ownership, CallType, Holds, OneOwner, Pinned, pages, FramesOf

LEMMA OwnershipStep == Ownership /\ [Next]_vars => Ownership'
<1> SUFFICES ASSUME Ownership, [Next]_vars
             PROVE  Ownership'
    OBVIOUS
<1>1. ASSUME NEW p \in Procs, NEW r \in Requests, TakeEngine(p, r)
      PROVE  Ownership'
    BY <1>1, TakeOwnership
<1>2. ASSUME NEW p \in Procs, AllBusy(p)
      PROVE  Ownership'
    BY <1>2, SameOwnership DEF AllBusy
<1>3. ASSUME NEW p \in Procs, InitFails(p) \/ Cleanup(p)
      PROVE  Ownership'
    BY <1>3, ReturnOwnership
<1>4. ASSUME NEW p \in Procs, InitDone(p)
      PROVE  Ownership'
    BY <1>4, InitDoneOwnership
<1>5. ASSUME NEW p \in Procs,
             Start(p) \/ Finished(p) \/ FallAsleep(p) \/ WakeUp(p) \/ Interrupted(p) \/ TimeOut(p)
      PROVE  Ownership'
    <2>1. /\ pc[p] \in {"program", "check", "sleep"}
          /\ \E l \in {"check", "sleep", "cleanup"} : Goto(p, l)
          /\ UNCHANGED <<req, engine, pages, locked>>
        BY <1>5 DEF Start, Finished, FallAsleep, WakeUp, Interrupted, TimeOut, Expire
    <2> QED BY <2>1, MoveOnOwnership
<1>6. ASSUME UNCHANGED <<pc, req, engine, pages, locked>>
      PROVE  Ownership'
    BY <1>6, SameOwnership
<1>7. ASSUME NEW e \in Engines, Move(e) \/ DmaIrq(e)
      PROVE  Ownership'
    BY <1>6, <1>7 DEF Move, DmaIrq, call
<1>8. ASSUME NEW v \in BOOLEAN, IrqSet(v)
      PROVE  Ownership'
    BY <1>6, <1>8 DEF IrqSet, call
<1>9. CASE UNCHANGED vars
    BY <1>6, <1>9 DEF vars, call
<1> QED BY <1>1, <1>2, <1>3, <1>4, <1>5, <1>7, <1>8, <1>9 DEF Next, Process, Runs

-----------------------------------------------------------------------------
(* The part about the engines that run. *)

Running == GoType /\ Awaited

LEMMA RunningStep == Ownership /\ Running /\ [Next]_vars => Running'
<1> SUFFICES ASSUME Ownership, Running, [Next]_vars
             PROVE  Running'
    OBVIOUS
<1> USE NoneIsNoEngine
<1>1. ASSUME NEW p \in Procs, NEW r \in Requests, TakeEngine(p, r)
      PROVE  Running'
    BY <1>1 DEF Ownership, CallType, Holds, Running, GoType, Awaited, TakeEngine, Goto, chip
<1>2. ASSUME NEW p \in Procs, AllBusy(p)
      PROVE  Running'
    BY <1>2 DEF Running, GoType, Awaited, AllBusy, chip
<1>3. ASSUME NEW p \in Procs, InitFails(p) \/ Cleanup(p) \/ InitDone(p)
      PROVE  Running'
    BY <1>3 DEF Ownership, CallType, Holds, OneOwner, Running, GoType, Awaited, InitFails,
                Cleanup, InitDone, Unlock, Goto, chip
<1>4. ASSUME NEW p \in Procs, Start(p)
      PROVE  Running'
    <2>1. /\ pc[p] = "program" /\ pc' = [pc EXCEPT ![p] = "check"]
          /\ go' = [go EXCEPT ![engine[p]] = TRUE]
          /\ UNCHANGED <<unlucky, engine>>
        BY <1>4 DEF Start, Goto
    <2> QED BY <2>1 DEF Ownership, CallType, Holds, Running, GoType, Awaited
<1>5. ASSUME NEW p \in Procs, Finished(p)
      PROVE  Running'
    BY <1>5 DEF Ownership, CallType, Running, GoType, Awaited, Finished, Goto, chip
<1>6. ASSUME NEW p \in Procs, FallAsleep(p) \/ WakeUp(p)
      PROVE  Running'
    BY <1>6 DEF Ownership, CallType, Running, GoType, Awaited, FallAsleep, WakeUp, Goto, chip
<1>7. ASSUME NEW p \in Procs, Interrupted(p)
      PROVE  Running'
    BY <1>7 DEF Running, GoType, Awaited, Interrupted, chip
<1>8. ASSUME NEW p \in Procs, TimeOut(p)
      PROVE  Running'
    <2>1. /\ pc[p] = "sleep" /\ pc' = [pc EXCEPT ![p] = "cleanup"]
          /\ go' = [go EXCEPT ![engine[p]] = FALSE]
          /\ UNCHANGED <<unlucky, engine>>
        BY <1>8 DEF TimeOut, Expire, Goto
    <2> QED BY <2>1 DEF Ownership, CallType, Holds, Running, GoType, Awaited
<1>9. ASSUME NEW e \in Engines, Move(e)
      PROVE  Running'
    <2>1. /\ go[e] /\ go' = [go EXCEPT ![e] = Len(hw[e]) > 1]
          /\ UNCHANGED <<unlucky, pc, engine>>
        BY <1>9 DEF Move, call
    <2>2. (Len(hw[e]) > 1) \in BOOLEAN
        OBVIOUS
    <2>3. GoType' /\ \A f \in Engines : go'[f] => go[f]
        BY <2>1, <2>2, Zenon DEF Running, GoType
    <2> QED BY <2>1, <2>3 DEF Running, Awaited
<1>10. ASSUME NEW e \in Engines, DmaIrq(e)
      PROVE  Running'
    BY <1>10 DEF Running, GoType, Awaited, DmaIrq, call
<1>11. ASSUME NEW v \in BOOLEAN, IrqSet(v)
       PROVE  Running'
    BY <1>11 DEF Running, GoType, Awaited, IrqSet, call
<1>12. CASE UNCHANGED vars
    BY <1>12 DEF Running, GoType, Awaited, vars, call, chip
<1> QED BY <1>1, <1>2, <1>3, <1>4, <1>5, <1>6, <1>7, <1>8, <1>9, <1>10, <1>11, <1>12
        DEF Next, Process, Runs

-----------------------------------------------------------------------------

LEMMA Invariant == Spec => []Inv
<1>1. Init => Inv
    BY InitInv
<1>2. Inv /\ [Next]_vars => Inv'
    BY OwnershipStep, RunningStep DEF Inv, Ownership, Running
<1> QED BY <1>1, <1>2, PTL DEF Spec

\* No two calls ever use the same engine (down_trylock and up, aja.c:1037-1043,
\* 1083), however calls before them ended.
THEOREM EngineHasOneOwner == Spec => []OneOwner
<1>1. Inv => OneOwner
    BY DEF Inv
<1> QED BY <1>1, Invariant, PTL

\* An engine runs on pages that are pinned, unless a signal ends a wait
\* (aja.c:1068-1080).
THEOREM RunningPagesPinned == Spec => []PinnedWhileRunning
<1>1. Inv => PinnedWhileRunning
    BY DEF Inv, Awaited, Pinned, PinnedWhileRunning, RunsOnPinnedPages
<1> QED BY <1>1, Invariant, PTL

-----------------------------------------------------------------------------
(* Numbers: induction, as a fact about sets, and division. *)

Less == {ss \in Nat \X Nat : ss[1] < ss[2]}

LEMMA SetInduction ==
    ASSUME NEW S, 0 \in S, \A n \in Nat : n \in S => n + 1 \in S
    PROVE  \A n \in Nat : n \in S
<1> DEFINE T == Nat \ S
<1>1. SUFFICES ASSUME T # {} PROVE FALSE
    OBVIOUS
<1>2. T \subseteq Nat
    OBVIOUS
<1>3. IsWellFoundedOn(Less, Nat)
    BY NatLessThanWellFounded DEF OpToRel, Less
<1> HIDE DEF T
<1>4. PICK x \in T : \A y \in T : <<y, x>> \notin Less
    BY <1>1, <1>2, <1>3, WFMin
<1>5. x \in Nat /\ x \notin S
    BY <1>4 DEF T
<1>6. x - 1 \in Nat /\ (x - 1) + 1 = x
    BY <1>5
<1>7. x - 1 \in T
    BY <1>5, <1>6 DEF T
<1>8. <<x - 1, x>> \in Less
    BY <1>5, <1>6 DEF Less
<1> QED BY <1>4, <1>7, <1>8

LEMMA DivMod ==
    ASSUME NEW a \in Nat, NEW d \in Nat \ {0}
    PROVE  /\ a \div d \in Nat /\ a % d \in 0 .. d - 1
           /\ a = (a \div d) * d + (a % d)
<1>1. a \div d \in Nat
    BY SMT
<1>2. a % d \in 0 .. d - 1
    BY SMT
<1>3. a = (a \div d) * d + (a % d)
    BY SMT
<1> QED BY <1>1, <1>2, <1>3

LEMMA DivIs ==
    ASSUME NEW a \in Nat, NEW d \in Nat \ {0}, NEW q \in Int, q * d <= a, a < q * d + d
    PROVE  a \div d = q /\ a % d = a - q * d
<1>1. /\ a \div d \in Nat /\ a % d \in 0 .. d - 1
      /\ a = (a \div d) * d + (a % d)
    BY DivMod
<1> DEFINE p == a \div d
           s == a % d
<1>2. p \in Nat /\ s \in 0 .. d - 1 /\ a = p * d + s
    BY <1>1
<1> HIDE DEF p, s
<1>3. (p - q) * d < d /\ (p - q) * d > -d
    <2>1. (p - q) * d = p * d - q * d /\ p * d \in Int /\ q * d \in Int
        BY <1>2
    <2> QED BY <1>2, <2>1
<1>4. p - q < 1
    <2>1. CASE p - q >= 1
        <3>1. (p - q) * d >= d
            BY <1>2, <2>1
        <3> QED BY <1>2, <1>3, <3>1
    <2> QED BY <1>2, <2>1
<1>5. p - q > -1
    <2>1. CASE p - q <= -1
        <3>1. (p - q) * d <= -d
            BY <1>2, <2>1
        <3> QED BY <1>2, <1>3, <3>1
    <2> QED BY <1>2, <2>1
<1>6. p = q
    BY <1>2, <1>4, <1>5
<1> QED BY <1>2, <1>6 DEF p, s

-----------------------------------------------------------------------------
(* The pieces of a buffer, in bytes. *)

Request == [data : Nat, size : Nat, cadd : Nat]

\* A transfer that is not refused, and the page table has its pages.
Granted(r)       == r \in Request /\ ~Refused(r)
Present(r, table) == \A v \in Pages(r) : table[v] \in Nat

PageOff(r)    == r.data % PageSize
PieceCount(r) == LastPage(r) - FirstPage(r) + 1

\* The bytes of the buffer in the first i pieces.
BytesIn(r, i) ==
    IF i = 0 THEN 0 ELSE IF i = PieceCount(r) THEN r.size ELSE i * PageSize - PageOff(r)

LEMMA FirstByte ==
    ASSUME NEW r, Granted(r)
    PROVE  /\ r.data \in Nat /\ r.size \in Nat /\ r.size >= 8 /\ r.cadd \in Nat
           /\ PageSize \in Nat \ {0} /\ PageSize % 4 = 0
           /\ PageOff(r) \in 0 .. PageSize - 1
           /\ FirstPage(r) \in Nat
           /\ r.data = FirstPage(r) * PageSize + PageOff(r)
<1>1. r.data \in Nat /\ r.size \in Nat /\ r.size >= 8 /\ r.cadd \in Nat
    BY DEF Granted, Request, Refused
<1>2. PageSize \in Nat \ {0} /\ PageSize % 4 = 0
    BY SizesAssumption
<1> QED BY <1>1, <1>2, DivMod DEF PageOff, FirstPage

\* Where the last page lies.
LEMMA LastByte ==
    ASSUME NEW r, Granted(r)
    PROVE  /\ PieceCount(r) \in Nat \ {0} /\ LastPage(r) \in Nat
           /\ (PieceCount(r) - 1) * PageSize - PageOff(r) < r.size
           /\ r.size <= PieceCount(r) * PageSize - PageOff(r)
<1> DEFINE b == r.data + r.size - 1
           l == b \div PageSize
           t == b % PageSize
           f == FirstPage(r)
           o == PageOff(r)
<1>1. /\ r.data \in Nat /\ r.size \in Nat /\ r.size >= 8 /\ PageSize \in Nat \ {0}
      /\ f \in Nat /\ o \in 0 .. PageSize - 1 /\ r.data = f * PageSize + o
    BY FirstByte
<1>2. l \in Nat /\ t \in 0 .. PageSize - 1 /\ b = l * PageSize + t
    <2>1. b \in Nat
        BY <1>1
    <2> HIDE DEF b
    <2> QED BY <1>1, <2>1, DivMod
<1>3. LastPage(r) = l /\ PieceCount(r) = l - f + 1
    BY DEF LastPage, PieceCount
<1>4. r.data + r.size - 1 = l * PageSize + t
    BY <1>2
<1> HIDE DEF l, t, f, o, b
<1>5. r.size = (l - f) * PageSize + t + 1 - o
    <2>1. (l - f) * PageSize = l * PageSize - f * PageSize /\ l * PageSize \in Int /\ f * PageSize \in Int
        BY <1>1, <1>2
    <2> QED BY <1>1, <1>2, <1>4, <2>1
<1>6. l >= f
    <2>1. CASE l - f <= -1
        <3>1. (l - f) * PageSize <= -PageSize
            BY <1>1, <1>2, <2>1
        <3> QED BY <1>1, <1>2, <1>5, <3>1
    <2> QED BY <1>1, <1>2, <2>1
<1>7. (l - f + 1) * PageSize = (l - f) * PageSize + PageSize /\ (l - f) * PageSize \in Int
    BY <1>1, <1>2
<1>8. (l - f + 1) - 1 = l - f
    BY <1>1, <1>2
<1>9. (l - f) * PageSize - o < r.size /\ r.size <= (l - f + 1) * PageSize - o
    BY <1>1, <1>2, <1>5, <1>7
<1> QED BY <1>1, <1>2, <1>3, <1>6, <1>8, <1>9 DEF o

\* The arithmetic of piece i: X bytes of whole pages lie before its page, Y before
\* the last one.
PieceNumbers(r, i, X, Y) ==
    /\ X \in Nat /\ Y \in Nat
    /\ i * PageSize = X + PageSize /\ (i - 1) * PageSize = X
    /\ (i - 2) * PageSize = X - PageSize
    /\ i = 1 => X = 0
    /\ i > 1 => PageSize <= X
    /\ i < PieceCount(r) => X + PageSize <= Y
    /\ i = PieceCount(r) => X = Y
    /\ PieceCount(r) = 1 => Y = 0
    /\ PieceCount(r) > 1 => PageSize <= Y
    /\ Y - PageOff(r) < r.size /\ r.size <= Y + PageSize - PageOff(r)

LEMMA PieceNumbered ==
    ASSUME NEW r, Granted(r), NEW i \in 1 .. PieceCount(r)
    PROVE  PieceNumbers(r, i, (i - 1) * PageSize, (PieceCount(r) - 1) * PageSize)
<1> DEFINE n == PieceCount(r)
           X == (i - 1) * PageSize
           Y == (n - 1) * PageSize
<1>1. /\ PageSize \in Nat \ {0} /\ n \in Nat \ {0} /\ i \in 1 .. n
      /\ PageOff(r) \in 0 .. PageSize - 1 /\ r.size \in Nat
      /\ (n - 1) * PageSize - PageOff(r) < r.size
      /\ r.size <= n * PageSize - PageOff(r)
    BY FirstByte, LastByte
<1> HIDE DEF n
<1>2. X \in Nat /\ Y \in Nat
    BY <1>1
<1>3. i * PageSize = X + PageSize /\ (i - 2) * PageSize = X - PageSize
    BY <1>1
<1>4. n * PageSize = Y + PageSize
    BY <1>1
<1>5. i < n => X + PageSize <= Y
    <2>1. i < n => i * PageSize <= (n - 1) * PageSize
        BY <1>1
    <2> QED BY <1>3, <2>1
<1>6. (i = 1 => X = 0) /\ (i = n => X = Y) /\ (n = 1 => Y = 0)
    BY <1>1
<1>7. (n > 1 => PageSize <= Y) /\ (i > 1 => PageSize <= X)
    BY <1>1
<1>8. Y - PageOff(r) < r.size /\ r.size <= Y + PageSize - PageOff(r)
    BY <1>1, <1>4
<1> QED BY <1>2, <1>3, <1>5, <1>6, <1>7, <1>8 DEF PieceNumbers, n

\* What a piece is: how many bytes, and where they are.
PieceIsBytes(r, table, i) ==
    LET s == Pieces(r, table)[i]
        w == BytesIn(r, i - 1)
        v == BytesIn(r, i) IN
    /\ w \in Nat /\ v \in Nat /\ w <= v /\ v <= r.size
    /\ s.addr \in Nat /\ s.len = v - w
    /\ \A b \in w .. v - 1 : HostByte(r, table, b) = s.addr + (b - w)

LEMMA BytesOfPiece ==
    ASSUME NEW r, Granted(r), NEW table, Present(r, table), NEW i \in 1 .. PieceCount(r)
    PROVE  PieceIsBytes(r, table, i)
<1> DEFINE n == PieceCount(r)
           o == PageOff(r)
           z == r.size
           f == FirstPage(r)
           X == (i - 1) * PageSize
           Y == (n - 1) * PageSize
           s == Pieces(r, table)[i]
           t == table[f + i - 1]
           first == Smaller(z, PageSize - o)
           left == z - first - (i - 2) * PageSize
           w == BytesIn(r, i - 1)
           v == BytesIn(r, i)
<1>1. /\ PageSize \in Nat \ {0} /\ n \in Nat \ {0} /\ i \in 1 .. n
      /\ o \in 0 .. PageSize - 1 /\ z \in Nat /\ z >= 8 /\ f \in Nat
    BY FirstByte, LastByte
<1>2. r.data \in Nat /\ r.data = f * PageSize + o /\ r.data % PageSize = o
    BY FirstByte DEF PageOff
<1>3. PieceNumbers(r, i, X, Y)
    BY PieceNumbered
<1> HIDE DEF X, Y
<1>4. /\ X \in Nat /\ Y \in Nat
      /\ i = 1 => X = 0
      /\ i > 1 => PageSize <= X
      /\ i < n => X + PageSize <= Y
      /\ i = n => X = Y
      /\ n = 1 => Y = 0
      /\ n > 1 => PageSize <= Y
      /\ Y - o < z /\ z <= Y + PageSize - o
    BY <1>3 DEF PieceNumbers
<1>5. i * PageSize = X + PageSize /\ (i - 1) * PageSize = X /\ (i - 2) * PageSize = X - PageSize
    BY <1>3 DEF PieceNumbers
<1>6. t \in Nat
    <2>1. f + i - 1 \in Pages(r)
        BY <1>1, LastByte DEF Pages, PieceCount
    <2> QED BY <2>1 DEF Present
<1>7. s = IF i = 1 THEN [addr |-> t * PageSize + o, len |-> first]
          ELSE [addr |-> t * PageSize, len |-> Smaller(left, PageSize)]
    BY <1>1, <1>2 DEF Pieces, PieceCount
<1>8. w = IF i = 1 THEN 0 ELSE X - o
    <2>1. i - 1 # n /\ (i - 1 = 0 <=> i = 1)
        BY <1>1
    <2> QED BY <1>5, <2>1 DEF BytesIn
<1>9. v = IF i = n THEN z ELSE X + PageSize - o
    BY <1>1, <1>5 DEF BytesIn
<1> HIDE DEF n, o, z, f, s, t, w, v
<1>10. first \in Nat /\ (n > 1 => first = PageSize - o) /\ (n = 1 => first = z)
    BY <1>1, <1>4 DEF Smaller
<1>11. left = z - first - X + PageSize
    BY <1>1, <1>4, <1>5, <1>10
<1> HIDE DEF first, left
<1>12. w \in Nat /\ v \in Nat /\ w <= v /\ v <= z
    BY <1>1, <1>4, <1>8, <1>9
<1>13. s.len = v - w
    <2>1. CASE i = 1
        <3>1. s.len = first /\ w = 0
            BY <1>7, <1>8, <2>1
        <3> QED BY <1>1, <1>4, <1>9, <1>10, <2>1, <3>1
    <2>2. CASE i > 1
        <3>1. s.len = Smaller(left, PageSize) /\ n > 1 /\ w = X - o
            BY <1>1, <1>7, <1>8, <2>2
        <3>2. left = z - X + o
            BY <1>1, <1>4, <1>10, <1>11, <3>1
        <3>3. CASE i < n
            <4>1. left > PageSize
                BY <1>1, <1>4, <3>2, <3>3
            <4> QED BY <1>1, <1>4, <1>9, <3>1, <3>2, <3>3, <4>1 DEF Smaller
        <3>4. CASE i = n
            <4>1. left <= PageSize
                BY <1>1, <1>4, <3>2, <3>4
            <4> QED BY <1>1, <1>4, <1>9, <3>1, <3>2, <3>4, <4>1 DEF Smaller
        <3> QED BY <1>1, <3>3, <3>4
    <2> QED BY <1>1, <2>1, <2>2
<1>14. s.addr \in Nat
    <2>1. t * PageSize \in Nat
        BY <1>1, <1>6
    <2> QED BY <1>1, <1>7, <2>1
<1>15. ASSUME NEW k \in w .. v - 1
       PROVE  HostByte(r, table, k) = s.addr + (k - w)
    <2> DEFINE b == r.data + k
               q == f + i - 1
               e == f * PageSize
               u == t * PageSize
    <2>1. k \in Nat /\ b \in Nat /\ q \in Nat /\ e \in Nat /\ u \in Nat
        BY <1>1, <1>2, <1>6, <1>12
    <2>2. q * PageSize = e + X
        <3>1. q * PageSize = f * PageSize + (i - 1) * PageSize
            BY <1>1
        <3> QED BY <1>5, <3>1
    <2>3. X <= o + k /\ o + k < X + PageSize
        BY <1>1, <1>4, <1>8, <1>9, <1>12, <2>1
    <2>4. b = e + o + k
        BY <1>2
    <2>5. HostByte(r, table, k) = table[b \div PageSize] * PageSize + (b % PageSize)
        BY DEF HostByte
    <2>6. t = table[q]
        BY DEF t
    <2> HIDE DEF q, b, e
    <2>7. q * PageSize <= b /\ b < q * PageSize + PageSize
        BY <1>1, <1>4, <2>1, <2>2, <2>3, <2>4
    <2>8. b \div PageSize = q /\ b % PageSize = b - q * PageSize
        <3>1. b \in Nat /\ q \in Int /\ PageSize \in Nat \ {0}
            BY <1>1, <2>1
        <3> QED BY <2>7, <3>1, DivIs
    <2>9. b % PageSize = o + k - X
        BY <1>1, <1>4, <2>1, <2>2, <2>4, <2>8
    <2>10. HostByte(r, table, k) = u + (o + k - X)
        BY <2>5, <2>6, <2>8, <2>9
    <2>11. s.addr = IF i = 1 THEN u + o ELSE u
        BY <1>7
    <2> HIDE DEF u
    <2> QED BY <1>1, <1>4, <1>8, <2>1, <2>10, <2>11
<1> QED BY <1>12, <1>13, <1>14, <1>15 DEF PieceIsBytes, s, w, v, z

-----------------------------------------------------------------------------
(* The pieces of a buffer that begins with a whole word. *)

\* The words of the buffer in the first i pieces.
WordsIn(r, i) == BytesIn(r, i) \div 4

\* Where word k of the buffer is in memory.
Host(r, table, k) == HostByte(r, table, 4 * k)

Fair(r) == Granted(r) /\ r.data % 4 = 0

\* All pieces but the last have whole words.
LEMMA WholePieces ==
    ASSUME NEW r, Fair(r), NEW i \in 0 .. PieceCount(r) - 1
    PROVE  BytesIn(r, i) % 4 = 0
<1> DEFINE o == PageOff(r)
           f == FirstPage(r)
<1>1. /\ r.data \in Nat /\ r.data % 4 = 0 /\ PageSize \in Nat \ {0} /\ PageSize % 4 = 0
      /\ o \in 0 .. PageSize - 1 /\ f \in Nat /\ r.data = f * PageSize + o
    BY FirstByte DEF Fair
<1> DEFINE m == PageSize \div 4
<1>2. m \in Nat /\ PageSize = 4 * m
    BY <1>1
<1> HIDE DEF o, f, m
<1>3. o % 4 = 0
    <2> DEFINE y == f * m
    <2>1. y \in Nat /\ r.data = 4 * y + o
        BY <1>1, <1>2
    <2> HIDE DEF y
    <2> QED BY <1>1, <2>1
<1>4. BytesIn(r, i) = IF i = 0 THEN 0 ELSE i * PageSize - o
    <2>1. i # PieceCount(r)
        BY LastByte DEF Fair
    <2> QED BY <2>1 DEF BytesIn, o
<1>5. (i * PageSize - o) % 4 = 0
    <2> DEFINE y == i * m
    <2>1. i \in Nat
        OBVIOUS
    <2>2. y \in Nat /\ i * PageSize = 4 * y
        BY <1>2, <2>1
    <2> HIDE DEF y
    <2> QED BY <1>1, <1>3, <2>2
<1> QED BY <1>4, <1>5

\* What a piece is in words: how many, and where they are.
PieceIsWords(r, table, i) ==
    LET s == Pieces(r, table)[i]
        w == WordsIn(r, i - 1)
        v == WordsIn(r, i) IN
    /\ w \in Nat /\ v \in Nat /\ w <= v
    /\ s.addr \in Nat /\ s.len \in Nat
    /\ s.len \div 4 = v - w
    /\ i < PieceCount(r) => s.len = 4 * (v - w)
    /\ \A k \in w .. v - 1 : Host(r, table, k) = s.addr + 4 * (k - w)

LEMMA WordsOfPiece ==
    ASSUME NEW r, Fair(r), NEW table, Present(r, table), NEW i \in 1 .. PieceCount(r)
    PROVE  PieceIsWords(r, table, i)
<1> DEFINE n == PieceCount(r)
           s == Pieces(r, table)[i]
           x == BytesIn(r, i - 1)
           y == BytesIn(r, i)
           w == WordsIn(r, i - 1)
           v == WordsIn(r, i)
<1>1. /\ x \in Nat /\ y \in Nat /\ x <= y /\ s.addr \in Nat /\ s.len = y - x
      /\ \A b \in x .. y - 1 : HostByte(r, table, b) = s.addr + (b - x)
    BY BytesOfPiece DEF PieceIsBytes, Fair
<1>2. x % 4 = 0 /\ (i < n => y % 4 = 0)
    <2>1. n \in Nat /\ i - 1 \in 0 .. n - 1 /\ (i < n => i \in 0 .. n - 1)
        BY LastByte DEF Fair
    <2> QED BY <2>1, WholePieces
<1>3. w = x \div 4 /\ v = y \div 4
    BY DEF WordsIn
<1> HIDE DEF n, s, x, y, w, v
<1>4. w \in Nat /\ v \in Nat /\ w <= v /\ x = 4 * w /\ (i < n => y = 4 * v)
    BY <1>1, <1>2, <1>3
<1>5. s.len \in Nat /\ s.len \div 4 = v - w /\ (i < n => s.len = 4 * (v - w))
    <2>1. (y - x) \div 4 = v - w /\ y - x \in Nat
        BY <1>1, <1>3, <1>4
    <2> QED BY <1>1, <1>4, <2>1
<1>6. ASSUME NEW k \in w .. v - 1
      PROVE  Host(r, table, k) = s.addr + 4 * (k - w)
    <2>1. 4 * k \in x .. y - 1 /\ 4 * k - x = 4 * (k - w)
        BY <1>1, <1>3, <1>4
    <2>2. HostByte(r, table, 4 * k) = s.addr + (4 * k - x)
        BY <1>1, <2>1
    <2> QED BY <2>1, <2>2 DEF Host
<1> QED BY <1>1, <1>4, <1>5, <1>6 DEF PieceIsWords, s, w, v, n

-----------------------------------------------------------------------------
(* The card's list. *)

Entry == [hadd : Nat, cadd : Nat, count : Nat]

\* The words a list moves, and the first n words of the buffer.
WordsOf(l) == UNION {EntryWords(l[j]) : j \in DOMAIN l}
FirstWords(r, table, n) == {<<r.cadd + 4 * k, Host(r, table, k)>> : k \in 0 .. n - 1}

\* The words from a card and a host address on.
Run(c, h, d) == {<<c + 4 * j, h + 4 * j>> : j \in 0 .. d - 1}

LEMMA EntryRun ==
    ASSUME NEW x
    PROVE  EntryWords(x) = Run(x.cadd, x.hadd, x.count)
    BY DEF EntryWords, Run

RunSplit(c, h, n, d) == Run(c, h, n + d) = Run(c, h, n) \cup Run(c + 4 * n, h + 4 * n, d)

LEMMA RunGrows ==
    ASSUME NEW c \in Nat, NEW h \in Nat, NEW n \in Nat, NEW d \in Nat
    PROVE  RunSplit(c, h, n, d)
<1>1. ASSUME NEW y \in Run(c, h, n + d)
      PROVE  y \in Run(c, h, n) \cup Run(c + 4 * n, h + 4 * n, d)
    <2>1. PICK j \in 0 .. (n + d) - 1 : y = <<c + 4 * j, h + 4 * j>>
        BY <1>1 DEF Run
    <2>2. CASE j < n
        <3>1. j \in 0 .. n - 1
            BY <2>2
        <3> QED BY <2>1, <3>1 DEF Run
    <2>3. CASE j >= n
        <3>1. j - n \in 0 .. d - 1
            BY <2>3
        <3>2. c + 4 * j = (c + 4 * n) + 4 * (j - n) /\ h + 4 * j = (h + 4 * n) + 4 * (j - n)
            OBVIOUS
        <3> QED BY <2>1, <3>1, <3>2 DEF Run
    <2> QED BY <2>2, <2>3
<1>2. ASSUME NEW y \in Run(c, h, n)
      PROVE  y \in Run(c, h, n + d)
    <2>1. PICK j \in 0 .. n - 1 : y = <<c + 4 * j, h + 4 * j>>
        BY <1>2 DEF Run
    <2>2. j \in 0 .. (n + d) - 1
        OBVIOUS
    <2> QED BY <2>1, <2>2 DEF Run
<1>3. ASSUME NEW y \in Run(c + 4 * n, h + 4 * n, d)
      PROVE  y \in Run(c, h, n + d)
    <2>1. PICK j \in 0 .. d - 1 : y = <<(c + 4 * n) + 4 * j, (h + 4 * n) + 4 * j>>
        BY <1>3 DEF Run
    <2>2. n + j \in 0 .. (n + d) - 1
        OBVIOUS
    <2>3. (c + 4 * n) + 4 * j = c + 4 * (n + j) /\ (h + 4 * n) + 4 * j = h + 4 * (n + j)
        OBVIOUS
    <2> QED BY <2>1, <2>2, <2>3 DEF Run
<1> QED BY <1>1, <1>2, <1>3 DEF RunSplit

\* The words of the buffer, piece by piece.
LEMMA PieceAdds ==
    ASSUME NEW r, NEW table, NEW i, PieceIsWords(r, table, i), r.cadd \in Nat
    PROVE  LET s == Pieces(r, table)[i]
               w == WordsIn(r, i - 1)
               v == WordsIn(r, i) IN
           FirstWords(r, table, v) = FirstWords(r, table, w) \cup Run(r.cadd + 4 * w, s.addr, v - w)
<1> DEFINE s == Pieces(r, table)[i]
           w == WordsIn(r, i - 1)
           v == WordsIn(r, i)
           new == Run(r.cadd + 4 * w, s.addr, v - w)
<1>1. /\ w \in Nat /\ v \in Nat /\ w <= v /\ s.addr \in Nat
      /\ \A k \in w .. v - 1 : Host(r, table, k) = s.addr + 4 * (k - w)
    BY DEF PieceIsWords
<1> HIDE DEF s, w, v
<1>2. ASSUME NEW y \in FirstWords(r, table, v)
      PROVE  y \in FirstWords(r, table, w) \cup new
    <2>1. PICK k \in 0 .. v - 1 : y = <<r.cadd + 4 * k, Host(r, table, k)>>
        BY <1>2 DEF FirstWords
    <2>2. CASE k < w
        <3>1. k \in 0 .. w - 1
            BY <1>1, <2>2
        <3> QED BY <2>1, <3>1 DEF FirstWords
    <2>3. CASE k >= w
        <3>1. k \in w .. v - 1 /\ k - w \in 0 .. (v - w) - 1
            BY <1>1, <2>3
        <3>2. r.cadd + 4 * k = (r.cadd + 4 * w) + 4 * (k - w)
            BY <1>1
        <3>3. Host(r, table, k) = s.addr + 4 * (k - w)
            BY <1>1, <3>1
        <3> QED BY <2>1, <3>1, <3>2, <3>3 DEF Run
    <2> QED BY <1>1, <2>2, <2>3
<1>3. ASSUME NEW y \in FirstWords(r, table, w)
      PROVE  y \in FirstWords(r, table, v)
    <2>1. PICK k \in 0 .. w - 1 : y = <<r.cadd + 4 * k, Host(r, table, k)>>
        BY <1>3 DEF FirstWords
    <2>2. k \in 0 .. v - 1
        BY <1>1
    <2> QED BY <2>1, <2>2 DEF FirstWords
<1>4. ASSUME NEW y \in new
      PROVE  y \in FirstWords(r, table, v)
    <2>1. PICK j \in 0 .. (v - w) - 1 : y = <<(r.cadd + 4 * w) + 4 * j, s.addr + 4 * j>>
        BY <1>4 DEF Run
    <2>2. w + j \in 0 .. v - 1 /\ w + j \in w .. v - 1 /\ (w + j) - w = j
        BY <1>1
    <2>3. (r.cadd + 4 * w) + 4 * j = r.cadd + 4 * (w + j)
        BY <1>1
    <2>4. Host(r, table, w + j) = s.addr + 4 * j
        BY <1>1, <2>2
    <2> QED BY <2>1, <2>2, <2>3, <2>4 DEF FirstWords
<1> QED BY <1>2, <1>3, <1>4 DEF s, w, v

LEMMA AppendedWords ==
    ASSUME NEW l \in Seq(Entry), NEW x \in Entry
    PROVE  WordsOf(Append(l, x)) = WordsOf(l) \cup EntryWords(x)
<1> DEFINE a == Append(l, x)
<1>1. /\ Len(l) \in Nat /\ DOMAIN l = 1 .. Len(l)
      /\ a \in Seq(Entry) /\ Len(a) = Len(l) + 1
      /\ \A j \in 1 .. Len(l) : a[j] = l[j]
      /\ a[Len(l) + 1] = x
    BY LenProperties
<1>2. DOMAIN a = 1 .. Len(l) + 1
    BY <1>1, LenProperties
<1> HIDE DEF a
<1>3. DOMAIN a = DOMAIN l \cup {Len(l) + 1}
    BY <1>1, <1>2
<1>4. \A j \in DOMAIN l : a[j] = l[j]
    BY <1>1
<1>5. WordsOf(a) = WordsOf(l) \cup EntryWords(x)
    BY <1>1, <1>3, <1>4 DEF WordsOf
<1> QED BY <1>5 DEF a

\* The last entry gets longer.
LEMMA LongerWords ==
    ASSUME NEW l \in Seq(Entry), l # <<>>, NEW d \in Nat
    PROVE  LET n == Len(l)
               x == l[n]
               m == [l EXCEPT ![n].count = @ + d] IN
           /\ m \in Seq(Entry) /\ Len(m) = n
           /\ m[n] = [x EXCEPT !.count = x.count + d]
           /\ WordsOf(m) = WordsOf(l) \cup Run(x.cadd + 4 * x.count, x.hadd + 4 * x.count, d)
<1> DEFINE n == Len(l)
           x == l[n]
           y == [x EXCEPT !.count = x.count + d]
           m == [l EXCEPT ![n] = y]
           new == Run(x.cadd + 4 * x.count, x.hadd + 4 * x.count, d)
<1>1. n \in Nat /\ n \in 1 .. n /\ DOMAIN l = 1 .. n
    BY EmptySeq, LenProperties
<1>2. x \in Entry
    BY <1>1, ElementOfSeq
<1>3. /\ x.cadd \in Nat /\ x.hadd \in Nat /\ x.count \in Nat
      /\ y.cadd = x.cadd /\ y.hadd = x.hadd /\ y.count = x.count + d /\ y \in Entry
    <2> HIDE DEF x
    <2>1. x.cadd \in Nat /\ x.hadd \in Nat /\ x.count \in Nat /\ x.count + d \in Nat
        BY <1>2 DEF Entry
    <2>2. y.cadd = x.cadd /\ y.hadd = x.hadd /\ y.count = x.count + d
        BY <1>2 DEF Entry
    <2>3. y \in Entry
        BY <1>2, <2>1 DEF Entry
    <2> QED BY <2>1, <2>2, <2>3
<1>4. [l EXCEPT ![n].count = @ + d] = m
    OBVIOUS
<1>5. EntryWords(y) = EntryWords(x) \cup new
    <2>1. EntryWords(y) = Run(y.cadd, y.hadd, y.count) /\ EntryWords(x) = Run(x.cadd, x.hadd, x.count)
        BY EntryRun
    <2>2. EntryWords(y) = Run(x.cadd, x.hadd, x.count + d)
        BY <1>3, <2>1
    <2> HIDE DEF x, y
    <2>3. Run(x.cadd, x.hadd, x.count + d) = Run(x.cadd, x.hadd, x.count) \cup new
        <3>1. RunSplit(x.cadd, x.hadd, x.count, d)
            BY <1>3, RunGrows
        <3> QED BY <3>1 DEF RunSplit
    <2> QED BY <2>1, <2>2, <2>3
<1> HIDE DEF x, y, new, n
<1>6. /\ m \in Seq(Entry) /\ Len(m) = n /\ DOMAIN m = 1 .. n
      /\ m[n] = y /\ \A j \in (1 .. n) \ {n} : m[j] = l[j]
    <2>1. m \in Seq(Entry) /\ Len(m) = Len(l)
        BY <1>1, <1>3, ExceptSeq DEF n
    <2>2. DOMAIN m = 1 .. n
        BY <1>1
    <2> QED BY <1>1, <2>1, <2>2 DEF n
<1> HIDE DEF m
<1> DEFINE rest == UNION {EntryWords(l[j]) : j \in (1 .. n) \ {n}}
<1>0. n \in 1 .. n
    BY <1>1
<1>7. WordsOf(m) = rest \cup EntryWords(y)
    <2>1. WordsOf(m) = UNION {EntryWords(m[j]) : j \in 1 .. n}
        BY <1>6 DEF WordsOf
    <2>2. \A j \in 1 .. n : j = n \/ j \in (1 .. n) \ {n}
        OBVIOUS
    <2>3. WordsOf(m) \subseteq rest \cup EntryWords(y)
        BY <1>6, <2>1, <2>2
    <2>4. EntryWords(y) \subseteq WordsOf(m)
        BY <1>0, <1>6, <2>1
    <2>5. rest \subseteq WordsOf(m)
        BY <1>6, <2>1
    <2> QED BY <2>3, <2>4, <2>5
<1>8. WordsOf(l) = rest \cup EntryWords(x)
    <2>1. WordsOf(l) = UNION {EntryWords(l[j]) : j \in 1 .. n}
        BY <1>1 DEF WordsOf
    <2>2. \A j \in 1 .. n : j = n \/ j \in (1 .. n) \ {n}
        OBVIOUS
    <2>3. WordsOf(l) \subseteq rest \cup EntryWords(x)
        BY <2>1, <2>2 DEF x
    <2>4. EntryWords(x) \subseteq WordsOf(l)
        BY <1>0, <2>1 DEF x
    <2>5. rest \subseteq WordsOf(l)
        BY <2>1
    <2> QED BY <2>3, <2>4, <2>5
<1> HIDE DEF rest
<1>9. WordsOf(m) = WordsOf(l) \cup new
    BY <1>5, <1>7, <1>8
<1> QED BY <1>4, <1>6, <1>9 DEF m, x, y, new, n

-----------------------------------------------------------------------------
(* The list the driver builds, piece by piece. *)

Nothing(r) == [list |-> <<>>, size |-> 0, end |-> 0, cadd |-> r.cadd]

IsBuilt(g, r, piece, n) ==
    g = [i \in 0 .. n |-> IF i = 0 THEN Nothing(r) ELSE AddPiece(g[i - 1], piece[i])]

LEMMA BuiltExists ==
    ASSUME NEW r, NEW piece
    PROVE  \A n \in Nat : \E g : IsBuilt(g, r, piece, n)
<1> DEFINE S == {n \in Nat : \E g : IsBuilt(g, r, piece, n)}
<1>1. 0 \in S
    <2> DEFINE g == [i \in 0 .. 0 |-> Nothing(r)]
    <2>1. IsBuilt(g, r, piece, 0)
        BY DEF IsBuilt
    <2> QED BY <2>1
<1>2. ASSUME NEW n \in Nat, n \in S
      PROVE  n + 1 \in S
    <2>1. PICK g : IsBuilt(g, r, piece, n)
        BY <1>2
    <2>2. /\ g[0] = Nothing(r)
          /\ \A i \in 1 .. n : g[i] = AddPiece(g[i - 1], piece[i])
        <3>1. \A i \in 0 .. n :
                g[i] = IF i = 0 THEN Nothing(r) ELSE AddPiece(g[i - 1], piece[i])
            BY <2>1, Zenon DEF IsBuilt
        <3> QED BY <3>1
    <2> DEFINE h == [i \in 0 .. n + 1 |-> IF i = n + 1 THEN AddPiece(g[n], piece[n + 1]) ELSE g[i]]
    <2>3. /\ h[0] = Nothing(r) /\ \A i \in 0 .. n : h[i] = g[i]
          /\ h[n + 1] = AddPiece(h[n], piece[n + 1])
        BY <2>2
    <2>4. \A i \in 1 .. n + 1 : h[i] = AddPiece(h[i - 1], piece[i])
        <3>1. \A i \in 1 .. n : i \in 0 .. n /\ i - 1 \in 0 .. n
            OBVIOUS
        <3>2. \A i \in 1 .. n : h[i] = AddPiece(h[i - 1], piece[i])
            BY <2>2, <2>3, <3>1
        <3>3. \A i \in 1 .. n + 1 : i \in 1 .. n \/ (i = n + 1 /\ i - 1 = n)
            OBVIOUS
        <3> QED BY <2>3, <3>2, <3>3
    <2>5. h = [i \in 0 .. n + 1 |-> h[i]]
        BY Zenon
    <2> HIDE DEF h
    <2>6. \A i \in 0 .. n + 1 :
            h[i] = IF i = 0 THEN Nothing(r) ELSE AddPiece(h[i - 1], piece[i])
        BY <2>3, <2>4
    <2>7. IsBuilt(h, r, piece, n + 1)
        BY <2>5, <2>6, Zenon DEF IsBuilt
    <2> QED BY <2>7
<1> HIDE DEF S
<1>3. \A n \in Nat : n \in S
    BY <1>1, <1>2, SetInduction
<1> QED BY <1>3 DEF S

LEMMA BuiltList ==
    ASSUME NEW r, NEW table, NEW n \in Nat, Len(Pieces(r, table)) = n
    PROVE  /\ Built(r, table)[0] = Nothing(r)
           /\ \A i \in 1 .. n :
                Built(r, table)[i] = AddPiece(Built(r, table)[i - 1], Pieces(r, table)[i])
<1> DEFINE piece == Pieces(r, table)
           b == Built(r, table)
<1>1. b = CHOOSE g : IsBuilt(g, r, piece, n)
    BY DEF Built, IsBuilt, Nothing
<1>2. \E g : IsBuilt(g, r, piece, n)
    BY BuiltExists
<1> HIDE DEF b, piece
<1>3. IsBuilt(b, r, piece, n)
    BY <1>1, <1>2
<1>4. \A i \in 0 .. n : b[i] = IF i = 0 THEN Nothing(r) ELSE AddPiece(b[i - 1], piece[i])
    BY <1>3, Zenon DEF IsBuilt
<1> QED BY <1>4 DEF b, piece

LEMMA PiecesLen ==
    ASSUME NEW r, Granted(r), NEW table
    PROVE  Len(Pieces(r, table)) = PieceCount(r)
<1>1. PieceCount(r) \in Nat
    BY LastByte
<1>2. DOMAIN Pieces(r, table) = 1 .. PieceCount(r)
    BY DEF Pieces, PieceCount
<1>3. Pieces(r, table) = [i \in 1 .. PieceCount(r) |-> Pieces(r, table)[i]]
    BY DEF Pieces, PieceCount
<1> QED BY <1>1, <1>2, <1>3

\* What the last entry of a list reaches up to, on the card and in memory.
Reaches(l, c, h) ==
    LET x == l[Len(l)] IN x.cadd + 4 * x.count = c /\ x.hadd + 4 * x.count = h

\* The list after i pieces: it moves the words of these pieces, and its last
\* entry ends where the next piece begins on the card.
AccOk(r, table, i, acc) ==
    /\ acc.list \in Seq(Entry) /\ acc.end \in Nat /\ acc.cadd \in Nat
    /\ WordsOf(acc.list) = FirstWords(r, table, WordsIn(r, i))
    /\ i < PieceCount(r) =>
         /\ acc.cadd = r.cadd + 4 * WordsIn(r, i)
         /\ acc.list # <<>> => Reaches(acc.list, acc.cadd, acc.end)

LEMMA PieceAdded ==
    ASSUME NEW r, Fair(r), NEW table, Present(r, table),
           NEW i \in 1 .. PieceCount(r), NEW acc, AccOk(r, table, i - 1, acc)
    PROVE  AccOk(r, table, i, AddPiece(acc, Pieces(r, table)[i]))
<1> DEFINE s == Pieces(r, table)[i]
           w == WordsIn(r, i - 1)
           v == WordsIn(r, i)
           d == Words(s)
           l == acc.list
           b == AddPiece(acc, s)
           more == Run(acc.cadd, s.addr, d)
           N == PieceCount(r)
<1>1. N \in Nat /\ i \in 1 .. N /\ r.cadd \in Nat
    BY FirstByte, LastByte DEF Fair
<1>2. PieceIsWords(r, table, i)
    BY WordsOfPiece
<1>3. FirstWords(r, table, v) = FirstWords(r, table, w) \cup Run(r.cadd + 4 * w, s.addr, v - w)
    BY <1>1, <1>2, PieceAdds
<1>4. /\ w \in Nat /\ v \in Nat /\ w <= v /\ s.addr \in Nat /\ s.len \in Nat
      /\ d = v - w /\ d \in Nat /\ (i < N => s.len = 4 * d)
    BY <1>2 DEF PieceIsWords, Words
<1>5. /\ l \in Seq(Entry) /\ acc.end \in Nat /\ acc.cadd = r.cadd + 4 * w /\ acc.cadd \in Nat
      /\ WordsOf(l) = FirstWords(r, table, w)
      /\ l # <<>> => Reaches(l, acc.cadd, acc.end)
    BY <1>1 DEF AccOk
<1>6. FirstWords(r, table, v) = WordsOf(l) \cup more
    BY <1>3, <1>4, <1>5
<1> HIDE DEF s, w, v, d, more, N, l
<1>7. s.addr + s.len \in Nat /\ acc.cadd + s.len \in Nat
    <2>1. s.addr \in Nat /\ s.len \in Nat
        BY <1>4
    <2>2. acc.cadd \in Nat
        BY <1>5
    <2> QED BY <2>1, <2>2
<1>8. i < N => acc.cadd + s.len = r.cadd + 4 * v
    <2>1. w \in Nat /\ v \in Nat /\ (i < N => s.len = 4 * (v - w))
        BY <1>4
    <2>2. acc.cadd = r.cadd + 4 * w /\ r.cadd \in Nat
        BY <1>1, <1>5
    <2> QED BY <2>1, <2>2
<1>9. CASE Merge /\ Len(l) > 0 /\ acc.size < MaxDma /\ acc.end = s.addr
    <2> DEFINE n == Len(l)
               x == l[n]
               m == [l EXCEPT ![n].count = @ + d]
    <2>1. l # <<>>
        BY <1>5, <1>9, EmptySeq
    <2>2. n \in 1 .. n /\ n \in Nat
        BY <1>5, <1>9, LenProperties
    <2>3. x \in Entry
        BY <1>5, <2>2, ElementOfSeq
    <2>4. /\ m \in Seq(Entry) /\ Len(m) = n /\ m[n] = [x EXCEPT !.count = x.count + d]
          /\ WordsOf(m) = WordsOf(l) \cup Run(x.cadd + 4 * x.count, x.hadd + 4 * x.count, d)
        BY <1>4, <1>5, <2>1, LongerWords
    <2>5. x.cadd + 4 * x.count = acc.cadd /\ x.hadd + 4 * x.count = s.addr
        BY <1>5, <1>9, <2>1 DEF Reaches
    <2>6. WordsOf(m) = WordsOf(l) \cup more
        BY <2>4, <2>5 DEF more
    <2>7. b.list = m /\ b.end = s.addr + s.len /\ b.cadd = acc.cadd + s.len
        BY <1>9 DEF AddPiece, d, l
    <2> HIDE DEF x
    <2>8. i < N => Reaches(m, acc.cadd + s.len, s.addr + s.len)
        <3> DEFINE y == [x EXCEPT !.count = x.count + d]
        <3>1. /\ x.cadd \in Nat /\ x.hadd \in Nat /\ x.count \in Nat
              /\ y.cadd = x.cadd /\ y.hadd = x.hadd /\ y.count = x.count + d
            BY <2>3 DEF Entry
        <3>2. m[Len(m)] = y
            BY <2>4
        <3> HIDE DEF y, m
        <3>3. i < N => y.cadd + 4 * y.count = acc.cadd + s.len /\ y.hadd + 4 * y.count = s.addr + s.len
            <4> SUFFICES ASSUME i < N
                         PROVE  /\ y.cadd + 4 * y.count = acc.cadd + s.len
                                /\ y.hadd + 4 * y.count = s.addr + s.len
                OBVIOUS
            <4>1. s.len = 4 * d /\ d \in Nat
                BY <1>4
            <4>2. y.cadd + 4 * y.count = (x.cadd + 4 * x.count) + 4 * d
                BY <3>1, <4>1
            <4>3. y.hadd + 4 * y.count = (x.hadd + 4 * x.count) + 4 * d
                BY <3>1, <4>1
            <4> QED BY <2>5, <4>1, <4>2, <4>3
        <3> QED BY <3>2, <3>3 DEF Reaches
    <2> HIDE DEF m, b
    <2>9. b.list \in Seq(Entry) /\ b.end \in Nat /\ b.cadd \in Nat
        BY <1>7, <2>4, <2>7
    <2>10. WordsOf(b.list) = FirstWords(r, table, v)
        BY <1>6, <2>6, <2>7
    <2>11. i < N => b.cadd = r.cadd + 4 * v /\ Reaches(b.list, b.cadd, b.end)
        BY <1>8, <2>7, <2>8
    <2>12. AccOk(r, table, i, b)
        BY <2>9, <2>10, <2>11 DEF AccOk, v, N
    <2> QED BY <2>12 DEF b, s
<1>10. CASE ~(Merge /\ Len(l) > 0 /\ acc.size < MaxDma /\ acc.end = s.addr)
    <2> DEFINE x == [hadd |-> s.addr, cadd |-> acc.cadd, count |-> d]
               m == Append(l, x)
    <2>1. x \in Entry
        BY <1>4, <1>5 DEF Entry
    <2>2. b.list = m /\ b.end = s.addr + s.len /\ b.cadd = acc.cadd + s.len
        BY <1>10 DEF AddPiece, d, l
    <2>3. WordsOf(m) = WordsOf(l) \cup EntryWords(x)
        BY <1>5, <2>1, AppendedWords
    <2>4. EntryWords(x) = more
        BY DEF EntryWords, Run, more
    <2>5. m \in Seq(Entry) /\ m[Len(m)] = x
        <3> HIDE DEF x
        <3>1. m \in Seq(Entry) /\ Len(m) = Len(l) + 1 /\ m[Len(l) + 1] = x
            BY <1>5, <2>1, AppendProperties
        <3> QED BY <3>1
    <2>6. i < N => Reaches(m, acc.cadd + s.len, s.addr + s.len)
        <3>1. x.cadd = acc.cadd /\ x.hadd = s.addr /\ x.count = d
            OBVIOUS
        <3> HIDE DEF x, m
        <3>2. i < N => x.cadd + 4 * x.count = acc.cadd + s.len /\ x.hadd + 4 * x.count = s.addr + s.len
            BY <1>4, <1>5, <3>1
        <3> QED BY <2>5, <3>2 DEF Reaches
    <2> HIDE DEF m, b
    <2>9. b.list \in Seq(Entry) /\ b.end \in Nat /\ b.cadd \in Nat
        BY <1>7, <2>5, <2>2
    <2>10. WordsOf(b.list) = FirstWords(r, table, v)
        BY <1>6, <2>3, <2>4, <2>2
    <2>11. i < N => b.cadd = r.cadd + 4 * v /\ Reaches(b.list, b.cadd, b.end)
        BY <1>8, <2>2, <2>6
    <2>12. AccOk(r, table, i, b)
        BY <2>9, <2>10, <2>11 DEF AccOk, v, N
    <2> QED BY <2>12 DEF b, s
<1> QED BY <1>9, <1>10 DEF s

LEMMA ListIsRight ==
    ASSUME NEW r, Fair(r), NEW table, Present(r, table)
    PROVE  /\ CardList(r, table) \in Seq(Entry)
           /\ WordsOf(CardList(r, table)) = BufferWords(r, table)
<1> DEFINE n == PieceCount(r)
           b == Built(r, table)
           S == {i \in Nat : i <= n => AccOk(r, table, i, b[i])}
<1>1. n \in Nat \ {0} /\ r.cadd \in Nat
    BY FirstByte, LastByte DEF Fair
<1>2. Len(Pieces(r, table)) = n
    BY PiecesLen DEF Fair
<1>3. b[0] = Nothing(r) /\ \A i \in 1 .. n : b[i] = AddPiece(b[i - 1], Pieces(r, table)[i])
    BY <1>1, <1>2, BuiltList
<1>4. CardList(r, table) = b[n].list
    BY <1>2 DEF CardList
<1> HIDE DEF n, b
<1>5. 0 \in S
    <2>1. AccOk(r, table, 0, Nothing(r))
        <3>1. <<>> \in Seq(Entry) /\ WordsOf(<<>>) = {}
            BY DEF WordsOf
        <3>2. WordsIn(r, 0) = 0
            <4>1. WordsIn(r, 0) = 0 \div 4
                BY DEF WordsIn, BytesIn
            <4>2. 0 \div 4 = 0
                BY SMT
            <4> QED BY <4>1, <4>2, Zenon
        <3>3. FirstWords(r, table, 0) = {}
            BY DEF FirstWords
        <3>4. r.cadd = r.cadd + 4 * WordsIn(r, 0)
            BY <1>1, <3>2
        <3> QED BY <1>1, <3>1, <3>2, <3>3, <3>4 DEF AccOk, Nothing
    <2> QED BY <1>3, <2>1
<1>6. ASSUME NEW i \in Nat, i \in S
      PROVE  i + 1 \in S
    <2>1. SUFFICES ASSUME i + 1 <= n
                   PROVE  AccOk(r, table, i + 1, b[i + 1])
        OBVIOUS
    <2>2. AccOk(r, table, i, b[i]) /\ i + 1 \in 1 .. n /\ (i + 1) - 1 = i
        BY <1>1, <1>6, <2>1
    <2>3. AccOk(r, table, i + 1, AddPiece(b[i], Pieces(r, table)[i + 1]))
        <3> DEFINE j == i + 1
        <3>1. j \in 1 .. PieceCount(r) /\ AccOk(r, table, j - 1, b[i])
            BY <2>2 DEF n
        <3> HIDE DEF j
        <3>2. AccOk(r, table, j, AddPiece(b[i], Pieces(r, table)[j]))
            BY <3>1, PieceAdded
        <3> QED BY <3>2 DEF j
    <2> QED BY <1>3, <2>2, <2>3
<1> HIDE DEF S
<1>7. \A i \in Nat : i \in S
    BY <1>5, <1>6, SetInduction
<1>8. AccOk(r, table, n, b[n])
    BY <1>1, <1>7 DEF S
<1>9. WordsIn(r, n) = r.size \div 4
    BY <1>1 DEF WordsIn, BytesIn, n
<1>10. FirstWords(r, table, r.size \div 4) = BufferWords(r, table)
    BY DEF FirstWords, BufferWords, Host
<1> QED BY <1>4, <1>8, <1>9, <1>10 DEF AccOk

-----------------------------------------------------------------------------
(* Wherever a buffer begins and ends, its list stays inside. *)

Inside(r, table, l) == \A y \in WordsOf(l) : InBuffer(y, r, table)

\* From byte s of the buffer to byte n - 1 memory is in one piece.
Straight(r, table, s, n, h) == \A b \in s .. n - 1 : HostByte(r, table, b) = h + (b - s)

LEMMA RunInside ==
    ASSUME NEW r, Granted(r), NEW table, NEW s \in Nat, NEW n \in Nat, NEW d \in Nat, NEW h \in Nat,
           4 * d <= n - s, n <= r.size, Straight(r, table, s, n, h),
           NEW y \in Run(r.cadd + s, h, d)
    PROVE  InBuffer(y, r, table)
<1>1. PICK k \in 0 .. d - 1 : y = <<(r.cadd + s) + 4 * k, h + 4 * k>>
    BY DEF Run
<1>2. r.cadd \in Nat /\ r.size \in Nat
    BY FirstByte
<1>3. y[1] - r.cadd = s + 4 * k /\ y[2] = h + 4 * k
    BY <1>1, <1>2
<1>4. s + 4 * k \in 0 .. r.size - 4
    BY <1>2
<1>5. ASSUME NEW j \in 0 .. 3
      PROVE  HostByte(r, table, s + 4 * k + j) = (h + 4 * k) + j
    <2>1. s + 4 * k + j \in s .. n - 1 /\ (s + 4 * k + j) - s = 4 * k + j
        OBVIOUS
    <2>2. HostByte(r, table, s + 4 * k + j) = h + ((s + 4 * k + j) - s)
        BY <2>1 DEF Straight
    <2> QED BY <2>1, <2>2
<1> QED BY <1>3, <1>4, <1>5 DEF InBuffer

\* The last entry after the first n bytes of the buffer: it counts no more than the
\* bytes it was made of, which lie together, up to where the next piece may join.
LastFits(r, table, n, l, end) ==
    LET x == l[Len(l)]
        s == x.cadd - r.cadd IN
    /\ s \in Nat /\ 4 * x.count <= n - s
    /\ end = x.hadd + (n - s)
    /\ Straight(r, table, s, n, x.hadd)

AccFits(r, table, i, acc) ==
    /\ acc.list \in Seq(Entry)
    /\ acc.cadd = r.cadd + BytesIn(r, i)
    /\ Inside(r, table, acc.list)
    /\ acc.list # <<>> => LastFits(r, table, BytesIn(r, i), acc.list, acc.end)

LEMMA PieceFits ==
    ASSUME NEW r, Granted(r), NEW table, Present(r, table),
           NEW i \in 1 .. PieceCount(r), NEW acc, AccFits(r, table, i - 1, acc)
    PROVE  AccFits(r, table, i, AddPiece(acc, Pieces(r, table)[i]))
<1> DEFINE s == Pieces(r, table)[i]
           w == BytesIn(r, i - 1)
           v == BytesIn(r, i)
           d == Words(s)
           l == acc.list
           b == AddPiece(acc, s)
<1>1. r.cadd \in Nat /\ r.size \in Nat
    BY FirstByte
<1>2. /\ w \in Nat /\ v \in Nat /\ w <= v /\ v <= r.size
      /\ s.addr \in Nat /\ s.len = v - w /\ Straight(r, table, w, v, s.addr)
    BY BytesOfPiece DEF PieceIsBytes, Straight
<1>3. d \in Nat /\ 4 * d <= v - w
    <2>1. v - w \in Nat /\ d = (v - w) \div 4
        BY <1>2 DEF Words
    <2> HIDE DEF w, v, d
    <2> QED BY <2>1
<1>4. /\ l \in Seq(Entry) /\ acc.cadd = r.cadd + w /\ Inside(r, table, l)
      /\ l # <<>> => LastFits(r, table, w, l, acc.end)
    BY DEF AccFits
<1>5. b.end = s.addr + s.len /\ b.cadd = acc.cadd + s.len
    BY DEF AddPiece
<1> HIDE DEF s, w, v, d, l
<1>6. b.cadd = r.cadd + v
    BY <1>1, <1>2, <1>4, <1>5
<1>7. CASE Merge /\ Len(l) > 0 /\ acc.size < MaxDma /\ acc.end = s.addr
    <2> DEFINE n == Len(l)
               x == l[n]
               m == [l EXCEPT ![n].count = @ + d]
               y == [x EXCEPT !.count = x.count + d]
               z == x.cadd - r.cadd
               c == x.count
    <2>1. l # <<>>
        BY <1>4, <1>7, EmptySeq
    <2>2. n \in 1 .. n /\ n \in Nat
        BY <1>4, <1>7, LenProperties
    <2>3. x \in Entry
        BY <1>4, <2>2, ElementOfSeq
    <2>4. /\ m \in Seq(Entry) /\ Len(m) = n /\ m[n] = y
          /\ WordsOf(m) = WordsOf(l) \cup Run(x.cadd + 4 * x.count, x.hadd + 4 * x.count, d)
        BY <1>3, <1>4, <2>1, LongerWords
    <2>5. /\ z \in Nat /\ 4 * c <= w - z /\ acc.end = x.hadd + (w - z)
          /\ Straight(r, table, z, w, x.hadd)
        BY <1>4, <2>1 DEF LastFits
    <2>6. b.list = m
        BY <1>7 DEF AddPiece, d, l
    <2> HIDE DEF x, m, b
    <2>7. /\ x.cadd \in Nat /\ x.hadd \in Nat /\ c \in Nat
          /\ y.cadd = x.cadd /\ y.hadd = x.hadd /\ y.count = c + d
        BY <2>3 DEF Entry
    <2> HIDE DEF y
    <2>8. x.cadd = r.cadd + z
        BY <1>1, <2>7
    <2> HIDE DEF z, c
    <2>9. Straight(r, table, z, v, x.hadd)
        <3> SUFFICES ASSUME NEW k \in z .. v - 1
                     PROVE  HostByte(r, table, k) = x.hadd + (k - z)
            BY DEF Straight
        <3>1. CASE k < w
            <4>1. k \in z .. w - 1
                BY <1>2, <2>5, <3>1
            <4> QED BY <2>5, <4>1 DEF Straight
        <3>2. CASE k >= w
            <4>1. k \in w .. v - 1
                BY <1>2, <2>5, <3>2
            <4>2. HostByte(r, table, k) = s.addr + (k - w)
                BY <1>2, <4>1 DEF Straight
            <4>3. s.addr = x.hadd + (w - z)
                BY <1>7, <2>5
            <4>4. k \in Int /\ z \in Int /\ w \in Int /\ x.hadd \in Int
                BY <1>2, <2>5, <2>7
            <4> QED BY <4>2, <4>3, <4>4
        <3>3. k \in Int /\ w \in Int
            BY <1>2, <2>5
        <3> QED BY <3>1, <3>2, <3>3
    <2>10. Inside(r, table, m)
        <3>1. Straight(r, table, z + 4 * c, v, x.hadd + 4 * c)
            <4> SUFFICES ASSUME NEW k \in z + 4 * c .. v - 1
                         PROVE  HostByte(r, table, k) = (x.hadd + 4 * c) + (k - (z + 4 * c))
                BY DEF Straight
            <4>1. k \in z .. v - 1 /\ (x.hadd + 4 * c) + (k - (z + 4 * c)) = x.hadd + (k - z)
                BY <1>2, <2>5, <2>7
            <4> QED BY <2>9, <4>1 DEF Straight
        <3>2. /\ z + 4 * c \in Nat /\ x.hadd + 4 * c \in Nat /\ 4 * d <= v - (z + 4 * c)
              /\ x.cadd + 4 * c = r.cadd + (z + 4 * c)
            BY <1>1, <1>2, <1>3, <2>5, <2>7, <2>8
        <3>3. \A q \in Run(r.cadd + (z + 4 * c), x.hadd + 4 * c, d) : InBuffer(q, r, table)
            BY <1>2, <1>3, <3>1, <3>2, RunInside
        <3> QED BY <1>4, <2>4, <3>2, <3>3 DEF Inside, c
    <2>11. LastFits(r, table, v, m, b.end)
        <3>1. m[Len(m)] = y /\ y.cadd - r.cadd = z
            BY <1>1, <2>4, <2>5, <2>7, <2>8
        <3>2. 4 * (c + d) <= v - z
            BY <1>2, <1>3, <2>5, <2>7
        <3>3. b.end = x.hadd + (v - z)
            BY <1>2, <1>5, <1>7, <2>5, <2>7
        <3> QED BY <2>5, <2>7, <2>9, <3>1, <3>2, <3>3 DEF LastFits
    <2>12. AccFits(r, table, i, b)
        BY <1>6, <2>4, <2>6, <2>10, <2>11 DEF AccFits, v
    <2> QED BY <2>12 DEF b, s
<1>8. CASE ~(Merge /\ Len(l) > 0 /\ acc.size < MaxDma /\ acc.end = s.addr)
    <2> DEFINE x == [hadd |-> s.addr, cadd |-> acc.cadd, count |-> d]
               m == Append(l, x)
    <2>1. x \in Entry
        BY <1>1, <1>2, <1>3, <1>4 DEF Entry
    <2>2. b.list = m
        BY <1>8 DEF AddPiece, d, l
    <2>3. WordsOf(m) = WordsOf(l) \cup EntryWords(x)
        BY <1>4, <2>1, AppendedWords
    <2>4. x.cadd = acc.cadd /\ x.hadd = s.addr /\ x.count = d
        OBVIOUS
    <2> HIDE DEF x, b
    <2>5. m \in Seq(Entry) /\ m[Len(m)] = x
        <3>1. m \in Seq(Entry) /\ Len(m) = Len(l) + 1 /\ m[Len(l) + 1] = x
            BY <1>4, <2>1, AppendProperties
        <3> QED BY <3>1
    <2> HIDE DEF m
    <2>6. EntryWords(x) = Run(r.cadd + w, s.addr, d)
        BY <1>4, <2>4, EntryRun
    <2>7. Inside(r, table, m)
        <3>1. \A q \in Run(r.cadd + w, s.addr, d) : InBuffer(q, r, table)
            BY <1>2, <1>3, RunInside
        <3> QED BY <1>4, <2>3, <2>6, <3>1 DEF Inside
    <2>8. LastFits(r, table, v, m, b.end)
        <3>1. x.cadd - r.cadd = w
            BY <1>1, <1>2, <1>4, <2>4
        <3>2. b.end = x.hadd + (v - w)
            BY <1>2, <1>5, <2>4
        <3> QED BY <1>2, <1>3, <2>4, <2>5, <3>1, <3>2 DEF LastFits
    <2>9. AccFits(r, table, i, b)
        BY <1>6, <2>2, <2>5, <2>7, <2>8 DEF AccFits, v
    <2> QED BY <2>9 DEF b, s
<1> QED BY <1>7, <1>8 DEF s

LEMMA ListStaysInside ==
    ASSUME NEW r, Granted(r), NEW table, Present(r, table)
    PROVE  CardList(r, table) \in Seq(Entry) /\ Inside(r, table, CardList(r, table))
<1> DEFINE n == PieceCount(r)
           b == Built(r, table)
           S == {i \in Nat : i <= n => AccFits(r, table, i, b[i])}
<1>1. n \in Nat \ {0} /\ r.cadd \in Nat
    BY FirstByte, LastByte
<1>2. Len(Pieces(r, table)) = n
    BY PiecesLen
<1>3. b[0] = Nothing(r) /\ \A i \in 1 .. n : b[i] = AddPiece(b[i - 1], Pieces(r, table)[i])
    BY <1>1, <1>2, BuiltList
<1>4. CardList(r, table) = b[n].list
    BY <1>2 DEF CardList
<1> HIDE DEF n, b
<1>5. 0 \in S
    <2>1. AccFits(r, table, 0, Nothing(r))
        <3>1. <<>> \in Seq(Entry) /\ WordsOf(<<>>) = {}
            BY DEF WordsOf
        <3>2. BytesIn(r, 0) = 0 /\ r.cadd = r.cadd + 0
            BY <1>1 DEF BytesIn
        <3> QED BY <3>1, <3>2 DEF AccFits, Nothing, Inside
    <2> QED BY <1>3, <2>1
<1>6. ASSUME NEW i \in Nat, i \in S
      PROVE  i + 1 \in S
    <2>1. SUFFICES ASSUME i + 1 <= n
                   PROVE  AccFits(r, table, i + 1, b[i + 1])
        OBVIOUS
    <2>2. AccFits(r, table, i, b[i]) /\ i + 1 \in 1 .. n /\ (i + 1) - 1 = i
        BY <1>1, <1>6, <2>1
    <2>3. AccFits(r, table, i + 1, AddPiece(b[i], Pieces(r, table)[i + 1]))
        <3> DEFINE j == i + 1
        <3>1. j \in 1 .. PieceCount(r) /\ AccFits(r, table, j - 1, b[i])
            BY <2>2 DEF n
        <3> HIDE DEF j
        <3>2. AccFits(r, table, j, AddPiece(b[i], Pieces(r, table)[j]))
            BY <3>1, PieceFits
        <3> QED BY <3>2 DEF j
    <2> QED BY <1>3, <2>2, <2>3
<1> HIDE DEF S
<1>7. \A i \in Nat : i \in S
    BY <1>5, <1>6, SetInduction
<1>8. AccFits(r, table, n, b[n])
    BY <1>1, <1>7 DEF S
<1> QED BY <1>4, <1>8 DEF AccFits

-----------------------------------------------------------------------------
(* What an engine has moved, and what it still has to move. *)

\* The cases a signal ends a wait, or a process switches the interrupts off,
\* are left out.
Lucky == unlucky \cap {"signal", "irqoff"} = {}

EngineType ==
    /\ hw = [e \in Engines |-> hw[e]] /\ moved = [e \in Engines |-> moved[e]]
    /\ outcome = [p \in Procs |-> outcome[p]]

Asked ==
    \A p \in Procs :
        /\ pc[p] # "user" => req[p] \in Requests
        /\ pc[p] \in {"program", "check", "sleep", "cleanup"} => ~Refused(req[p])

\* The words moved and the words left are those the call asked for.
OnTheWay(p) ==
    LET e == engine[p] IN
    /\ hw[e] \in Seq(Entry)
    /\ go[e] \/ hw[e] = <<>>
    /\ moved[e] \cup WordsOf(hw[e]) = Wanted[p][req[p]]

Arrived(p) == ~go[engine[p]] /\ moved[engine[p]] = Wanted[p][req[p]]

ProgressOf(p) ==
    req[p].data % 4 = 0 =>
        /\ pc[p] \in {"check", "sleep"} => OnTheWay(p)
        /\ pc[p] = "cleanup" /\ outcome[p] = "ok" => Arrived(p)

Progress == Lucky => \A p \in Procs : ProgressOf(p)

\* The words moved and the words left are in the buffer.
Fits(p) ==
    LET e == engine[p] IN
    /\ hw[e] \in Seq(Entry)
    /\ \A y \in moved[e] \cup WordsOf(hw[e]) : InBuffer(y, req[p], Table[p])

FittingOf(p) == pc[p] \in {"check", "sleep", "cleanup"} => Fits(p)

Fitting == \A p \in Procs : FittingOf(p)

MoveInv == EngineType /\ Asked /\ Progress /\ Fitting

LEMMA TailWords ==
    ASSUME NEW l \in Seq(Entry), l # <<>>
    PROVE  /\ Tail(l) \in Seq(Entry)
           /\ WordsOf(l) = EntryWords(Head(l)) \cup WordsOf(Tail(l))
           /\ Len(l) > 1 \/ Tail(l) = <<>>
<1> DEFINE t == Tail(l)
<1>1. /\ t \in Seq(Entry) /\ Len(t) = Len(l) - 1 /\ Len(l) \in Nat \ {0}
      /\ \A i \in 1 .. Len(t) : t[i] = l[i + 1]
    BY HeadTailProperties, EmptySeq, LenProperties
<1>2. DOMAIN l = 1 .. Len(l) /\ DOMAIN t = 1 .. Len(t) /\ Head(l) = l[1]
    BY <1>1, LenProperties
<1> HIDE DEF t
<1>3. WordsOf(l) \subseteq EntryWords(l[1]) \cup WordsOf(t)
    <2>1. ASSUME NEW j \in DOMAIN l
          PROVE  EntryWords(l[j]) \subseteq EntryWords(l[1]) \cup WordsOf(t)
        <3>1. CASE j = 1
            BY <3>1
        <3>2. CASE j # 1
            <4>1. j - 1 \in DOMAIN t /\ l[j] = t[j - 1]
                BY <1>1, <1>2, <3>2
            <4> QED BY <4>1 DEF WordsOf
        <3> QED BY <3>1, <3>2
    <2> QED BY <2>1 DEF WordsOf
<1>4. EntryWords(l[1]) \subseteq WordsOf(l)
    BY <1>1, <1>2 DEF WordsOf
<1>5. WordsOf(t) \subseteq WordsOf(l)
    <2>1. \A i \in DOMAIN t : i + 1 \in DOMAIN l /\ t[i] = l[i + 1]
        BY <1>1, <1>2
    <2> QED BY <2>1 DEF WordsOf
<1>6. Len(l) > 1 \/ t = <<>>
    BY <1>1, EmptySeq
<1> QED BY <1>1, <1>2, <1>3, <1>4, <1>5, <1>6 DEF t

\* The list a call gives to its engine is the one it asked for.
LEMMA AskedList ==
    ASSUME NEW p \in Procs, NEW r \in Requests, ~Refused(r), r.data % 4 = 0
    PROVE  /\ Lists[p][r] \in Seq(Entry)
           /\ WordsOf(Lists[p][r]) = Wanted[p][r]
<1>1. Fair(r)
    BY RequestAssumption DEF Fair, Granted, Request
<1>2. Present(r, Table[p])
    BY TableAssumption DEF Present
<1>3. /\ CardList(r, Table[p]) \in Seq(Entry)
      /\ WordsOf(CardList(r, Table[p])) = BufferWords(r, Table[p])
    BY <1>1, <1>2, ListIsRight
<1> QED BY <1>3 DEF Lists, Wanted

LEMMA AskedFits ==
    ASSUME NEW p \in Procs, NEW r \in Requests, ~Refused(r)
    PROVE  Lists[p][r] \in Seq(Entry) /\ Inside(r, Table[p], Lists[p][r])
<1>1. Granted(r) /\ Present(r, Table[p])
    BY RequestAssumption, TableAssumption DEF Granted, Request, Present
<1> QED BY <1>1, ListStaysInside DEF Lists

LEMMA EmptyWords == WordsOf(<<>>) = {}
BY DEF WordsOf

LEMMA AskedStep == Ownership /\ Asked /\ [Next]_vars => Asked'
<1> SUFFICES ASSUME Ownership, Asked, [Next]_vars
             PROVE  Asked'
    OBVIOUS
<1> USE DEF Ownership, CallType, Asked
<1>1. ASSUME NEW p \in Procs, NEW r \in Requests, TakeEngine(p, r)
      PROVE  Asked'
    BY <1>1 DEF TakeEngine, Goto
<1>2. ASSUME NEW p \in Procs, InitFails(p) \/ Cleanup(p)
      PROVE  Asked'
    BY <1>2 DEF InitFails, Cleanup, Unlock, Goto
<1>3. ASSUME NEW p \in Procs, InitDone(p)
      PROVE  Asked'
    BY <1>3 DEF InitDone, Goto
<1>4. ASSUME NEW p \in Procs,
             Start(p) \/ Finished(p) \/ FallAsleep(p) \/ WakeUp(p) \/ Interrupted(p) \/ TimeOut(p)
      PROVE  Asked'
    <2>1. /\ pc[p] \in {"program", "check", "sleep"}
          /\ \E l \in {"check", "sleep", "cleanup"} : Goto(p, l)
          /\ UNCHANGED req
        BY <1>4 DEF Start, Finished, FallAsleep, WakeUp, Interrupted, TimeOut, Expire
    <2> QED BY <2>1 DEF Goto
<1>5. ASSUME UNCHANGED <<pc, req>>
      PROVE  Asked'
    BY <1>5
<1>6. ASSUME NEW p \in Procs, AllBusy(p)
      PROVE  Asked'
    BY <1>5, <1>6 DEF AllBusy
<1>7. ASSUME NEW e \in Engines, Move(e) \/ DmaIrq(e)
      PROVE  Asked'
    BY <1>5, <1>7 DEF Move, DmaIrq, call
<1>8. ASSUME NEW v \in BOOLEAN, IrqSet(v)
      PROVE  Asked'
    BY <1>5, <1>8 DEF IrqSet, call
<1>9. CASE UNCHANGED vars
    BY <1>5, <1>9 DEF vars, call
<1> QED BY <1>1, <1>2, <1>3, <1>4, <1>6, <1>7, <1>8, <1>9 DEF Next, Process, Runs

LEMMA EngineTypeStep == EngineType /\ [Next]_vars => EngineType'
<1> SUFFICES ASSUME EngineType, [Next]_vars
             PROVE  EngineType'
    OBVIOUS
<1>1. ASSUME NEW p \in Procs, Start(p)
      PROVE  EngineType'
    BY <1>1 DEF EngineType, Start
<1>2. ASSUME NEW e \in Engines, Move(e)
      PROVE  EngineType'
    BY <1>2 DEF EngineType, Move, call
<1>3. ASSUME UNCHANGED <<hw, moved, outcome>>
      PROVE  EngineType'
    BY <1>3 DEF EngineType
<1>4. ASSUME NEW p \in Procs, Process(p), ~Start(p)
      PROVE  EngineType'
    <2>1. UNCHANGED <<hw, moved>>
        BY <1>4 DEF Process, Runs, TakeEngine, AllBusy, InitFails, InitDone, Finished, FallAsleep,
                    WakeUp, Cleanup, Interrupted, TimeOut, chip
    <2>2. UNCHANGED outcome \/ \E o : outcome' = [outcome EXCEPT ![p] = o]
        BY <1>4 DEF Process, Runs, TakeEngine, AllBusy, InitFails, InitDone, Finished, FallAsleep,
                    WakeUp, Cleanup, Interrupted, TimeOut, Expire, Returns
    <2> QED BY <2>1, <2>2 DEF EngineType
<1>5. ASSUME NEW e \in Engines, DmaIrq(e)
      PROVE  EngineType'
    BY <1>3, <1>5 DEF DmaIrq, call
<1>6. ASSUME NEW v \in BOOLEAN, IrqSet(v)
      PROVE  EngineType'
    BY <1>3, <1>6 DEF IrqSet, call
<1>7. CASE UNCHANGED vars
    BY <1>3, <1>7 DEF vars, chip, call
<1> QED BY <1>1, <1>2, <1>4, <1>5, <1>6, <1>7 DEF Next

\* A call whose place, request and engine stay is where it was.
LEMMA SameWay ==
    ASSUME NEW p, OnTheWay(p),
           LET e == engine[p] IN
           engine'[p] = e /\ req'[p] = req[p] /\ hw'[e] = hw[e] /\ moved'[e] = moved[e] /\ go'[e] = go[e]
    PROVE  OnTheWay(p)'
BY DEF OnTheWay, Wanted

LEMMA SameArrived ==
    ASSUME NEW p, Arrived(p),
           LET e == engine[p] IN
           engine'[p] = e /\ req'[p] = req[p] /\ moved'[e] = moved[e] /\ go'[e] = go[e]
    PROVE  Arrived(p)'
BY DEF Arrived, Wanted

LEMMA SameFit ==
    ASSUME NEW p, Fits(p),
           LET e == engine[p] IN
           engine'[p] = e /\ req'[p] = req[p] /\ hw'[e] = hw[e] /\ moved'[e] = moved[e]
    PROVE  Fits(p)'
BY DEF Fits

\* Nobody else's engine is touched by a call.
Untouched(q) ==
    LET e == engine[q] IN
    /\ pc'[q] = pc[q] /\ outcome'[q] = outcome[q] /\ engine'[q] = e /\ req'[q] = req[q]
    /\ hw'[e] = hw[e] /\ moved'[e] = moved[e] /\ go'[e] = go[e]

LEMMA UntouchedStays ==
    ASSUME NEW q, Untouched(q)
    PROVE  /\ ProgressOf(q) => ProgressOf(q)'
           /\ FittingOf(q) => FittingOf(q)'
<1>1. ProgressOf(q) => ProgressOf(q)'
    BY SameWay, SameArrived DEF ProgressOf, Untouched
<1>2. FittingOf(q) => FittingOf(q)'
    BY SameFit DEF FittingOf, Untouched
<1> QED BY <1>1, <1>2

\* What is needed of the invariant so far.
Base ==
    /\ pc \in [Procs -> {"user", "init", "program", "check", "sleep", "cleanup"}]
    /\ engine \in [Procs -> Engines \cup {None}] /\ req = [p \in Procs |-> req[p]]
    /\ hw = [e \in Engines |-> hw[e]] /\ moved = [e \in Engines |-> moved[e]]
    /\ outcome = [p \in Procs |-> outcome[p]] /\ go \in [Engines -> BOOLEAN]
    /\ \A p, q \in Procs : (p # q /\ engine[p] # None) => engine[p] # engine[q]
    /\ \A p \in Procs : engine[p] = None <=> pc[p] = "user"

LEMMA BaseHolds == Inv /\ MoveInv => Base
BY DEF Base, Inv, CallType, GoType, MoveInv, EngineType, OneOwner, Holds

\* The others keep what they have when the call p moves.
LEMMA CallLeavesOthers ==
    ASSUME Base, NEW p \in Procs, Process(p), NEW q \in Procs, q # p
    PROVE  pc'[q] = "user" \/ Untouched(q)
<1> USE NoneIsNoEngine DEF Base
<1>1. CASE pc[q] = "user"
    <2>1. pc'[q] = "user"
        BY <1>1
           DEF Process, Runs, TakeEngine, AllBusy, InitFails, InitDone, Start, Finished,
               FallAsleep, WakeUp, Cleanup, Interrupted, TimeOut, Expire, Unlock, Goto
    <2> QED BY <2>1
<1>2. CASE pc[q] # "user"
    <2>1. engine[q] \in Engines /\ engine[q] # engine[p]
        BY <1>2
    <2>2. pc'[q] = pc[q] /\ engine'[q] = engine[q] /\ req'[q] = req[q]
        BY DEF Process, Runs, TakeEngine, AllBusy, InitFails, InitDone, Start, Finished,
               FallAsleep, WakeUp, Cleanup, Interrupted, TimeOut, Expire, Unlock, Goto
    <2>3. outcome'[q] = outcome[q]
        BY DEF Process, Runs, TakeEngine, AllBusy, InitFails, InitDone, Start, Finished,
               FallAsleep, WakeUp, Cleanup, Interrupted, TimeOut, Expire, Unlock, Goto, Returns
    <2>4. hw'[engine[q]] = hw[engine[q]] /\ moved'[engine[q]] = moved[engine[q]]
        BY <2>1
           DEF Process, Runs, TakeEngine, AllBusy, InitFails, InitDone, Start, Finished,
               FallAsleep, WakeUp, Cleanup, Interrupted, TimeOut, chip
    <2>5. go'[engine[q]] = go[engine[q]]
        BY <2>1
           DEF Process, Runs, TakeEngine, AllBusy, InitFails, InitDone, Start, Finished,
               FallAsleep, WakeUp, Cleanup, Interrupted, TimeOut, Expire, chip
    <2> QED BY <2>2, <2>3, <2>4, <2>5 DEF Untouched
<1> QED BY <1>1, <1>2

LEMMA MoveLeavesOthers ==
    ASSUME Base, NEW e \in Engines, Move(e), NEW q \in Procs, pc[q] # "user", engine[q] # e
    PROVE  Untouched(q)
<1>1. engine[q] \in Engines
    BY DEF Base
<1>2. /\ moved' = [moved EXCEPT ![e] = @ \cup EntryWords(Head(hw[e]))]
      /\ hw' = [hw EXCEPT ![e] = Tail(@)]
      /\ go' = [go EXCEPT ![e] = Len(hw[e]) > 1]
      /\ UNCHANGED <<pc, req, engine, outcome>>
    BY DEF Move, call
<1>3. hw'[engine[q]] = hw[engine[q]] /\ moved'[engine[q]] = moved[engine[q]]
      /\ go'[engine[q]] = go[engine[q]]
    BY <1>1, <1>2 DEF Base
<1> QED BY <1>2, <1>3 DEF Untouched

LEMMA ProgressStep ==
    ASSUME Inv, MoveInv, Lucky, [Next]_vars
    PROVE  \A p \in Procs : ProgressOf(p)'
<1> USE NoneIsNoEngine
<1>1. /\ \A p \in Procs : ProgressOf(p)
      /\ unlucky \cap {"signal", "irqoff"} = {}
    BY DEF MoveInv, Progress, Lucky
<1>2. Base
    BY BaseHolds
<1>3. \A p \in Procs : pc[p] # "user" => engine[p] \in Engines
    BY <1>2 DEF Base
<1>4. ASSUME NEW p \in Procs, Process(p), NEW q \in Procs, q # p
      PROVE  ProgressOf(q)'
    BY <1>1, <1>2, <1>4, CallLeavesOthers, UntouchedStays DEF ProgressOf
<1>5. ASSUME NEW p \in Procs, Process(p)
      PROVE  ProgressOf(p)'
    <2> USE <1>2 DEF Base
    <2>1. CASE \E r \in Requests : TakeEngine(p, r)
        <3>1. pc'[p] = "init"
            BY <2>1 DEF TakeEngine, Goto
        <3> QED BY <3>1 DEF ProgressOf
    <2>2. CASE AllBusy(p)
        <3>1. pc'[p] = "user"
            BY <2>2 DEF AllBusy
        <3> QED BY <3>1 DEF ProgressOf
    <2>3. CASE InitFails(p) \/ Cleanup(p) \/ InitDone(p)
        <3>1. pc'[p] \in {"user", "program"}
            BY <2>3 DEF InitFails, Cleanup, InitDone, Unlock, Goto
        <3> QED BY <3>1 DEF ProgressOf
    <2>4. CASE Start(p)
        <3>1. /\ pc[p] = "program" /\ pc' = [pc EXCEPT ![p] = "check"]
              /\ hw' = [hw EXCEPT ![engine[p]] = Lists[p][req[p]]]
              /\ moved' = [moved EXCEPT ![engine[p]] = {}]
              /\ go' = [go EXCEPT ![engine[p]] = TRUE]
              /\ UNCHANGED <<req, engine>>
            BY <2>4 DEF Start, Goto
        <3>2. engine[p] \in Engines /\ req[p] \in Requests /\ ~Refused(req[p])
            BY <1>3, <3>1 DEF MoveInv, Asked
        <3>3. CASE req[p].data % 4 = 0
            <4>1. Lists[p][req[p]] \in Seq(Entry) /\ WordsOf(Lists[p][req[p]]) = Wanted[p][req[p]]
                BY <3>2, <3>3, AskedList
            <4>2. /\ hw'[engine[p]] = Lists[p][req[p]] /\ moved'[engine[p]] = {} /\ go'[engine[p]]
                  /\ pc'[p] = "check"
                BY <3>1, <3>2
            <4>3. Wanted' = Wanted
                BY DEF Wanted
            <4>4. OnTheWay(p)'
                BY <3>1, <4>1, <4>2, <4>3 DEF OnTheWay
            <4> QED BY <4>2, <4>4 DEF ProgressOf
        <3>4. CASE ~(req[p].data % 4 = 0)
            BY <3>1, <3>4 DEF ProgressOf
        <3> QED BY <3>3, <3>4
    <2>5. CASE Finished(p)
        <3>1. /\ pc[p] = "check" /\ ~go[engine[p]] /\ pc'[p] = "cleanup"
              /\ UNCHANGED <<req, engine, hw, moved, go>>
            BY <2>5 DEF Finished, Goto, chip
        <3>2. OnTheWay(p) => Arrived(p)'
            <4>1. OnTheWay(p) => Arrived(p)
                BY <3>1, EmptyWords DEF OnTheWay, Arrived
            <4> QED BY <3>1, <4>1, SameArrived
        <3> QED BY <1>1, <3>1, <3>2 DEF ProgressOf
    <2>6. CASE FallAsleep(p) \/ WakeUp(p)
        <3>1. /\ pc[p] \in {"check", "sleep"} /\ pc'[p] \in {"check", "sleep"}
              /\ UNCHANGED <<req, engine, hw, moved, go>>
            BY <2>6 DEF FallAsleep, WakeUp, Goto, chip
        <3>2. OnTheWay(p) => OnTheWay(p)'
            BY <3>1, SameWay
        <3> QED BY <1>1, <3>1, <3>2 DEF ProgressOf
    <2>7. CASE Interrupted(p)
        BY <1>1, <2>7 DEF Interrupted
    <2>8. CASE TimeOut(p)
        <3>1. pc'[p] = "cleanup"
            BY <2>8 DEF TimeOut, Expire, Goto
        <3>2. outcome'[p] = "timeout"
            BY <2>8 DEF TimeOut, Expire, Returns
        <3> QED BY <3>1, <3>2 DEF ProgressOf
    <2> QED BY <1>5, <2>1, <2>2, <2>3, <2>4, <2>5, <2>6, <2>7, <2>8 DEF Process, Runs
<1>6. ASSUME NEW e \in Engines, Move(e), NEW q \in Procs
      PROVE  ProgressOf(q)'
    <2>1. /\ go[e] /\ hw[e] # <<>>
          /\ moved' = [moved EXCEPT ![e] = @ \cup EntryWords(Head(hw[e]))]
          /\ hw' = [hw EXCEPT ![e] = Tail(@)]
          /\ go' = [go EXCEPT ![e] = Len(hw[e]) > 1]
          /\ UNCHANGED <<pc, req, engine, outcome>>
        BY <1>6 DEF Move, call
    <2>2. CASE pc[q] \in {"user", "init", "program"}
        BY <2>1, <2>2 DEF ProgressOf
    <2>3. CASE pc[q] # "user" /\ engine[q] # e
        BY <1>1, <1>2, <1>6, <2>3, MoveLeavesOthers, UntouchedStays
    <2>4. CASE pc[q] \in {"check", "sleep"} /\ engine[q] = e
        <3>1. OnTheWay(q) => OnTheWay(q)'
            <4>1. SUFFICES ASSUME OnTheWay(q) PROVE OnTheWay(q)'
                OBVIOUS
            <4>2. /\ hw[e] \in Seq(Entry)
                  /\ moved[e] \cup WordsOf(hw[e]) = Wanted[q][req[q]]
                BY <2>4, <4>1 DEF OnTheWay
            <4>3. /\ Tail(hw[e]) \in Seq(Entry)
                  /\ WordsOf(hw[e]) = EntryWords(Head(hw[e])) \cup WordsOf(Tail(hw[e]))
                  /\ Len(hw[e]) > 1 \/ Tail(hw[e]) = <<>>
                BY <2>1, <4>2, TailWords
            <4>4. /\ moved'[e] = moved[e] \cup EntryWords(Head(hw[e]))
                  /\ hw'[e] = Tail(hw[e]) /\ go'[e] = (Len(hw[e]) > 1)
                BY <1>2, <2>1, Zenon DEF Base
            <4>5. Wanted' = Wanted
                BY DEF Wanted
            <4>6. moved'[e] \cup WordsOf(hw'[e]) = Wanted'[q][req'[q]]
                BY <2>1, <4>2, <4>3, <4>4, <4>5
            <4> QED BY <2>1, <2>4, <4>3, <4>4, <4>6, Zenon DEF OnTheWay
        <3> QED BY <1>1, <2>1, <2>4, <3>1 DEF ProgressOf
    <2>5. CASE pc[q] = "cleanup" /\ engine[q] = e
        BY <1>1, <2>1, <2>5 DEF ProgressOf, Arrived
    <2> QED BY <1>2, <2>2, <2>3, <2>4, <2>5 DEF Base
<1>7. ASSUME UNCHANGED <<pc, req, engine, outcome, hw, moved, go>>, NEW q \in Procs
      PROVE  ProgressOf(q)'
    BY <1>1, <1>7, UntouchedStays DEF Untouched
<1>8. ASSUME NEW e \in Engines, DmaIrq(e), NEW q \in Procs
      PROVE  ProgressOf(q)'
    BY <1>7, <1>8 DEF DmaIrq, call
<1>9. ASSUME NEW v \in BOOLEAN, IrqSet(v), NEW q \in Procs
      PROVE  ProgressOf(q)'
    BY <1>1, <1>7, <1>9 DEF IrqSet, call
<1>10. ASSUME UNCHANGED vars, NEW q \in Procs
       PROVE  ProgressOf(q)'
    BY <1>7, <1>10 DEF vars, chip, call
<1> QED BY <1>4, <1>5, <1>6, <1>8, <1>9, <1>10 DEF Next

\* No mishap is left out: what an engine has left is in the buffer of its user.
LEMMA FittingStep ==
    ASSUME Inv, MoveInv, [Next]_vars
    PROVE  Fitting'
<1> USE NoneIsNoEngine
<1>1. \A p \in Procs : FittingOf(p)
    BY DEF MoveInv, Fitting
<1>2. Base
    BY BaseHolds
<1>3. ASSUME NEW p \in Procs, Process(p), NEW q \in Procs, q # p
      PROVE  FittingOf(q)'
    BY <1>1, <1>2, <1>3, CallLeavesOthers, UntouchedStays DEF FittingOf
<1>4. ASSUME NEW p \in Procs, Process(p)
      PROVE  FittingOf(p)'
    <2> USE <1>2 DEF Base
    <2>1. CASE \/ \E r \in Requests : TakeEngine(p, r)
               \/ AllBusy(p) \/ InitFails(p) \/ Cleanup(p) \/ InitDone(p)
        <3>1. pc'[p] \in {"user", "init", "program"}
            BY <2>1 DEF TakeEngine, AllBusy, InitFails, Cleanup, InitDone, Unlock, Goto
        <3> QED BY <3>1 DEF FittingOf
    <2>2. CASE Start(p)
        <3>1. /\ pc[p] = "program"
              /\ hw' = [hw EXCEPT ![engine[p]] = Lists[p][req[p]]]
              /\ moved' = [moved EXCEPT ![engine[p]] = {}]
              /\ UNCHANGED <<req, engine>>
            BY <2>2 DEF Start
        <3>2. engine[p] \in Engines /\ req[p] \in Requests /\ ~Refused(req[p])
            BY <3>1 DEF MoveInv, Asked
        <3>3. Lists[p][req[p]] \in Seq(Entry) /\ Inside(req[p], Table[p], Lists[p][req[p]])
            BY <3>2, AskedFits
        <3>4. hw'[engine[p]] = Lists[p][req[p]] /\ moved'[engine[p]] = {}
            BY <3>1, <3>2
        <3>5. Fits(p)'
            BY <3>1, <3>3, <3>4 DEF Fits, Inside
        <3> QED BY <3>5 DEF FittingOf
    <2>3. CASE Finished(p) \/ FallAsleep(p) \/ WakeUp(p) \/ Interrupted(p) \/ TimeOut(p)
        <3>1. pc[p] \in {"check", "sleep"} /\ UNCHANGED <<req, engine, hw, moved>>
            BY <2>3 DEF Finished, FallAsleep, WakeUp, Interrupted, TimeOut, chip
        <3> QED BY <1>1, <3>1, SameFit DEF FittingOf
    <2> QED BY <1>4, <2>1, <2>2, <2>3 DEF Process, Runs
<1>5. ASSUME NEW e \in Engines, Move(e), NEW q \in Procs
      PROVE  FittingOf(q)'
    <2>1. /\ hw[e] # <<>>
          /\ moved' = [moved EXCEPT ![e] = @ \cup EntryWords(Head(hw[e]))]
          /\ hw' = [hw EXCEPT ![e] = Tail(@)]
          /\ UNCHANGED <<pc, req, engine>>
        BY <1>5 DEF Move, call
    <2>2. CASE pc[q] = "user"
        BY <2>1, <2>2 DEF FittingOf
    <2>3. CASE pc[q] # "user" /\ engine[q] # e
        BY <1>1, <1>2, <1>5, <2>3, MoveLeavesOthers, UntouchedStays
    <2>4. CASE engine[q] = e
        <3>1. Fits(q) => Fits(q)'
            <4>1. SUFFICES ASSUME Fits(q) PROVE Fits(q)'
                OBVIOUS
            <4>2. /\ hw[e] \in Seq(Entry)
                  /\ \A y \in moved[e] \cup WordsOf(hw[e]) : InBuffer(y, req[q], Table[q])
                BY <2>4, <4>1 DEF Fits
            <4>3. /\ Tail(hw[e]) \in Seq(Entry)
                  /\ WordsOf(hw[e]) = EntryWords(Head(hw[e])) \cup WordsOf(Tail(hw[e]))
                BY <2>1, <4>2, TailWords
            <4>4. moved'[e] = moved[e] \cup EntryWords(Head(hw[e])) /\ hw'[e] = Tail(hw[e])
                BY <1>2, <2>1, Zenon DEF Base
            <4>5. moved'[e] \cup WordsOf(hw'[e]) = moved[e] \cup WordsOf(hw[e])
                BY <4>3, <4>4
            <4> QED BY <2>1, <2>4, <4>2, <4>3, <4>4, <4>5, Zenon DEF Fits
        <3> QED BY <1>1, <2>1, <3>1 DEF FittingOf
    <2> QED BY <2>2, <2>3, <2>4
<1>6. ASSUME UNCHANGED <<pc, req, engine, hw, moved>>, NEW q \in Procs
      PROVE  FittingOf(q)'
    BY <1>1, <1>6, SameFit DEF FittingOf
<1>7. ASSUME NEW e \in Engines, DmaIrq(e), NEW q \in Procs
      PROVE  FittingOf(q)'
    BY <1>6, <1>7 DEF DmaIrq, call
<1>8. ASSUME NEW v \in BOOLEAN, IrqSet(v), NEW q \in Procs
      PROVE  FittingOf(q)'
    BY <1>6, <1>8 DEF IrqSet, call
<1>9. ASSUME UNCHANGED vars, NEW q \in Procs
      PROVE  FittingOf(q)'
    BY <1>6, <1>9 DEF vars, chip, call
<1> QED BY <1>3, <1>4, <1>5, <1>7, <1>8, <1>9 DEF Next, Fitting

LEMMA MoveInvariant == Spec => []MoveInv
<1>1. Init => MoveInv
    BY DEF Init, MoveInv, EngineType, Asked, Progress, ProgressOf, Fitting, FittingOf
<1>2. Inv /\ MoveInv /\ [Next]_vars => MoveInv'
    <2> SUFFICES ASSUME Inv, MoveInv, [Next]_vars
                 PROVE  MoveInv'
        OBVIOUS
    <2>1. EngineType' /\ Asked'
        BY EngineTypeStep, AskedStep DEF MoveInv, Inv, Ownership
    <2>2. unlucky' = unlucky
        BY DEF Next, Process, Runs, TakeEngine, AllBusy, InitFails, InitDone, Start, Finished,
                    FallAsleep, WakeUp, Cleanup, Interrupted, TimeOut, Move, DmaIrq, IrqSet, vars
    <2>3. Progress'
        BY <2>2, ProgressStep DEF Progress, Lucky
    <2>4. Fitting'
        BY FittingStep
    <2> QED BY <2>1, <2>3, <2>4 DEF MoveInv
<1> QED BY <1>1, <1>2, Invariant, PTL DEF Spec

\* A call that reports success has moved exactly its buffer to its place, for
\* any page table and any size of the pages, of the largest entry and of the
\* buffer (aja.c:892-955, 1069).
THEOREM SuccessMeansMoved == Spec => []SuccessMovedAll
<1>1. MoveInv => SuccessMovedAll
    BY DEF MoveInv, Progress, ProgressOf, Lucky, Arrived, SuccessMovedAll
<1> QED BY <1>1, MoveInvariant, PTL

\* Whatever a buffer's addresses and lengths are, and whatever mishaps end its
\* call, an engine moves no byte from or to any other place (aja.c:892-947).
THEOREM EngineStaysInBuffer == Spec => []OnlyItsBuffer
<1>1. MoveInv => OnlyItsBuffer
    BY DEF MoveInv, Fitting, FittingOf, Fits, OnlyItsBuffer
<1> QED BY <1>1, MoveInvariant, PTL
=============================================================================
