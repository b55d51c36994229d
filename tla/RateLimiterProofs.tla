-------------------------- MODULE RateLimiterProofs --------------------------
(***************************************************************************)
(* Proofs about RateLimiter.  A client's deque holds the last of the stamps *)
(* of what was let through; what it has lost was out of every window, or   *)
(* let through before something that was.                                  *)
(***************************************************************************)
EXTENDS RateLimiter, FiniteSetTheorems, TLAPS

(***************************************************************************)
(* The naturals are well-ordered: the initial segments 1..n are by strict  *)
(* inclusion.                                                              *)
(***************************************************************************)
LEMMA Least ==
    ASSUME NEW S \in SUBSET Nat, S # {}
    PROVE  \E n \in S : \A m \in S : n <= m
<1>. DEFINE T == {1..n : n \in S}
            R == StrictSubsetOrdering(Nat)
<1>1. IsWellFoundedOn(R, FiniteSubsetsOf(Nat))
  BY FS_StrictSubsetOrderingWellFounded
<1>2. \A n \in S : 1..n \in FiniteSubsetsOf(Nat)
  BY FS_Interval DEF FiniteSubsetsOf
<1>3. T \subseteq FiniteSubsetsOf(Nat) /\ T # {}
  BY <1>2
<1>4. \E x \in T : \A y \in T : ~ (<<y, x>> \in R)
  <2>. HIDE DEF T, R
  <2>. QED  BY <1>1, <1>3, WFMin
<1>5. PICK n \in S : \A y \in T : ~ (<<y, 1..n>> \in R)
  BY <1>4
<1>6. ASSUME NEW m \in S, m < n PROVE FALSE
  <2>1. 1..m \subseteq 1..n /\ 1..m # 1..n
    BY <1>6
  <2>2. <<1..m, 1..n>> \in R
    BY <2>1, <1>2 DEF StrictSubsetOrdering
  <2>. QED  BY <2>2, <1>5
<1>. QED  BY <1>6

(***************************************************************************)
(* What pop_front leaves is a suffix that begins with a stamp inside the   *)
(* window, and what it removes is all outside of it.                       *)
(***************************************************************************)
LEMMA InWindowIsSuffix ==
    ASSUME NEW s \in Seq(Int), NEW cutoff \in Int
    PROVE  /\ InWindow(s, cutoff) \in Seq(Int)
           /\ \E k \in 0..Len(s) :
                 /\ Len(InWindow(s, cutoff)) = Len(s) - k
                 /\ \A i \in 1..(Len(s) - k) : InWindow(s, cutoff)[i] = s[i + k]
                 /\ \A i \in 1..k : s[i] < cutoff
                 /\ k < Len(s) => s[k + 1] >= cutoff
<1>. DEFINE I == {i \in 1..Len(s) : s[i] >= cutoff}
            first == SelectInSeq(s, LAMBDA r : r >= cutoff)
<1>1. first = IF I # {} THEN Min(I) ELSE 0
  BY DEF SelectInSeq
<1>2. InWindow(s, cutoff) = IF first = 0 THEN << >> ELSE SubSeq(s, first, Len(s))
  BY DEF InWindow
<1>. HIDE DEF first
<1>3. CASE I = {}
  <2>1. InWindow(s, cutoff) = << >>
    BY <1>1, <1>2, <1>3
  <2>2. \A i \in 1..Len(s) : s[i] < cutoff
    BY <1>3
  <2>. QED  BY <2>1, <2>2
<1>4. CASE I # {}
  <2>1. \E n \in I : \A m \in I : n <= m
    <3>1. I \in SUBSET Nat
      OBVIOUS
    <3>. HIDE DEF I
    <3>. QED  BY <3>1, <1>4, Least
  <2>2. Min(I) \in I /\ \A m \in I : Min(I) <= m
    BY <2>1 DEF Min
  <2>3. first \in I /\ \A m \in I : first <= m
    BY <2>2, <1>1, <1>4
  <2>4. InWindow(s, cutoff) = SubSeq(s, first, Len(s))
    BY <1>2, <2>3
  <2>5. \A i \in 1..(first - 1) : s[i] < cutoff
    <3>1. \A i \in 1..(first - 1) : i \in 1..Len(s) /\ ~ (first <= i)
      BY <2>3
    <3>. QED  BY <3>1, <2>3
  <2>6. /\ InWindow(s, cutoff) \in Seq(Int)
        /\ Len(InWindow(s, cutoff)) = Len(s) - (first - 1)
        /\ \A i \in 1..(Len(s) - (first - 1)) :
              InWindow(s, cutoff)[i] = s[i + (first - 1)]
    BY <2>3, <2>4
  <2>. DEFINE k == first - 1
  <2>7. k \in 0..Len(s) /\ (k < Len(s) => s[k + 1] >= cutoff)
    BY <2>3
  <2>. HIDE DEF k, I
  <2>. QED  BY <2>5, <2>6, <2>7 DEF k
<1>. QED  BY <1>3, <1>4

-----------------------------------------------------------------------------
(* What was let through, and what the deque remembers of it.               *)

\* The numbers among the constants.
LEMMA Numbers == /\ MaxRequests \in Nat \ {0} /\ Window \in Nat \ {0}
                 /\ MaxDelay \in Int /\ 0 <= MaxDelay /\ MaxDelay <= Window
BY RateAssumption

Request == [received : Int, passed : Int]

\* a is what check let through of a client until "time", d its deque: the stamps of
\* the last ones, in the order they were let through.  After each of those it has
\* lost, or at that, there is one received before the window.
Aligned(a, d, time) ==
    /\ a \in Seq(Request) /\ d \in Seq(Int) /\ time \in Int
    /\ Len(d) <= Len(a)
    /\ \A j \in 1..Len(d) : d[j] = a[Len(a) - Len(d) + j].received
    /\ \A i \in 1..(Len(a) - Len(d)) :
          \E k \in i..Len(a) : a[k].received < time - Window
    /\ \A i, j \in 1..Len(a) : i <= j => a[i].passed <= a[j].passed
    /\ \A i \in 1..Len(a) : a[i].received <= a[i].passed /\ a[i].passed <= time

\* A tick leaves them aligned.
LEMMA AlignedTick ==
    ASSUME NEW a, NEW d, NEW time, Aligned(a, d, time)
    PROVE  Aligned(a, d, time + 1)
<1>0. PICK u \in Int : u = time + 1
  BY DEF Aligned
<1>1. /\ a \in Seq(Request) /\ time \in Int /\ time + 1 \in Int /\ time < time + 1
      /\ time - Window < time + 1 - Window /\ Len(a) \in Nat /\ Len(d) \in Nat
  BY Numbers DEF Aligned
<1>2. \A k \in 1..Len(a) : a[k].received \in Int /\ a[k].passed \in Int
  <2>1. \A k \in 1..Len(a) : a[k] \in Request
    BY <1>1
  <2>. QED  BY <2>1 DEF Request
<1>3. ASSUME NEW i \in 1..(Len(a) - Len(d))
      PROVE  \E k \in i..Len(a) : a[k].received < u - Window
  <2>1. PICK k \in i..Len(a) : a[k].received < time - Window
    BY DEF Aligned
  <2>2. a[k].received \in Int
    BY <1>1, <1>2
  <2>3. a[k].received < u - Window
    BY <1>0, <1>1, <2>1, <2>2, Numbers
  <2>. QED  BY <2>3
<1>4. \A i \in 1..Len(a) : a[i].received <= a[i].passed /\ a[i].passed <= u
  BY <1>0, <1>1, <1>2 DEF Aligned
<1>5. /\ d \in Seq(Int) /\ Len(d) <= Len(a)
      /\ \A j \in 1..Len(d) : d[j] = a[Len(a) - Len(d) + j].received
      /\ \A i, j \in 1..Len(a) : i <= j => a[i].passed <= a[j].passed
  BY DEF Aligned
<1>6. \A i \in 1..(Len(a) - Len(d)) :
         \E k \in i..Len(a) : a[k].received < u - Window
  BY <1>3
<1>7. Aligned(a, d, u)
  BY <1>0, <1>1, <1>4, <1>5, <1>6, Zenon DEF Aligned
<1>. QED  BY <1>0, <1>7

\* pop_front with the cutoff of a check leaves them aligned.
LEMMA AlignedPop ==
    ASSUME NEW a, NEW d, NEW time, NEW cutoff \in Int,
           Aligned(a, d, time), cutoff <= time - Window
    PROVE  Aligned(a, InWindow(d, cutoff), time)
<1>. DEFINE e == InWindow(d, cutoff)
<1>1. /\ a \in Seq(Request) /\ d \in Seq(Int) /\ time \in Int
      /\ Len(a) \in Nat /\ Len(d) \in Nat /\ Len(d) <= Len(a)
  BY DEF Aligned
<1>2. PICK m \in 0..Len(d) :
         /\ Len(e) = Len(d) - m
         /\ \A i \in 1..(Len(d) - m) : e[i] = d[i + m]
         /\ \A i \in 1..m : d[i] < cutoff
  BY <1>1, InWindowIsSuffix
<1>3. e \in Seq(Int)
  BY <1>1, InWindowIsSuffix
<1>. HIDE DEF e
<1>4. ASSUME NEW j \in 1..Len(e)
      PROVE  e[j] = a[Len(a) - Len(e) + j].received
  <2>1. j + m \in 1..Len(d) /\ e[j] = d[j + m]
    BY <1>1, <1>2
  <2>2. d[j + m] = a[Len(a) - Len(d) + (j + m)].received
    BY <2>1 DEF Aligned
  <2>3. Len(a) - Len(d) + (j + m) = Len(a) - Len(e) + j
    BY <1>1, <1>2
  <2>. QED  BY <2>1, <2>2, <2>3
<1>5. ASSUME NEW i \in 1..(Len(a) - Len(e))
      PROVE  \E k \in i..Len(a) : a[k].received < time - Window
  <2>1. CASE i \in 1..(Len(a) - Len(d))
    BY <2>1 DEF Aligned
  <2>2. CASE i \notin 1..(Len(a) - Len(d))
    <3>. DEFINE j == i - (Len(a) - Len(d))
    <3>1. j \in 1..m /\ j \in 1..Len(d) /\ i = Len(a) - Len(d) + j /\ i \in i..Len(a)
      BY <1>1, <1>2, <2>2
    <3>. HIDE DEF j
    <3>2. a[i].received = d[j] /\ d[j] < cutoff /\ d[j] \in Int
      BY <1>1, <1>2, <3>1 DEF Aligned
    <3>3. a[i].received < time - Window
      BY <3>2, <1>1, Numbers
    <3>. QED  BY <3>1, <3>3
  <2>. QED  BY <2>1, <2>2
<1>6. Len(e) <= Len(a)
  BY <1>1, <1>2
<1>. QED  BY <1>1, <1>3, <1>4, <1>5, <1>6 DEF Aligned, e

\* So does the removal of a client that the sweep takes for idle, although only the
\* last of its stamps has left the window.
LEMMA AlignedSweep ==
    ASSUME NEW a, NEW d, NEW time, NEW cutoff \in Int,
           Aligned(a, d, time), cutoff <= time - Window, Idle(d, cutoff)
    PROVE  Aligned(a, << >>, time)
<1>1. /\ a \in Seq(Request) /\ d \in Seq(Int) /\ time \in Int
      /\ Len(a) \in Nat /\ Len(d) \in Nat /\ Len(d) <= Len(a)
  BY DEF Aligned
<1>2. ASSUME NEW i \in 1..Len(a)
      PROVE  \E k \in i..Len(a) : a[k].received < time - Window
  <2>1. CASE d = << >>
    BY <1>1, <2>1 DEF Aligned
  <2>2. CASE d # << >>
    <3>1. Len(d) \in 1..Len(d) /\ d[Len(d)] \in Int /\ d[Len(d)] < cutoff
      BY <1>1, <2>2 DEF Idle, Last
    <3>2. Len(a) - Len(d) + Len(d) = Len(a) /\ Len(a) \in i..Len(a)
      BY <1>1
    <3>3. a[Len(a)].received = d[Len(d)]
      BY <3>1, <3>2 DEF Aligned
    <3>4. a[Len(a)].received < time - Window
      BY <3>1, <3>3, <1>1, Numbers
    <3>. QED  BY <3>2, <3>4
  <2>. QED  BY <2>1, <2>2
<1>3. << >> \in Seq(Int) /\ Len(<< >>) = 0
  OBVIOUS
<1>. QED  BY <1>1, <1>2, <1>3 DEF Aligned

\* And the admission of a request.
LEMMA AlignedAppend ==
    ASSUME NEW a, NEW d, NEW time, NEW n \in Int, Aligned(a, d, time), n <= time
    PROVE  Aligned(Append(a, [received |-> n, passed |-> time]), Append(d, n), time)
<1>. DEFINE x == [received |-> n, passed |-> time]
            b == Append(a, x)
            e == Append(d, n)
<1>1. /\ a \in Seq(Request) /\ d \in Seq(Int) /\ time \in Int
      /\ Len(a) \in Nat /\ Len(d) \in Nat /\ Len(d) <= Len(a)
  BY DEF Aligned
<1>2. x \in Request /\ x.received = n /\ x.passed = time
  BY <1>1 DEF Request
<1>. HIDE DEF x
<1>3. /\ b \in Seq(Request) /\ Len(b) = Len(a) + 1 /\ b[Len(a) + 1] = x
      /\ \A i \in 1..Len(a) : b[i] = a[i]
  BY <1>1, <1>2
<1>4. /\ e \in Seq(Int) /\ Len(e) = Len(d) + 1 /\ e[Len(d) + 1] = n
      /\ \A j \in 1..Len(d) : e[j] = d[j]
  BY <1>1
<1>. HIDE DEF b, e
<1>5. Len(b) - Len(e) = Len(a) - Len(d) /\ Len(e) <= Len(b)
  BY <1>1, <1>3, <1>4
<1>6. ASSUME NEW j \in 1..Len(e)
      PROVE  e[j] = b[Len(b) - Len(e) + j].received
  <2>1. CASE j = Len(d) + 1
    <3>1. Len(b) - Len(e) + j = Len(a) + 1
      BY <2>1, <1>1, <1>5
    <3>. QED  BY <2>1, <3>1, <1>2, <1>3, <1>4
  <2>2. CASE j # Len(d) + 1
    <3>1. j \in 1..Len(d) /\ Len(a) - Len(d) + j \in 1..Len(a)
      BY <2>2, <1>1, <1>4
    <3>2. e[j] = a[Len(a) - Len(d) + j].received
      BY <3>1, <1>4 DEF Aligned
    <3>3. b[Len(a) - Len(d) + j] = a[Len(a) - Len(d) + j]
      BY <3>1, <1>3
    <3>. QED  BY <3>2, <3>3, <1>5
  <2>. QED  BY <2>1, <2>2
<1>7. ASSUME NEW i \in 1..(Len(b) - Len(e))
      PROVE  \E k \in i..Len(b) : b[k].received < time - Window
  <2>1. PICK k \in i..Len(a) : a[k].received < time - Window
    BY <1>5 DEF Aligned
  <2>2. k \in i..Len(b) /\ k \in 1..Len(a)
    BY <1>1, <1>3, <1>5
  <2>. QED  BY <2>1, <2>2, <1>3
<1>8. ASSUME NEW i \in 1..Len(b)
      PROVE  b[i].received <= b[i].passed /\ b[i].passed <= time
  <2>1. i \in 1..Len(a) \/ i = Len(a) + 1
    BY <1>1, <1>3
  <2>. QED  BY <2>1, <1>1, <1>2, <1>3 DEF Aligned
<1>9. ASSUME NEW i \in 1..Len(b), NEW j \in 1..Len(b), i <= j
      PROVE  b[i].passed <= b[j].passed
  <2>1. CASE j = Len(a) + 1
    BY <1>8, <1>2, <1>3, <2>1
  <2>2. CASE j # Len(a) + 1
    <3>1. i \in 1..Len(a) /\ j \in 1..Len(a)
      BY <1>1, <1>3, <1>9, <2>2
    <3>. QED  BY <3>1, <1>3, <1>9 DEF Aligned
  <2>. QED  BY <2>1, <2>2
<1>10. Aligned(b, e, time)
  BY <1>1, <1>3, <1>4, <1>5, <1>6, <1>7, <1>8, <1>9 DEF Aligned
<1>. QED  BY <1>10 DEF b, e, x

-----------------------------------------------------------------------------
(* The inductive invariant.                                                *)

TypeOK == /\ clock \in Nat /\ last_sweep \in Nat \cup {Unset}
          /\ DOMAIN clients \subseteq Peers
          /\ \A p \in DOMAIN clients : clients[p] \in Seq(Int)
          /\ pc \in [Threads -> {"idle", "waits"}]
          /\ ip \in [Threads -> Peers \cup {NoHeader}]
          /\ now \in [Threads -> Nat]
          /\ admitted \in [Peers -> Seq(Request)] /\ exempted \subseteq Peers
          /\ refused \in BOOLEAN

\* What the code remembers of a client, which may be nothing.
Deque(p) == IF p \in DOMAIN clients THEN clients[p] ELSE << >>

\* A request that waits read the clock at most MaxDelay before.
Waiting == \A t \in Threads :
              pc[t] = "waits" => /\ ip[t] \in Peers
                                 /\ clock - MaxDelay <= now[t] /\ now[t] <= clock

AllAligned == \A p \in Peers : Aligned(admitted[p], Deque(p), clock)

\* What the last sweep left, and what came since, was in its window or later.
Swept == /\ \A p \in DOMAIN clients : clients[p] # << >>
         /\ last_sweep <= clock
         /\ last_sweep = Unset => DOMAIN clients = {}
         /\ last_sweep # Unset =>
               \A p \in DOMAIN clients : Last(clients[p]) >= last_sweep - Window

AllWithinLimit == \A p \in Peers : WithinLimit(p)

Inv == TypeOK /\ Waiting /\ AllAligned /\ Swept /\ AllWithinLimit

LEMMA InitInv == Init => Inv
<1>. SUFFICES ASSUME Init PROVE Inv
  OBVIOUS
<1>1. TypeOK
  <2>1. /\ pc \in [Threads -> {"idle", "waits"}]
        /\ ip \in [Threads -> Peers \cup {NoHeader}]
        /\ now \in [Threads -> Nat]
        /\ admitted \in [Peers -> Seq(Request)] /\ exempted \subseteq Peers
    BY DEF Init
  <2>2. clock \in Nat /\ last_sweep \in Nat \cup {Unset} /\ DOMAIN clients = {}
    BY DEF Init, Unset
  <2>3. refused \in BOOLEAN
    BY DEF Init
  <2>. QED  BY <2>1, <2>2, <2>3 DEF TypeOK
<1>2. Waiting
  BY DEF Init, Waiting
<1>3. AllAligned
  BY DEF Init, AllAligned, Aligned, Deque
<1>4. Swept
  BY DEF Init, Swept, Unset
<1>5. AllWithinLimit
  BY DEF Init, AllWithinLimit, WithinLimit
<1>. QED  BY <1>1, <1>2, <1>3, <1>4, <1>5 DEF Inv

LEMMA TickInv == Inv /\ Tick => Inv'
<1>. SUFFICES ASSUME Inv, Tick PROVE Inv'
  OBVIOUS
<1>1. /\ clock' = clock + 1 /\ clock \in Nat
      /\ UNCHANGED <<clients, last_sweep, pc, ip, now, admitted, exempted, refused>>
  BY DEF Tick, Inv, TypeOK
<1>2. TypeOK'
  BY <1>1 DEF Inv, TypeOK, Unset
<1>3. Waiting'
  <2>. SUFFICES ASSUME NEW t \in Threads, pc[t] = "waits"
                PROVE  ip[t] \in Peers /\ clock' - MaxDelay <= now[t] /\ now[t] <= clock'
    BY <1>1 DEF Waiting
  <2>1. ip[t] \in Peers /\ now[t] <= clock /\ now[t] \in Int
    BY DEF Inv, Waiting, TypeOK
  <2>2. clock - now[t] < MaxDelay
    BY DEF Tick
  <2>. QED  BY <2>1, <2>2, <1>1, Numbers
<1>4. AllAligned'
  <2>. SUFFICES ASSUME NEW p \in Peers PROVE Aligned(admitted[p], Deque(p), clock + 1)
    BY <1>1 DEF AllAligned, Deque
  <2>. QED  BY AlignedTick DEF Inv, AllAligned
<1>5. Swept'
  <2>1. last_sweep <= clock'
    BY <1>1 DEF Inv, Swept, TypeOK, Unset
  <2>. QED  BY <2>1, <1>1 DEF Inv, Swept
<1>6. AllWithinLimit'
  BY <1>1 DEF Inv, AllWithinLimit, WithinLimit
<1>. QED  BY <1>2, <1>3, <1>4, <1>5, <1>6 DEF Inv

LEMMA LetThroughInv == Inv /\ LetThrough => Inv'
<1>. SUFFICES ASSUME Inv, LetThrough PROVE Inv'
  OBVIOUS
<1>1. PICK peer \in Loopback, forwarded \in Peers \cup {NoHeader} :
         exempted' = exempted \cup {ClientIp(peer, forwarded)}
  BY DEF LetThrough
<1>2. ClientIp(peer, forwarded) \in Peers
  BY RateAssumption DEF ClientIp
<1>3. UNCHANGED <<clock, clients, last_sweep, pc, ip, now, admitted, refused>>
  BY DEF LetThrough
<1>4. TypeOK'
  BY <1>1, <1>2, <1>3 DEF Inv, TypeOK
<1>. QED  BY <1>3, <1>4 DEF Inv, Waiting, AllAligned, Deque, Swept, AllWithinLimit, WithinLimit

LEMMA EnterInv == ASSUME NEW t \in Threads PROVE Inv /\ Enter(t) => Inv'
<1>. SUFFICES ASSUME Inv, Enter(t) PROVE Inv'
  OBVIOUS
<1>1. PICK peer \in Peers \ Loopback, forwarded \in Peers \cup {NoHeader} :
         ip' = [ip EXCEPT ![t] = ClientIp(peer, forwarded)]
  BY DEF Enter
<1>2. ClientIp(peer, forwarded) \in Peers
  BY DEF ClientIp
<1>3. /\ pc' = [pc EXCEPT ![t] = "waits"] /\ now' = [now EXCEPT ![t] = clock]
      /\ UNCHANGED <<clock, clients, last_sweep, admitted, exempted, refused>>
  BY DEF Enter
<1>4. TypeOK'
  BY <1>1, <1>2, <1>3 DEF Inv, TypeOK
<1>5. Waiting'
  <2>. SUFFICES ASSUME NEW u \in Threads, pc'[u] = "waits"
                PROVE  ip'[u] \in Peers /\ clock - MaxDelay <= now'[u] /\ now'[u] <= clock
    BY <1>3 DEF Waiting
  <2>1. CASE u = t
    BY <1>1, <1>2, <1>3, <2>1, Numbers DEF Inv, TypeOK
  <2>2. CASE u # t
    BY <1>1, <1>3, <2>2 DEF Inv, TypeOK, Waiting
  <2>. QED  BY <2>1, <2>2
<1>. QED  BY <1>3, <1>4, <1>5 DEF Inv, AllAligned, Deque, Swept, AllWithinLimit, WithinLimit

-----------------------------------------------------------------------------
(* The check.                                                              *)

\* pop_front keeps the newest stamp, unless it keeps none.
LEMMA InWindowLast ==
    ASSUME NEW s \in Seq(Int), NEW cutoff \in Int, InWindow(s, cutoff) # << >>
    PROVE  /\ s # << >> /\ Last(InWindow(s, cutoff)) = Last(s)
           /\ InWindow(s, cutoff)[1] >= cutoff
<1>. DEFINE e == InWindow(s, cutoff)
<1>1. e \in Seq(Int) /\ e # << >>
  BY InWindowIsSuffix
<1>2. PICK k \in 0..Len(s) :
         /\ Len(e) = Len(s) - k
         /\ \A i \in 1..(Len(s) - k) : e[i] = s[i + k]
         /\ k < Len(s) => s[k + 1] >= cutoff
  BY InWindowIsSuffix
<1>. HIDE DEF e
<1>3. Len(e) \in 1..Len(s) /\ Len(s) \in Nat
  BY <1>1, <1>2
<1>4. e[1] = s[1 + k] /\ k < Len(s)
  BY <1>2, <1>3
<1>5. e[Len(e)] = s[Len(s)]
  <2>1. Len(e) \in 1..(Len(s) - k) /\ Len(e) + k = Len(s)
    BY <1>2, <1>3
  <2>2. e[Len(e)] = s[Len(e) + k]
    BY <1>2, <2>1
  <2>. QED  BY <2>1, <2>2
<1>. QED  BY <1>2, <1>3, <1>4, <1>5 DEF Last, e

\* Records with one for p, in which no other deque is empty and every deque belongs
\* to what was let through of its client.
Consistent(records, p) ==
    /\ DOMAIN records \subseteq Peers /\ p \in DOMAIN records
    /\ \A q \in DOMAIN records : /\ records[q] \in Seq(Int)
                                 /\ q # p => records[q] # << >>
    /\ \A q \in Peers :
          Aligned(admitted[q], IF q \in DOMAIN records THEN records[q] ELSE << >>, clock)

\* The sweep and the look-up of the client's record leave what every client
\* let through aligned with its deque, and no deque but the client's own empty.
LEMMA RecordsAreAligned ==
    ASSUME Inv, NEW p \in Peers, NEW n \in Nat, clock - MaxDelay <= n, n <= clock,
           NEW records, records = Records(p, n)
    PROVE  Consistent(records, p)
<1>. DEFINE kept == IF SweepDue(n) THEN Kept(n - Window) ELSE DOMAIN clients
<1>1. kept \subseteq DOMAIN clients
  BY DEF Kept
<1>2. records = [q \in kept \cup {p} |-> IF q \in kept THEN clients[q] ELSE << >>]
  BY DEF Records
<1>3. \A q \in (DOMAIN clients) \ kept : Idle(clients[q], n - Window)
  BY DEF Kept
<1>. HIDE DEF kept
<1>4. DOMAIN clients \subseteq Peers /\ \A q \in DOMAIN clients : clients[q] \in Seq(Int)
  BY DEF Inv, TypeOK
<1>5. \A q \in DOMAIN clients : clients[q] # << >>
  BY DEF Inv, Swept
<1>6. ASSUME NEW q \in Peers
      PROVE  Aligned(admitted[q], IF q \in DOMAIN records THEN records[q] ELSE << >>, clock)
  <2>. DEFINE d == IF q \in DOMAIN records THEN records[q] ELSE << >>
  <2>1. Aligned(admitted[q], Deque(q), clock)
    BY DEF Inv, AllAligned
  <2>2. CASE q \in kept
    <3>1. d = Deque(q)
      BY <2>2, <1>1, <1>2 DEF Deque
    <3>. QED  BY <2>1, <3>1
  <2>3. CASE q \notin kept
    <3>1. d = << >>
      BY <2>3, <1>2
    <3>2. CASE q \in DOMAIN clients
      <4>1. Idle(Deque(q), n - Window)
        BY <2>3, <3>2, <1>3 DEF Deque
      <4>2. n - Window \in Int /\ n - Window <= clock - Window
        BY Numbers DEF Inv, TypeOK
      <4>3. Aligned(admitted[q], << >>, clock)
        <5>. HIDE DEF d
        <5>. QED  BY <2>1, <4>1, <4>2, AlignedSweep
      <4>. QED  BY <3>1, <4>3
    <3>3. CASE q \notin DOMAIN clients
      BY <2>1, <3>1, <3>3 DEF Deque
    <3>. QED  BY <3>2, <3>3
  <2>. QED  BY <2>2, <2>3
<1>7. DOMAIN records = kept \cup {p} /\ DOMAIN records \subseteq Peers
  BY <1>1, <1>2, <1>4
<1>8. ASSUME NEW q \in DOMAIN records
      PROVE  records[q] \in Seq(Int) /\ (q # p => records[q] # << >>)
  <2>1. CASE q \in kept
    BY <2>1, <1>1, <1>2, <1>4, <1>5
  <2>2. CASE q \notin kept
    BY <2>2, <1>2, <1>7
  <2>. QED  BY <2>1, <2>2
<1>9. p \in DOMAIN records
  BY <1>7
<1>. QED  BY <1>6, <1>7, <1>8, <1>9 DEF Consistent

\* No deque of the records ends before "time".
EndsFrom(records, time) ==
    \A q \in DOMAIN records : records[q] # << >> => Last(records[q]) >= time

\* After a sweep, and between two of them, no deque ends before the window of the
\* last sweep, which is recent.
LEMMA RecordsAreSwept ==
    ASSUME Inv, NEW p \in Peers, NEW n \in Nat, clock - MaxDelay <= n, n <= clock,
           NEW records, records = Records(p, n),
           NEW swept, swept = IF SweepDue(n) THEN n ELSE last_sweep
    PROVE  /\ swept \in Nat /\ swept <= clock /\ swept - Window <= n /\ n - Window < swept
           /\ EndsFrom(records, swept - Window)
<1>0. clock \in Nat /\ last_sweep \in Nat \cup {Unset} /\ Unset = -1
  BY DEF Inv, TypeOK, Unset
<1>1. \A q \in DOMAIN clients : clients[q] \in Seq(Int)
  BY DEF Inv, TypeOK
<1>2. CASE SweepDue(n)
  <2>1. swept = n
    BY <1>2
  <2>2. ASSUME NEW q \in DOMAIN records, records[q] # << >>
        PROVE  Last(records[q]) >= n - Window
    <3>1. q \in DOMAIN clients /\ records[q] = clients[q] /\ ~ Idle(clients[q], n - Window)
      BY <1>2, <2>2 DEF Records, Kept
    <3>2. clients[q] \in Seq(Int) /\ clients[q] # << >> /\ Last(clients[q]) \in Int
      BY <1>1, <2>2, <3>1 DEF Last
    <3>3. ~ (Last(clients[q]) < n - Window)
      BY <3>1 DEF Idle
    <3>. QED  BY <3>1, <3>2, <3>3, Numbers
  <2>. QED  BY <2>1, <2>2, <1>0, Numbers DEF EndsFrom
<1>3. CASE ~ SweepDue(n)
  <2>1. swept = last_sweep /\ last_sweep # Unset /\ ~ (n - last_sweep >= Window)
    BY <1>3 DEF SweepDue
  <2>2. last_sweep \in Nat /\ last_sweep <= clock
    BY <2>1, <1>0 DEF Inv, Swept
  <2>3. ASSUME NEW q \in DOMAIN records, records[q] # << >>
        PROVE  Last(records[q]) >= last_sweep - Window
    <3>1. q \in DOMAIN clients /\ records[q] = clients[q]
      BY <1>3, <2>3 DEF Records
    <3>. QED  BY <3>1, <2>1 DEF Inv, Swept
  <2>. QED  BY <2>1, <2>2, <2>3, <1>0, Numbers DEF EndsFrom
<1>. QED  BY <1>2, <1>3

\* What a check starts from: the facts above, for the client and the deque at hand.
LEMMA CheckFacts ==
    ASSUME Inv, NEW t \in Threads, Check(t),
           NEW p, p = ip[t], NEW n, n = now[t],
           NEW records, records = Records(p, n),
           NEW stamps, stamps = InWindow(records[p], n - Window)
    PROVE  /\ p \in Peers /\ n \in Nat /\ clock \in Nat
           /\ clock - MaxDelay <= n /\ n <= clock
           /\ Consistent(records, p)
           /\ last_sweep' \in Nat /\ last_sweep' <= clock
           /\ last_sweep' - Window <= n /\ n - Window < last_sweep'
           /\ EndsFrom(records, last_sweep' - Window)
           /\ stamps \in Seq(Int) /\ Aligned(admitted[p], stamps, clock)
           /\ stamps # << >> => /\ records[p] # << >> /\ Last(stamps) = Last(records[p])
                                /\ stamps[1] >= n - Window
<1>1. /\ p \in Peers /\ n \in Nat /\ clock \in Nat
      /\ clock - MaxDelay <= n /\ n <= clock
  BY DEF Check, Inv, TypeOK, Waiting
<1>2. Consistent(records, p)
  BY <1>1, RecordsAreAligned
<1>3. last_sweep' = IF SweepDue(n) THEN n ELSE last_sweep
  BY DEF Check
<1>4. /\ last_sweep' \in Nat /\ last_sweep' <= clock
      /\ last_sweep' - Window <= n /\ n - Window < last_sweep'
      /\ EndsFrom(records, last_sweep' - Window)
  BY <1>1, <1>3, RecordsAreSwept
<1>5. n - Window \in Int /\ n - Window <= clock - Window
  BY <1>1, Numbers
<1>6. records[p] \in Seq(Int) /\ Aligned(admitted[p], records[p], clock)
  BY <1>1, <1>2 DEF Consistent
<1>7. stamps \in Seq(Int)
  BY <1>5, <1>6, InWindowIsSuffix
<1>8. Aligned(admitted[p], stamps, clock)
  BY <1>5, <1>6, AlignedPop
<1>9. stamps # << >> => /\ records[p] # << >> /\ Last(stamps) = Last(records[p])
                        /\ stamps[1] >= n - Window
  BY <1>5, <1>6, InWindowLast
<1>. QED  BY <1>1, <1>2, <1>4, <1>7, <1>8, <1>9

LEMMA CheckInv == ASSUME NEW t \in Threads PROVE Inv /\ Check(t) => Inv'
<1>. SUFFICES ASSUME Inv, Check(t) PROVE Inv'
  OBVIOUS
<1>. DEFINE p       == ip[t]
            n       == now[t]
            records == Records(p, n)
            stamps  == InWindow(records[p], n - Window)
            deque   == IF Full(stamps) THEN stamps ELSE Append(stamps, n)
            past    == IF Full(stamps) THEN admitted[p]
                       ELSE Append(admitted[p], [received |-> n, passed |-> clock])
<1>1. /\ p \in Peers /\ n \in Nat /\ clock \in Nat
      /\ clock - MaxDelay <= n /\ n <= clock
  BY CheckFacts
<1>2. Consistent(records, p)
  BY CheckFacts
<1>3. /\ last_sweep' \in Nat /\ last_sweep' <= clock /\ last_sweep' - Window <= n
      /\ EndsFrom(records, last_sweep' - Window)
  BY CheckFacts
<1>4. /\ stamps \in Seq(Int) /\ Aligned(admitted[p], stamps, clock)
      /\ stamps # << >> => records[p] # << >> /\ Last(stamps) = Last(records[p])
  BY CheckFacts
<1>5. /\ clients' = [records EXCEPT ![p] = deque]
      /\ admitted' = [admitted EXCEPT ![p] = past]
  <2>1. \/ /\ Full(stamps) /\ clients' = [records EXCEPT ![p] = stamps]
           /\ admitted' = admitted
        \/ /\ ~ Full(stamps) /\ clients' = [records EXCEPT ![p] = Append(stamps, n)]
           /\ admitted' = [admitted EXCEPT ![p] =
                              Append(@, [received |-> n, passed |-> clock])]
    BY DEF Check
  <2>2. admitted = [admitted EXCEPT ![p] = admitted[p]]
    BY DEF Inv, TypeOK
  <2>. QED  BY <2>1, <2>2, Zenon
<1>6. /\ pc' = [pc EXCEPT ![t] = "idle"] /\ ip' = [ip EXCEPT ![t] = NoHeader]
      /\ now' = [now EXCEPT ![t] = 0] /\ clock' = clock /\ exempted' = exempted
      /\ refused' = Full(stamps)
  BY DEF Check
<1>7. /\ deque \in Seq(Int) /\ deque # << >>
      /\ Last(deque) = n \/ (stamps # << >> /\ Last(deque) = Last(stamps))
  <2>1. CASE Full(stamps)
    BY <2>1, <1>4, Numbers DEF Full
  <2>2. CASE ~ Full(stamps)
    <3>1. deque = Append(stamps, n)
      BY <2>2
    <3>. HIDE DEF deque, stamps, n
    <3>2. /\ deque \in Seq(Int) /\ Len(deque) = Len(stamps) + 1
          /\ deque[Len(stamps) + 1] = n /\ Len(stamps) \in Nat
      BY <3>1, <1>1, <1>4
    <3>. QED  BY <3>2 DEF Last
  <2>. QED  BY <2>1, <2>2
<1>8. Aligned(past, deque, clock)
  <2>1. CASE Full(stamps)
    BY <2>1, <1>4
  <2>2. CASE ~ Full(stamps)
    <3>1. n \in Int
      BY <1>1
    <3>. HIDE DEF n, stamps, p
    <3>. QED  BY <2>2, <3>1, <1>1, <1>4, AlignedAppend
  <2>. QED  BY <2>1, <2>2
<1>. HIDE DEF p, n, records, stamps, deque, past
<1>9. /\ DOMAIN clients' = DOMAIN records /\ clients'[p] = deque
      /\ \A q \in DOMAIN records : q # p => clients'[q] = records[q]
  BY <1>2, <1>5 DEF Consistent
<1>10. /\ admitted'[p] = past
       /\ \A q \in Peers : q # p => admitted'[q] = admitted[q]
  BY <1>1, <1>5 DEF Inv, TypeOK
<1>11. past \in Seq(Request)
  BY <1>8 DEF Aligned
<1>12. TypeOK'
  <2>1. admitted' \in [Peers -> Seq(Request)] /\ exempted' \subseteq Peers
    BY <1>1, <1>5, <1>6, <1>11 DEF Inv, TypeOK
  <2>2. /\ pc' \in [Threads -> {"idle", "waits"}]
        /\ ip' \in [Threads -> Peers \cup {NoHeader}]
        /\ now' \in [Threads -> Nat]
    BY <1>6 DEF Inv, TypeOK
  <2>3. \A q \in DOMAIN clients' : clients'[q] \in Seq(Int)
    BY <1>2, <1>7, <1>9 DEF Consistent
  <2>4. refused' \in BOOLEAN
    BY <1>6 DEF Full
  <2>. QED  BY <2>1, <2>2, <2>3, <2>4, <1>1, <1>2, <1>3, <1>6, <1>9 DEF TypeOK, Consistent
<1>13. Waiting'
  <2>. SUFFICES ASSUME NEW u \in Threads, pc'[u] = "waits"
                PROVE  /\ ip'[u] \in Peers /\ clock - MaxDelay <= now'[u]
                       /\ now'[u] <= clock
    BY <1>6 DEF Waiting
  <2>. QED  BY <1>6 DEF Inv, TypeOK, Waiting
<1>14. AllAligned'
  <2>. SUFFICES ASSUME NEW q \in Peers PROVE Aligned(admitted'[q], Deque(q)', clock)
    BY <1>6 DEF AllAligned
  <2>1. CASE q = p
    <3>1. Deque(q)' = deque
      BY <2>1, <1>2, <1>9 DEF Deque, Consistent
    <3>. QED  BY <2>1, <3>1, <1>8, <1>10
  <2>2. CASE q # p
    <3>1. Deque(q)' = IF q \in DOMAIN records THEN records[q] ELSE << >>
      BY <2>2, <1>9 DEF Deque
    <3>. QED  BY <2>2, <3>1, <1>2, <1>10 DEF Consistent
  <2>. QED  BY <2>1, <2>2
<1>15. Swept'
  <2>1. \A q \in DOMAIN clients' : clients'[q] # << >>
    BY <1>2, <1>7, <1>9 DEF Consistent
  <2>2. ASSUME NEW q \in DOMAIN clients' PROVE Last(clients'[q]) >= last_sweep' - Window
    <3>1. CASE q = p
      <4>1. CASE Last(deque) = n
        BY <3>1, <4>1, <1>1, <1>3, <1>9, Numbers
      <4>2. CASE stamps # << >> /\ Last(deque) = Last(stamps)
        BY <3>1, <4>2, <1>2, <1>3, <1>4, <1>9 DEF EndsFrom, Consistent
      <4>. QED  BY <4>1, <4>2, <1>7
    <3>2. CASE q # p
      BY <3>2, <1>2, <1>3, <1>9 DEF EndsFrom, Consistent
    <3>. QED  BY <3>1, <3>2
  <2>3. last_sweep' # Unset
    BY <1>3 DEF Unset
  <2>. QED  BY <2>1, <2>2, <2>3, <1>3, <1>6 DEF Swept
<1>16. AllWithinLimit'
  <2>. SUFFICES ASSUME NEW q \in Peers, NEW i \in DOMAIN admitted'[q],
                       NEW j \in DOMAIN admitted'[q], j - i >= MaxRequests
                PROVE  \E k \in i..j :
                          admitted'[q][k].received < admitted'[q][j].passed - Window
    BY DEF AllWithinLimit, WithinLimit
  <2>1. CASE admitted'[q] = admitted[q]
    BY <2>1 DEF Inv, AllWithinLimit, WithinLimit
  <2>2. CASE q = p /\ ~ Full(stamps)
    <3>. DEFINE a == admitted[p]
                x == [received |-> n, passed |-> clock]
    <3>1. a \in Seq(Request) /\ admitted'[q] = Append(a, x)
      BY <2>2, <1>1, <1>10 DEF Inv, TypeOK, past
    <3>2. x \in Request /\ x.passed = clock
      BY <1>1 DEF Request
    <3>. HIDE DEF a, x
    <3>3. /\ Len(a) \in Nat /\ i \in 1..(Len(a) + 1) /\ j \in 1..(Len(a) + 1)
          /\ i \in 1..Len(a) /\ i < j
          /\ \A k \in 1..Len(a) : admitted'[q][k] = a[k]
          /\ admitted'[q][Len(a) + 1] = x
      BY <3>1, <3>2, Numbers
    <3>4. CASE j \in 1..Len(a)
      <4>1. i \in DOMAIN a /\ j \in DOMAIN a
        BY <3>1, <3>3, <3>4
      <4>2. PICK k \in i..j : a[k].received < a[j].passed - Window
        BY <4>1, <1>1 DEF Inv, AllWithinLimit, WithinLimit, a
      <4>3. k \in 1..Len(a)
        BY <3>3, <3>4
      <4>. QED  BY <4>2, <4>3, <3>3, <3>4
    <3>5. CASE j \notin 1..Len(a)
      <4>1. j = Len(a) + 1
        BY <3>3, <3>5
      <4>2. Len(stamps) \in Nat /\ Len(stamps) < MaxRequests
        BY <2>2, <1>4, Numbers DEF Full
      <4>3. i \in 1..(Len(a) - Len(stamps))
        BY <3>3, <4>1, <4>2, Numbers
      <4>4. PICK k \in i..Len(a) : a[k].received < clock - Window
        BY <4>3, <1>4 DEF Aligned, a
      <4>5. k \in 1..Len(a) /\ k \in i..j
        BY <3>3, <4>1
      <4>. QED  BY <4>1, <4>4, <4>5, <3>2, <3>3
    <3>. QED  BY <3>4, <3>5
  <2>3. admitted'[q] = admitted[q] \/ (q = p /\ ~ Full(stamps))
    BY <1>10 DEF past
  <2>. QED  BY <2>1, <2>2, <2>3
<1>. QED  BY <1>12, <1>13, <1>14, <1>15, <1>16 DEF Inv

-----------------------------------------------------------------------------
(* The theorems.                                                           *)

LEMMA StepInv == Inv /\ [Next]_vars => Inv'
<1>1. ASSUME Inv, UNCHANGED vars PROVE Inv'
  BY <1>1 DEF Inv, vars, TypeOK, Waiting, AllAligned, Deque, Swept, AllWithinLimit,
                 WithinLimit
<1>. QED  BY <1>1, TickInv, LetThroughInv, EnterInv, CheckInv DEF Next

LEMMA Invariance == Spec => []Inv
BY InitInv, StepInv, PTL DEF Spec

\* The clients' records are deques of times, of known addresses, and a waiting
\* request has an address and the time it arrived (check's arguments).
THEOREM TypeCorrect == Spec => []TypeOK
<1>1. Inv => TypeOK
  BY DEF Inv
<1>. QED  BY <1>1, Invariance, PTL

\* The limit of check, whoever the requests come from: whatever order stamps enter
\* the deque in and whenever the sweep removes a client's record, a client has never
\* more than MaxRequests in a row received and let through by check in one window.
THEOREM CheckLimits == Spec => []AllWithinLimit
<1>1. Inv => AllWithinLimit
  BY DEF Inv
<1>. QED  BY <1>1, Invariance, PTL

\* So it holds for all the requests of a client, as long as none of them came over
\* the loopback interface, where doFilter lets them through without check.
THEOREM LimitHolds == Spec => []NeverTooMany
<1>1. AllWithinLimit => NeverTooMany
  BY DEF AllWithinLimit, NeverTooMany
<1>. QED  BY <1>1, CheckLimits, PTL

LEMMA RefusalStep ==
    ASSUME Inv, NEW t \in Threads, Check(t), refused'
    PROVE  LET past == admitted[ip[t]]
           IN  /\ Len(past) >= MaxRequests
               /\ \A i \in (Len(past) - MaxRequests + 1)..Len(past) :
                     past[i].passed >= now[t] - Window
<1>. DEFINE p       == ip[t]
            n       == now[t]
            records == Records(p, n)
            stamps  == InWindow(records[p], n - Window)
            past    == admitted[p]
<1>1. /\ n \in Nat /\ clock \in Nat /\ clock - MaxDelay <= n
      /\ stamps \in Seq(Int) /\ Aligned(past, stamps, clock)
      /\ stamps # << >> => stamps[1] >= n - Window
  BY CheckFacts
<1>2. Full(stamps)
  BY DEF Check
<1>. HIDE DEF n, records, stamps
<1>3. /\ Len(stamps) \in Nat /\ Len(stamps) >= MaxRequests /\ 1 \in 1..Len(stamps)
      /\ stamps[1] >= n - Window /\ stamps[1] \in Int
  BY <1>1, <1>2, Numbers DEF Full
<1>4. past \in Seq(Request) /\ Len(past) \in Nat /\ Len(past) >= Len(stamps)
  BY <1>1, <1>3 DEF Aligned
<1>5. \A i \in 1..Len(past) : past[i].received \in Int /\ past[i].passed \in Int
  <2>1. \A i \in 1..Len(past) : past[i] \in Request
    BY <1>4
  <2>. QED  BY <2>1 DEF Request
<1>6. ASSUME NEW i \in (Len(past) - MaxRequests + 1)..Len(past)
      PROVE  past[i].passed >= n - Window
  <2>. DEFINE first == Len(past) - Len(stamps) + 1
  <2>1. first \in 1..Len(past) /\ i \in 1..Len(past) /\ first <= i
    BY <1>3, <1>4, Numbers
  <2>2. stamps[1] = past[first].received
    BY <1>1, <1>3 DEF Aligned
  <2>. HIDE DEF first
  <2>3. past[first].received <= past[first].passed /\ past[first].passed <= past[i].passed
    BY <2>1, <1>1 DEF Aligned
  <2>4. n - Window \in Int
    BY <1>1, Numbers
  <2>. QED  BY <2>1, <2>2, <2>3, <2>4, <1>3, <1>5
<1>7. Len(past) >= MaxRequests
  BY <1>3, <1>4, Numbers
<1>. QED  BY <1>6, <1>7 DEF n

\* Nobody is refused without cause: when check says no, MaxRequests requests of
\* the client were let through since its window began, although the deque holds
\* stamps in the wrong order and the sweep forgets.
THEOREM RefusalsAreDue == Spec => RefusesOnlyFull
<1>1. Inv /\ [Next]_vars =>
         [\A t \in Threads :
             pc[t] = "waits" /\ pc'[t] = "idle" /\ refused' =>
                LET past == admitted[ip[t]]
                IN  /\ Len(past) >= MaxRequests
                    /\ \A i \in (Len(past) - MaxRequests + 1)..Len(past) :
                           past[i].passed >= now[t] - Window]_vars
  <2>. SUFFICES ASSUME Inv, Next, NEW t \in Threads,
                       pc[t] = "waits", pc'[t] = "idle", refused'
                PROVE  LET past == admitted[ip[t]]
                       IN  /\ Len(past) >= MaxRequests
                           /\ \A i \in (Len(past) - MaxRequests + 1)..Len(past) :
                                 past[i].passed >= now[t] - Window
    BY Zenon
  <2>1. Check(t)
    BY DEF Next, Tick, LetThrough, Enter, Check, Inv, TypeOK
  <2>. QED  BY <2>1, RefusalStep
<1>. QED  BY <1>1, Invariance, PTL DEF Spec, RefusesOnlyFull

LEMMA CheckDropsIdle ==
    ASSUME Inv, NEW t \in Threads, Check(t), NEW q \in DOMAIN clients'
    PROVE  Last(clients'[q]) > now[t] - 2 * Window
<1>. DEFINE n == now[t]
<1>1. n \in Nat /\ n - Window < last_sweep' /\ last_sweep' \in Nat
  BY CheckFacts
<1>2. Inv'
  BY CheckInv
<1>3. Last(clients'[q]) >= last_sweep' - Window
  BY <1>1, <1>2 DEF Inv, Swept, Unset
<1>4. Last(clients'[q]) \in Int
  BY <1>2 DEF Inv, TypeOK, Swept, Last
<1>. QED  BY <1>1, <1>3, <1>4, Numbers

\* The map of clients stays small: after a check it holds no client whose last
\* request is two windows old.
THEOREM IdleClientsAreDropped == Spec => IdleClientsGo
<1>1. Inv /\ [Next]_vars =>
         [\A t \in Threads :
             pc[t] = "waits" /\ pc'[t] = "idle" =>
                \A p \in DOMAIN clients' : Last(clients'[p]) > now[t] - 2 * Window]_vars
  <2>. SUFFICES ASSUME Inv, Next, NEW t \in Threads,
                       pc[t] = "waits", pc'[t] = "idle"
                PROVE  \A p \in DOMAIN clients' : Last(clients'[p]) > now[t] - 2 * Window
    BY Zenon
  <2>1. Check(t)
    BY DEF Next, Tick, LetThrough, Enter, Check, Inv, TypeOK
  <2>. QED  BY <2>1, CheckDropsIdle
<1>. QED  BY <1>1, Invariance, PTL DEF Spec, IdleClientsGo
=============================================================================
