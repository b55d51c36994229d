------------------------ MODULE RpcResponseCacheProofs ------------------------
EXTENDS RpcResponseCache, FiniteSetTheorems, WellFoundedInduction, TLAPS

(***************************************************************************)
(* The bytes of a set of answers.                                          *)
(***************************************************************************)
BytesOf(S) == UNION {{k} \X (1..SizeOf[k]) : k \in S}

\* The bytes of finitely many answers are finitely many.
LEMMA BytesFinite ==
    ASSUME NEW S \in SUBSET Keys
    PROVE  IsFiniteSet(BytesOf(S)) /\ IsFiniteSet(S)
<1> DEFINE f == [k \in S |-> {k} \X (1..SizeOf[k])]
           T == {f[k] : k \in S}
<1>1. IsFiniteSet(S)
  BY CacheAssumption, FS_Subset DEF CacheAssumption
<1>2. f \in Surjection(S, T)
  BY DEF Surjection
<1>3. IsFiniteSet(T)
  <2> HIDE DEF f, T
  <2> QED BY <1>1, <1>2, FS_Surjection
<1>4. ASSUME NEW X \in T PROVE IsFiniteSet(X)
  <2>1. PICK k \in S : X = {k} \X (1..SizeOf[k])
    OBVIOUS
  <2>2. SizeOf[k] \in Int
    BY CacheAssumption DEF CacheAssumption
  <2>3. IsFiniteSet({k}) /\ IsFiniteSet(1..SizeOf[k])
    <3>1. IsFiniteSet({k})
      BY FS_Singleton
    <3>2. IsFiniteSet(1..SizeOf[k])
      BY <2>2, FS_Interval
    <3> QED BY <3>1, <3>2
  <2> DEFINE A == {k}
             B == 1..SizeOf[k]
  <2> HIDE DEF A, B
  <2>4. IsFiniteSet(A \X B)
    <3>1. IsFiniteSet(A) /\ IsFiniteSet(B)
      BY <2>3 DEF A, B
    <3> QED BY <3>1, FS_Product
  <2> QED BY <2>1, <2>4 DEF A, B
<1>5. IsFiniteSet(UNION T)
  <2> HIDE DEF T
  <2> QED BY <1>3, <1>4, FS_UNION
<1>6. BytesOf(S) = UNION T
  BY DEF BytesOf
<1> QED BY <1>1, <1>5, <1>6

\* Sizes add up, over sets that have no key in common.
LEMMA BytesAdd ==
    ASSUME NEW S \in SUBSET Keys, NEW T \in SUBSET Keys, S \cap T = {}
    PROVE  /\ Bytes(S) \in Nat /\ Bytes(T) \in Nat
           /\ Bytes(S \cup T) = Bytes(S) + Bytes(T)
<1> DEFINE A == BytesOf(S)
           B == BytesOf(T)
<1>1. IsFiniteSet(A) /\ IsFiniteSet(B)
  BY BytesFinite
<1>2. A \cap B = {}
  BY DEF BytesOf
<1>3. BytesOf(S \cup T) = A \cup B
  BY DEF BytesOf
<1>4. Bytes(S) = Cardinality(A) /\ Bytes(T) = Cardinality(B)
      /\ Bytes(S \cup T) = Cardinality(BytesOf(S \cup T))
  BY DEF Bytes, BytesOf
<1> HIDE DEF A, B
<1>5. /\ Cardinality(A) \in Nat /\ Cardinality(B) \in Nat
      /\ Cardinality(A \cup B) = Cardinality(A) + Cardinality(B) - Cardinality(A \cap B)
      /\ Cardinality({}) = 0
  BY <1>1, FS_Union, FS_CardinalityType, FS_EmptySet
<1>6. Cardinality(A \cap B) = 0
  BY <1>2, <1>5
<1>7. Bytes(S \cup T) = Cardinality(A \cup B)
  BY <1>3, <1>4
<1> QED BY <1>4, <1>5, <1>6, <1>7

\* The size of one answer.
LEMMA BytesOfOne ==
    ASSUME NEW k \in Keys
    PROVE  Bytes({k}) = SizeOf[k] /\ SizeOf[k] \in Nat
<1> DEFINE A == {k}
           B == 1..SizeOf[k]
<1>1. SizeOf[k] \in Nat
  BY CacheAssumption DEF CacheAssumption
<1>2. IsFiniteSet(A) /\ Cardinality(A) = 1
  BY FS_Singleton
<1>3. IsFiniteSet(B) /\ Cardinality(B) = SizeOf[k]
  BY <1>1, FS_Interval
<1>4. Bytes({k}) = Cardinality(A \X B)
  BY DEF Bytes
<1> HIDE DEF A, B
<1>5. Cardinality(A \X B) = Cardinality(A) * Cardinality(B)
  BY <1>2, <1>3, FS_Product
<1> QED BY <1>1, <1>2, <1>3, <1>4, <1>5

LEMMA BytesOfNone == Bytes({}) = 0
BY FS_EmptySet DEF Bytes

\* A part is no bigger than the whole, and what is left when the rest is taken
\* away.
LEMMA BytesOfPart ==
    ASSUME NEW D \in SUBSET Keys, NEW S \in SUBSET D
    PROVE  /\ Bytes(D) \in Nat /\ Bytes(S) \in Nat /\ Bytes(D \ S) \in Nat
           /\ Bytes(D) - Bytes(D \ S) = Bytes(S)
           /\ Bytes(S) <= Bytes(D)
<1> DEFINE R == D \ S
<1>1. R \in SUBSET Keys /\ S \in SUBSET Keys /\ S \cap R = {} /\ S \cup R = D
  OBVIOUS
<1> HIDE DEF R
<1>2. /\ Bytes(S) \in Nat /\ Bytes(R) \in Nat
      /\ Bytes(S \cup R) = Bytes(S) + Bytes(R)
  BY <1>1, BytesAdd
<1> QED BY <1>1, <1>2 DEF R

\* One answer more.
LEMMA BytesWith ==
    ASSUME NEW S \in SUBSET Keys, NEW k \in Keys, k \notin S
    PROVE  Bytes(S \cup {k}) = Bytes(S) + SizeOf[k]
<1> DEFINE A == {k}
<1>1. A \in SUBSET Keys /\ S \cap A = {}
  OBVIOUS
<1>2. Bytes(A) = SizeOf[k]
  BY BytesOfOne
<1> HIDE DEF A
<1>3. Bytes(S \cup A) = Bytes(S) + Bytes(A)
  BY <1>1, BytesAdd
<1> QED BY <1>2, <1>3 DEF A


(***************************************************************************)
(* The order in which the cached keys were used.                           *)
(***************************************************************************)
Linear(R, D) ==
    /\ R \subseteq D \X D
    /\ \A x \in D : <<x, x>> \notin R
    /\ \A x, y \in D : x # y => <<x, y>> \in R \/ <<y, x>> \in R
    /\ \A x, y, z \in D : <<x, y>> \in R /\ <<y, z>> \in R => <<x, z>> \in R

LEMMA OrderOfPart ==
    ASSUME NEW D, NEW S \in SUBSET D, Linear(usage, D)
    PROVE  Linear(InUse(S), S)
BY DEF Linear, InUse

LEMMA OrderWithLast ==
    ASSUME NEW D, NEW S \in SUBSET D, NEW k, k \notin S, Linear(usage, D)
    PROVE  Linear(UsedLast(S, k), S \cup {k})
<1> DEFINE R == UsedLast(S, k)
           K == S \cup {k}
<1>1. \A x, y : <<x, y>> \in R <=>
                   \/ x \in S /\ y \in S /\ <<x, y>> \in usage
                   \/ x \in S /\ y = k
  BY DEF UsedLast, InUse
<1>2. R \subseteq K \X K
  BY DEF UsedLast, InUse
<1> HIDE DEF R
<1>3. \A x \in K : <<x, x>> \notin R
  BY <1>1 DEF Linear
<1>4. \A x, y \in K : x # y => <<x, y>> \in R \/ <<y, x>> \in R
  BY <1>1 DEF Linear
<1>5. \A x, y, z \in K : <<x, y>> \in R /\ <<y, z>> \in R => <<x, z>> \in R
  BY <1>1 DEF Linear
<1>6. Linear(R, K)
  BY <1>2, <1>3, <1>4, <1>5 DEF Linear
<1> QED BY <1>6 DEF R

\* Of finitely many keys one was used last and one first.
LEMMA FirstAndLast ==
    ASSUME NEW D, NEW S \in SUBSET D, IsFiniteSet(S), S # {}, Linear(usage, D)
    PROVE  /\ \E x \in S : \A y \in S \ {x} : <<x, y>> \in usage
           /\ \E x \in S : \A y \in S \ {x} : <<y, x>> \in usage
<1> DEFINE R == StrictSubsetOrdering(S)
           F == FiniteSubsetsOf(S)
<1>1. IsWellFoundedOn(R, F)
  BY FS_StrictSubsetOrderingWellFounded
<1>2. \A X : X \subseteq S => X \in F
  <2> SUFFICES ASSUME NEW X, X \subseteq S PROVE X \in F
    OBVIOUS
  <2>1. IsFiniteSet(X)
    BY FS_Subset
  <2> QED BY <2>1 DEF FiniteSubsetsOf
<1>3. \E x \in S : \A y \in S \ {x} : <<x, y>> \in usage
  <2> DEFINE T == {UsedUntil(S, x) : x \in S}
  <2>1. T \subseteq F /\ T # {}
    BY <1>2 DEF UsedUntil
  <2>2. \E X \in T : \A Y \in T : ~(<<Y, X>> \in R)
    <3> HIDE DEF T, R, F
    <3> QED BY <1>1, <2>1, WFMin
  <2>3. PICK x \in S : \A y \in S : <<UsedUntil(S, y), UsedUntil(S, x)>> \notin R
    BY <2>2
  <2>4. ASSUME NEW y \in S \ {x}, <<y, x>> \in usage PROVE FALSE
    <3>1. UsedUntil(S, y) \subseteq UsedUntil(S, x)
      BY <2>4 DEF UsedUntil, Linear
    <3>2. x \in UsedUntil(S, x) /\ x \notin UsedUntil(S, y)
      BY <2>4 DEF UsedUntil, Linear
    <3>3. UsedUntil(S, x) \subseteq S
      BY DEF UsedUntil
    <3>4. <<UsedUntil(S, y), UsedUntil(S, x)>> \in R
      BY <3>1, <3>2, <3>3 DEF StrictSubsetOrdering
    <3> QED BY <3>4, <2>3
  <2> QED BY <2>4 DEF Linear
<1>4. \E x \in S : \A y \in S \ {x} : <<y, x>> \in usage
  <2> DEFINE T == {UsedSince(S, x) : x \in S}
  <2>1. T \subseteq F /\ T # {}
    BY <1>2 DEF UsedSince
  <2>2. \E X \in T : \A Y \in T : ~(<<Y, X>> \in R)
    <3> HIDE DEF T, R, F
    <3> QED BY <1>1, <2>1, WFMin
  <2>3. PICK x \in S : \A y \in S : <<UsedSince(S, y), UsedSince(S, x)>> \notin R
    BY <2>2
  <2>4. ASSUME NEW y \in S \ {x}, <<x, y>> \in usage PROVE FALSE
    <3>1. UsedSince(S, y) \subseteq UsedSince(S, x)
      BY <2>4 DEF UsedSince, Linear
    <3>2. x \in UsedSince(S, x) /\ x \notin UsedSince(S, y)
      BY <2>4 DEF UsedSince, Linear
    <3>3. UsedSince(S, x) \subseteq S
      BY DEF UsedSince
    <3>4. <<UsedSince(S, y), UsedSince(S, x)>> \in R
      BY <3>1, <3>2, <3>3 DEF StrictSubsetOrdering
    <3> QED BY <3>4, <2>3
  <2> QED BY <2>4 DEF Linear
<1> QED BY <1>3, <1>4

(***************************************************************************)
(* What evict_for leaves.                                                  *)
(***************************************************************************)
\* What the cache holds is counted right and in order.
Counted == /\ DOMAIN entries \subseteq Keys
           /\ total_bytes = Bytes(DOMAIN entries)
           /\ Linear(usage, DOMAIN entries)

\* over_budget() looks at the sizes of what is left.
LEMMA OverBudgetIsNoRoom ==
    ASSUME Counted, NEW S \in SUBSET DOMAIN entries, NEW n \in Nat
    PROVE  OverBudget(S, n) <=> NoRoom(S, n)
<1> DEFINE D == DOMAIN entries
<1>1. D \in SUBSET Keys /\ total_bytes = Bytes(D)
  BY DEF Counted
<1>2. Bytes(D) - Bytes(D \ S) = Bytes(S)
  <2> HIDE DEF D
  <2>1. S \in SUBSET D
    BY DEF D
  <2> QED BY <1>1, <2>1, BytesOfPart
<1> QED BY <1>1, <1>2 DEF OverBudget, NoRoom

\* With less cached there is no less room.
LEMMA RoomGrows ==
    ASSUME NEW T \in SUBSET Keys, NEW S \in SUBSET T, NEW n \in Nat, NoRoom(S, n)
    PROVE  NoRoom(T, n)
<1>1. /\ Bytes(S) \in Nat /\ Bytes(T) \in Nat /\ Bytes(S) <= Bytes(T)
  BY BytesOfPart
<1>2. /\ Cardinality(S) \in Nat /\ Cardinality(T) \in Nat
      /\ Cardinality(S) <= Cardinality(T)
  <2>1. IsFiniteSet(T)
    BY BytesFinite
  <2>2. IsFiniteSet(S) /\ Cardinality(S) <= Cardinality(T)
    BY <2>1, FS_Subset
  <2> QED BY <2>1, <2>2, FS_CardinalityType
<1>3. MaxBytes \in Nat /\ MaxEntries \in Nat
  BY CacheAssumption DEF CacheAssumption
<1> QED BY <1>1, <1>2, <1>3 DEF NoRoom

\* T is what of S is to stay when n bytes come: it fits, unless nothing stays;
\* nothing goes but for want of room; what could be served goes only after what
\* could not, in the order of use, and only as far as is needed.
RightlyStays(S, n, T) ==
    /\ T \subseteq S
    /\ T = {} \/ ~NoRoom(T, n)
    /\ T # S => NoRoom(S, n)
    /\ \A y \in S \ T : ~IsStale(y) =>
          /\ \A x \in T : ~IsStale(x) /\ Younger(x, y)
          /\ \E z \in S \ T : ~IsStale(z) /\ NoRoom(T \cup {z}, n)

\* evict_for leaves that.
LEMMA StaysFits ==
    ASSUME Counted, NEW S \in SUBSET DOMAIN entries, NEW n \in Nat,
           NEW T, T = Stays(S, n)
    PROVE  RightlyStays(S, n, T)
<1> DEFINE fresh == {k \in S : ~IsStale(k)}
<1>1. DOMAIN entries \in SUBSET Keys /\ Linear(usage, DOMAIN entries)
  BY DEF Counted
<1>2. \A X \in SUBSET DOMAIN entries : OverBudget(X, n) <=> NoRoom(X, n)
  BY OverBudgetIsNoRoom
<1>3. CASE ~OverBudget(S, n)
  <2>1. T = S
    BY <1>3 DEF Stays
  <2>2. ~NoRoom(S, n)
    BY <1>2, <1>3
  <2> QED BY <2>1, <2>2 DEF RightlyStays
<1>4. CASE OverBudget(S, n)
  <2>1. T = {k \in fresh : ~OverBudget(UsedSince(fresh, k), n)}
    BY <1>4 DEF Stays
  <2>2. fresh \in SUBSET DOMAIN entries /\ \A k \in fresh : k \in S /\ ~IsStale(k)
        /\ \A x \in S : ~IsStale(x) => x \in fresh
    OBVIOUS
  <2> HIDE DEF fresh
  <2>3. \A k \in fresh : UsedSince(fresh, k) \in SUBSET DOMAIN entries
    BY <2>2 DEF UsedSince
  <2>4. \A k \in fresh : k \in T <=> ~NoRoom(UsedSince(fresh, k), n)
    BY <1>2, <2>1, <2>3
  <2>5. T \subseteq fresh
    BY <2>1
  <2>6. \A k \in T : UsedSince(fresh, k) \subseteq T
    <3> SUFFICES ASSUME NEW k \in T, NEW x \in UsedSince(fresh, k) PROVE x \in T
      OBVIOUS
    <3>1. x \in fresh
      BY DEF UsedSince
    <3>2. UsedSince(fresh, x) \subseteq UsedSince(fresh, k)
      BY <1>1, <2>2, <2>5, <3>1 DEF UsedSince, Linear
    <3>3. UsedSince(fresh, k) \in SUBSET Keys
      BY <1>1, <2>3, <2>5
    <3>4. ~NoRoom(UsedSince(fresh, k), n)
      BY <2>4, <2>5
    <3>5. ~NoRoom(UsedSince(fresh, x), n)
      BY <3>2, <3>3, <3>4, RoomGrows
    <3> QED BY <2>4, <3>1, <3>5
  <2>7. ASSUME T # {} PROVE ~NoRoom(T, n)
    <3>1. T \in SUBSET DOMAIN entries /\ IsFiniteSet(T)
      BY <1>1, <2>2, <2>5, BytesFinite
    <3>2. PICK x \in T : \A y \in T \ {x} : <<x, y>> \in usage
      BY <1>1, <2>7, <3>1, FirstAndLast
    <3>3. UsedSince(fresh, x) = T
      BY <2>5, <2>6, <3>2 DEF UsedSince
    <3> QED BY <2>4, <2>5, <3>3
  <2>8. ASSUME NEW y \in fresh \ T, NEW x \in T PROVE Younger(x, y)
    <3>1. <<x, y>> \notin usage
      BY <2>6, <2>8 DEF UsedSince
    <3>2. x \in DOMAIN entries /\ y \in DOMAIN entries /\ x # y
      BY <2>2, <2>5
    <3> QED BY <1>1, <3>1, <3>2 DEF Linear, Younger
  <2>9. ASSUME fresh \ T # {}
        PROVE  \E z \in fresh \ T : NoRoom(T \cup {z}, n)
    <3> DEFINE G == fresh \ T
    <3>1. G \in SUBSET DOMAIN entries /\ IsFiniteSet(G)
      BY <1>1, <2>2, BytesFinite
    <3>2. PICK z \in G : \A y \in G \ {z} : <<y, z>> \in usage
      <4> HIDE DEF G
      <4>1. G # {}
        BY <2>9 DEF G
      <4> QED BY <1>1, <3>1, <4>1, FirstAndLast
    <3>3. \A y \in G \ {z} : <<z, y>> \notin usage
      BY <1>1, <3>1, <3>2 DEF Linear
    <3>4. UsedSince(fresh, z) \subseteq T \cup {z}
      BY <3>3 DEF UsedSince
    <3>5. NoRoom(UsedSince(fresh, z), n)
      BY <2>4
    <3>6. T \cup {z} \in SUBSET Keys
      BY <1>1, <2>2, <2>5
    <3>7. NoRoom(T \cup {z}, n)
      <4> DEFINE W == T \cup {z}
                 U == UsedSince(fresh, z)
      <4>1. W \in SUBSET Keys /\ U \in SUBSET W /\ NoRoom(U, n)
        BY <3>4, <3>5, <3>6
      <4> HIDE DEF W, U
      <4>2. NoRoom(W, n)
        BY <4>1, RoomGrows
      <4> QED BY <4>2 DEF W
    <3> QED BY <3>7
  <2>10. T \subseteq S /\ NoRoom(S, n)
    BY <1>2, <1>4, <2>2, <2>5
  <2>11. \A y \in S \ T : ~IsStale(y) =>
                 /\ \A x \in T : ~IsStale(x) /\ Younger(x, y)
                 /\ \E z \in S \ T : ~IsStale(z) /\ NoRoom(T \cup {z}, n)
    <3> SUFFICES ASSUME NEW y \in S \ T, ~IsStale(y)
                 PROVE  /\ \A x \in T : ~IsStale(x) /\ Younger(x, y)
                        /\ \E z \in S \ T : ~IsStale(z) /\ NoRoom(T \cup {z}, n)
      OBVIOUS
    <3>1. y \in fresh \ T
      <4>1. y \in fresh
        BY DEF fresh
      <4> QED BY <4>1
    <3> QED BY <2>2, <2>5, <2>8, <2>9, <3>1
  <2> QED BY <2>7, <2>10, <2>11 DEF RightlyStays
<1> QED BY <1>3, <1>4


(***************************************************************************)
(* Types, and the invariant.                                               *)
(***************************************************************************)
Answer == [version : Nat \cup {Null}, asked : Nat]
Entry  == [version : Nat \cup {Null}, late : BOOLEAN, generation : Nat, age : Nat]

NodeType   == tip \in Nat /\ pool \in Nat /\ unseen \in Nat /\ unseenTxs \in Nat
GenType    == block_generation \in Nat /\ mempool_generation \in Nat
ClientType == /\ pc \in [Clients -> {"idle", "asked", "answered"}]
              /\ key \in [Clients -> Keys \cup {AnyKey}]
              /\ answer \in [Clients -> Answer]
              /\ \A c \in Clients : pc[c] # "idle" => key[c] \in Keys
EntryType  == /\ entries \in [DOMAIN entries -> Entry]
              /\ DOMAIN entries \subseteq Keys
OrderType  == usage \subseteq (DOMAIN entries) \X (DOMAIN entries)

\* Every variable of the server and of the node has its type.
TypeOK == NodeType /\ GenType /\ ClientType /\ EntryType /\ OrderType
          /\ total_bytes \in Nat

\* Events on their way that make what is cached for k outdated.
Pending(k) == IF k \in BlockKeys THEN unseen
              ELSE IF k \in MempoolKeys THEN unseen + unseenTxs ELSE 0

\* An answer v that was given in generation g: no generation is ahead of the
\* clock's, and while it lasts v lacks only what is still to be handled.
Accounted(k, v, g) ==
    /\ v \in Nat /\ v <= Current(k) /\ g <= Generation(k)
    /\ g = Generation(k) => Current(k) <= v + Pending(k)

AnswersHold ==
    \A c \in Clients :
        pc[c] = "answered" =>
            \/ key[c] \in RawKeys /\ answer[c].version = Null
            \/ Accounted(key[c], answer[c].version, answer[c].asked)

EntriesHold ==
    \A k \in DOMAIN entries :
        \/ entries[k].late
        \/ k \in RawKeys /\ entries[k].version = Null
        \/ Accounted(k, entries[k].version, entries[k].generation)

Inv == /\ NodeType /\ GenType /\ ClientType /\ EntryType
       /\ Counted /\ WithinBudget
       /\ AnswersHold /\ EntriesHold


THEOREM Initially == Init => Inv
<1> SUFFICES ASSUME Init PROVE Inv
  OBVIOUS
<1>1. NodeType /\ GenType
  BY DEF Init, NodeType, GenType
<1>2. ClientType
  BY DEF Init, ClientType, Answer, NoAnswer
<1>3. DOMAIN entries = {}
  BY DEF Init
<1>4. EntryType
  BY <1>3 DEF EntryType, Init
<1>5. Counted
  BY <1>3, BytesOfNone DEF Init, Counted, Linear
<1>6. WithinBudget
  <2>1. Cardinality({}) = 0
    BY FS_EmptySet
  <2>2. MaxBytes \in Nat /\ MaxEntries \in Nat
    BY CacheAssumption DEF CacheAssumption
  <2> QED BY <1>3, <2>1, <2>2, BytesOfNone DEF Init, WithinBudget
<1>7. AnswersHold /\ EntriesHold
  BY <1>3 DEF Init, AnswersHold, EntriesHold
<1> QED BY <1>1, <1>2, <1>4, <1>5, <1>6, <1>7 DEF Inv

(***************************************************************************)
(* What a step does to what is cached.                                     *)
(***************************************************************************)
\* Erased: S is left.
Erases(S) == /\ S \subseteq DOMAIN entries
             /\ entries' = Only(S) /\ usage' = InUse(S)
             /\ total_bytes' = total_bytes - Bytes(DOMAIN entries \ S)

\* put for k, when there are kept entries.
Puts(k, kept) ==
    /\ kept = Stays(DOMAIN entries \ {k}, SizeOf[k])
    /\ DOMAIN entries' = kept \cup {k}
    /\ \A x \in kept \ {k} : entries'[x] = entries[x]
    /\ usage' = UsedLast(kept, k)
    /\ total_bytes' = total_bytes - Bytes(DOMAIN entries \ kept) + SizeOf[k]

LEMMA ErasureCounts ==
    ASSUME Counted, WithinBudget, NEW S, Erases(S)
    PROVE  Counted' /\ WithinBudget'
<1> DEFINE D == DOMAIN entries
<1>1. D \in SUBSET Keys /\ S \in SUBSET D /\ DOMAIN entries' = S
      /\ total_bytes' = Bytes(D) - Bytes(D \ S)
  BY DEF Counted, Erases, Only
<1>2. Linear(usage', S)
  BY OrderOfPart DEF Counted, Erases
<1>3. Bytes(D) <= MaxBytes /\ Cardinality(D) <= MaxEntries
  BY DEF WithinBudget
<1> HIDE DEF D
<1>4. /\ Bytes(S) \in Nat /\ Bytes(D) \in Nat
      /\ Bytes(D) - Bytes(D \ S) = Bytes(S) /\ Bytes(S) <= Bytes(D)
  BY <1>1, BytesOfPart
<1>5. Cardinality(S) <= Cardinality(D) /\ Cardinality(S) \in Nat /\ Cardinality(D) \in Nat
  <2>1. IsFiniteSet(D)
    BY <1>1, BytesFinite
  <2>2. IsFiniteSet(S) /\ Cardinality(S) <= Cardinality(D)
    BY <1>1, <2>1, FS_Subset
  <2> QED BY <2>1, <2>2, FS_CardinalityType
<1>6. MaxBytes \in Nat /\ MaxEntries \in Nat
  BY CacheAssumption DEF CacheAssumption
<1>7. total_bytes' = Bytes(S) /\ Bytes(S) <= MaxBytes /\ Cardinality(S) <= MaxEntries
  BY <1>1, <1>3, <1>4, <1>5, <1>6
<1>8. S \subseteq Keys
  BY <1>1
<1> QED BY <1>1, <1>2, <1>7, <1>8 DEF Counted, WithinBudget

LEMMA PutCounts ==
    ASSUME Counted, NEW k \in Keys, SizeOf[k] <= MaxBytes, NEW kept, Puts(k, kept)
    PROVE  Counted' /\ WithinBudget'
<1> DEFINE D == DOMAIN entries
           S == D \ {k}
<1>1. D \in SUBSET Keys /\ S \in SUBSET D /\ k \notin S /\ total_bytes = Bytes(D)
  BY DEF Counted
<1>2. SizeOf[k] \in Nat /\ MaxBytes \in Nat /\ MaxEntries \in Nat \ {0}
  BY CacheAssumption DEF CacheAssumption
<1>3. kept \subseteq S /\ (kept = {} \/ ~NoRoom(kept, SizeOf[k]))
  <2>1. S \in SUBSET DOMAIN entries /\ kept = Stays(S, SizeOf[k])
    BY DEF Puts
  <2> HIDE DEF S
  <2> QED BY <1>2, <2>1, StaysFits DEF RightlyStays
<1>4. kept \in SUBSET D /\ kept \in SUBSET Keys /\ k \notin kept
  BY <1>1, <1>3
<1>5. Linear(usage', kept \cup {k})
  BY <1>4, OrderWithLast DEF Puts, Counted
<1>6. DOMAIN entries' = kept \cup {k} /\ kept \cup {k} \subseteq Keys
      /\ total_bytes' = total_bytes - Bytes(D \ kept) + SizeOf[k]
  BY <1>4 DEF Puts
<1> HIDE DEF D, S
<1>7. Bytes(D) - Bytes(D \ kept) = Bytes(kept) /\ Bytes(kept) \in Nat
  BY <1>1, <1>4, BytesOfPart
<1>8. Bytes(kept \cup {k}) = Bytes(kept) + SizeOf[k]
  BY <1>4, BytesWith
<1>9. total_bytes' = Bytes(kept \cup {k})
  BY <1>1, <1>2, <1>6, <1>7, <1>8
<1>10. IsFiniteSet(kept) /\ Cardinality(kept) \in Nat
       /\ Cardinality(kept \cup {k}) = Cardinality(kept) + 1
  <2>1. IsFiniteSet(kept)
    BY <1>4, BytesFinite
  <2> QED BY <1>4, <2>1, FS_AddElement, FS_CardinalityType
<1>11. Bytes(kept) + SizeOf[k] <= MaxBytes /\ Cardinality(kept) + 1 <= MaxEntries
  <2>1. CASE kept = {}
    <3>1. Bytes(kept) = 0 /\ Cardinality(kept) = 0
      BY <2>1, BytesOfNone, FS_EmptySet
    <3> QED BY <1>2, <3>1
  <2>2. CASE ~NoRoom(kept, SizeOf[k])
    BY <1>2, <1>7, <1>10, <2>2 DEF NoRoom
  <2> QED BY <1>3, <2>1, <2>2
<1>12. total_bytes' <= MaxBytes /\ Cardinality(kept \cup {k}) <= MaxEntries
  BY <1>8, <1>9, <1>10, <1>11
<1> QED BY <1>5, <1>6, <1>9, <1>12 DEF Counted, WithinBudget

\* Every step but those of get and put leaves the set of cached keys, their order
\* and their sizes alone.
LEMMA SameKeysCount ==
    ASSUME Counted, WithinBudget, DOMAIN entries' = DOMAIN entries,
           usage' = usage, total_bytes' = total_bytes
    PROVE  Counted' /\ WithinBudget'
BY DEF Counted, WithinBudget

LEMMA HitCounts ==
    ASSUME Counted, WithinBudget, NEW c \in Clients, Hit(c)
    PROVE  Counted' /\ WithinBudget'
<1>1. PICK k \in DOMAIN entries : usage' = UsedLast(DOMAIN entries \ {k}, k)
  BY DEF Hit, Fresh
<1>2. entries' = entries /\ total_bytes' = total_bytes
  BY DEF Hit
<1> DEFINE D == DOMAIN entries
           S == D \ {k}
<1>3. S \in SUBSET D /\ k \notin S /\ S \cup {k} = D /\ Linear(usage, D)
  BY DEF Counted
<1>4. usage' = UsedLast(S, k)
  BY <1>1
<1> HIDE DEF S
<1>5. Linear(usage', S \cup {k})
  BY <1>3, <1>4, OrderWithLast
<1> QED BY <1>2, <1>3, <1>5 DEF Counted, WithinBudget

\* What Miss and Fill do, in these terms.
LEMMA MissErases ==
    ASSUME NEW c \in Clients, Miss(c)
    PROVE  \E k \in Keys : /\ Erases(DOMAIN entries \ {k})
                           /\ key' = [key EXCEPT ![c] = k]
                           /\ pc' = [pc EXCEPT ![c] = "asked"]
                           /\ UNCHANGED <<nodeVars, genVars, answer>>
BY DEF Miss, Erases

LEMMA FillPuts ==
    ASSUME NEW c \in Clients, Fill(c)
    PROVE  \E kept : Puts(key[c], kept)
<1> DEFINE k == key[c]
           kept == Stays(DOMAIN entries \ {k}, SizeOf[k])
<1>1. Put(k, answer[c])
  BY DEF Fill
<1> HIDE DEF k
<1>2. /\ entries' = [x \in kept \cup {k} |->
                          IF x = k THEN [version    |-> answer[c].version,
                                         late       |-> answer[c].asked # Generation(k),
                                         generation |-> Generation(k),
                                         age        |-> 0]
                          ELSE entries[x]]
      /\ usage' = UsedLast(kept, k)
      /\ total_bytes' = total_bytes - Bytes(DOMAIN entries \ kept) + SizeOf[k]
  BY <1>1 DEF Put
<1> HIDE DEF kept
<1>3. DOMAIN entries' = kept \cup {k} /\ \A x \in kept \ {k} : entries'[x] = entries[x]
  BY <1>2
<1>4. Puts(k, kept)
  BY <1>2, <1>3 DEF Puts, kept
<1> QED BY <1>4 DEF k


(***************************************************************************)
(* Types.                                                                  *)
(***************************************************************************)
LEMMA NodeTypes ==
    ASSUME NodeType, GenType, [Next]_vars
    PROVE  NodeType' /\ GenType'
<1>1. CASE NodeMines
  BY <1>1 DEF NodeMines, NodeType, GenType, genVars
<1>2. CASE NodeAddsTx
  BY <1>2 DEF NodeAddsTx, NodeType, GenType, genVars
<1>3. CASE OnBlockEvent
  BY <1>3 DEF OnBlockEvent, AdvancedMempool, NodeType, GenType
<1>4. CASE OnTransactionEvent
  <2>1. unseenTxs' \in Nat
    BY <1>4 DEF OnTransactionEvent, NodeType
  <2> QED BY <1>4, <2>1 DEF OnTransactionEvent, NodeType, GenType
<1>5. CASE UNCHANGED <<nodeVars, genVars>>
  BY <1>5 DEF nodeVars, genVars, NodeType, GenType
<1>6. CASE Tick
  BY <1>5, <1>6 DEF Tick
<1>7. CASE \E c \in Clients : Hit(c) \/ Miss(c) \/ Ask(c)
  BY <1>5, <1>7 DEF Hit, Miss, Ask, NodeAnswers, ErrorAnswer, CallFails, Fill, TooBig
<1>8. CASE UNCHANGED vars
  BY <1>5, <1>8 DEF vars
<1> QED BY <1>1, <1>2, <1>3, <1>4, <1>6, <1>7, <1>8 DEF Next

\* What the node answers, and the generation it is asked in, are numbers.
LEMMA NodeTells ==
    ASSUME NodeType, GenType, NEW k
    PROVE  Current(k) \in Nat /\ Generation(k) \in Nat /\ Pending(k) \in Nat
BY DEF NodeType, GenType, Current, Generation, Pending

LEMMA ReturnTypes ==
    ASSUME ClientType, NEW c \in Clients, Return(c)
    PROVE  ClientType'
BY DEF ClientType, Return, Answer, NoAnswer

LEMMA ClientTypes ==
    ASSUME NodeType, GenType, ClientType, [Next]_vars
    PROVE  ClientType'
<1>1. CASE UNCHANGED clientVars
  BY <1>1 DEF clientVars, ClientType
<1>2. CASE NodeMines \/ NodeAddsTx \/ OnBlockEvent \/ OnTransactionEvent \/ Tick
  BY <1>1, <1>2 DEF NodeMines, NodeAddsTx, OnBlockEvent, OnTransactionEvent, Tick
<1>3. ASSUME NEW c \in Clients, Hit(c) \/ Miss(c) \/ Ask(c)
      PROVE  ClientType'
  <2>1. CASE Hit(c)
    BY <1>1, <2>1 DEF Hit
  <2>2. CASE Miss(c)
    <3>1. PICK k \in Keys : /\ key' = [key EXCEPT ![c] = k]
                            /\ pc' = [pc EXCEPT ![c] = "asked"]
                            /\ answer' = answer
      BY <2>2 DEF Miss
    <3> QED BY <3>1 DEF ClientType
  <2>3. CASE NodeAnswers(c)
    <3> DEFINE a == [version |-> Current(key[c]), asked |-> Generation(key[c])]
    <3>1. a \in Answer
      BY NodeTells DEF Answer
    <3>2. /\ answer' = [answer EXCEPT ![c] = a]
          /\ pc' = [pc EXCEPT ![c] = "answered"] /\ key' = key /\ pc[c] = "asked"
      BY <2>3 DEF NodeAnswers
    <3> HIDE DEF a
    <3> QED BY <3>1, <3>2 DEF ClientType
  <2>4. CASE ErrorAnswer(c)
    <3>1. CASE Return(c)
      BY <3>1, ReturnTypes
    <3>2. CASE ~Return(c)
      <4> DEFINE a == [version |-> Null, asked |-> Generation(key[c])]
      <4>1. a \in Answer
        BY NodeTells DEF Answer
      <4>2. /\ answer' = [answer EXCEPT ![c] = a]
            /\ pc' = [pc EXCEPT ![c] = "answered"] /\ key' = key /\ pc[c] = "asked"
        BY <2>4, <3>2 DEF ErrorAnswer
      <4> HIDE DEF a
      <4> QED BY <4>1, <4>2 DEF ClientType
    <3> QED BY <3>1, <3>2
  <2>5. CASE CallFails(c) \/ Fill(c) \/ TooBig(c)
    BY <2>5, ReturnTypes DEF CallFails, Fill, TooBig
  <2> QED BY <1>3, <2>1, <2>2, <2>3, <2>4, <2>5 DEF Ask
<1>4. CASE UNCHANGED vars
  BY <1>1, <1>4 DEF vars
<1> QED BY <1>2, <1>3, <1>4 DEF Next

\* The entry put makes.
LEMMA FillMakes ==
    ASSUME NodeType, GenType, ClientType, EntryType, NEW c \in Clients, Fill(c)
    PROVE  /\ key[c] \in Keys
           /\ \A x \in DOMAIN entries' :
                 IF x = key[c]
                 THEN /\ entries'[x] \in Entry
                      /\ entries'[x].version = answer[c].version
                      /\ entries'[x].late = (answer[c].asked # Generation(key[c]))
                      /\ entries'[x].generation = Generation(key[c])
                 ELSE x \in DOMAIN entries /\ entries'[x] = entries[x]
           /\ entries' \in [DOMAIN entries' -> Entry]
<1>1. key[c] \in Keys /\ answer[c] \in Answer
  BY DEF Fill, ClientType
<1> DEFINE k == key[c]
           S == DOMAIN entries \ {k}
           kept == Stays(S, SizeOf[k])
           e == [version |-> answer[c].version, late |-> answer[c].asked # Generation(k),
                 generation |-> Generation(k), age |-> 0]
<1>2. e \in Entry
  BY <1>1, NodeTells DEF Entry, Answer
<1>3. entries' = [x \in kept \cup {k} |-> IF x = k THEN e ELSE entries[x]]
  BY DEF Fill, Put
<1>4. e.version = answer[c].version /\ e.late = (answer[c].asked # Generation(k))
      /\ e.generation = Generation(k)
  OBVIOUS
<1>5. kept \subseteq DOMAIN entries
  <2>1. S \subseteq DOMAIN entries
    OBVIOUS
  <2> HIDE DEF S
  <2> QED BY <2>1 DEF Stays
<1> HIDE DEF e, kept, S
<1>6. entries' \in [DOMAIN entries' -> Entry]
  BY <1>2, <1>3, <1>5 DEF EntryType
<1>7. ASSUME NEW x \in DOMAIN entries', x # k
      PROVE  x \in DOMAIN entries /\ entries'[x] = entries[x]
  BY <1>3, <1>5, <1>7
<1>8. ASSUME NEW x \in DOMAIN entries', x = k
      PROVE  entries'[x] = e
  BY <1>3, <1>8
<1> QED BY <1>1, <1>2, <1>4, <1>6, <1>7, <1>8


LEMMA EntryTypes ==
    ASSUME NodeType, GenType, ClientType, EntryType, Counted, WithinBudget, [Next]_vars
    PROVE  EntryType' /\ Counted' /\ WithinBudget'
<1>1. CASE UNCHANGED cacheVars
  BY <1>1 DEF cacheVars, EntryType, Counted, WithinBudget
<1>2. CASE NodeMines \/ NodeAddsTx \/ OnBlockEvent \/ OnTransactionEvent
  BY <1>1, <1>2 DEF NodeMines, NodeAddsTx, OnBlockEvent, OnTransactionEvent
<1>3. CASE Tick
  <2>1. DOMAIN entries' = DOMAIN entries /\ usage' = usage /\ total_bytes' = total_bytes
    BY <1>3 DEF Tick
  <2>2. Counted' /\ WithinBudget'
    BY <2>1, SameKeysCount
  <2>3. ASSUME NEW k \in DOMAIN entries PROVE entries'[k] \in Entry
    <3>1. entries[k] \in Entry
      BY DEF EntryType
    <3>2. entries'[k] = entries[k] \/ entries'[k] = [entries[k] EXCEPT !.age = @ + 1]
      BY <1>3 DEF Tick
    <3> QED BY <3>1, <3>2 DEF Entry
  <2>4. entries' = [k \in DOMAIN entries |-> entries'[k]]
    BY <1>3 DEF Tick
  <2>5. EntryType'
    BY <2>1, <2>3, <2>4 DEF EntryType
  <2> QED BY <2>2, <2>5
<1>4. ASSUME NEW c \in Clients, Hit(c) \/ Miss(c) \/ Ask(c)
      PROVE  EntryType' /\ Counted' /\ WithinBudget'
  <2>1. CASE Hit(c)
    <3>1. entries' = entries
      BY <2>1 DEF Hit
    <3> QED BY <2>1, <3>1, HitCounts DEF EntryType
  <2>2. CASE Miss(c)
    <3>1. PICK k \in Keys : Erases(DOMAIN entries \ {k})
      BY <2>2, MissErases
    <3>2. EntryType'
      BY <3>1 DEF Erases, Only, EntryType
    <3> QED BY <3>1, <3>2, ErasureCounts
  <2>3. CASE Fill(c)
    <3>1. PICK kept : Puts(key[c], kept)
      BY <2>3, FillPuts
    <3>2. key[c] \in Keys /\ SizeOf[key[c]] <= MaxBytes
      BY <2>3, FillMakes DEF Fill
    <3>3. Counted' /\ WithinBudget'
      BY <3>1, <3>2, PutCounts
    <3>4. entries' \in [DOMAIN entries' -> Entry]
      BY <2>3, FillMakes
    <3> QED BY <3>3, <3>4 DEF EntryType, Counted
  <2>4. CASE NodeAnswers(c) \/ ErrorAnswer(c) \/ CallFails(c) \/ TooBig(c)
    BY <1>1, <2>4 DEF NodeAnswers, ErrorAnswer, CallFails, TooBig
  <2> QED BY <1>4, <2>1, <2>2, <2>3, <2>4 DEF Ask
<1>5. CASE UNCHANGED vars
  BY <1>1, <1>5 DEF vars
<1> QED BY <1>2, <1>3, <1>4, <1>5 DEF Next

(***************************************************************************)
(* Answers stay accounted for.                                             *)
(***************************************************************************)
LEMMA StaysAccounted ==
    ASSUME NodeType, GenType, [Next]_vars,
           NEW k \in Keys, NEW v, NEW g \in Nat, Accounted(k, v, g)
    PROVE  Accounted(k, v, g)'
<1>1. v \in Nat /\ v <= Current(k) /\ g <= Generation(k)
      /\ (g = Generation(k) => Current(k) <= v + Pending(k))
  BY DEF Accounted
<1>2. BlockKeys \cap MempoolKeys = {}
  BY CacheAssumption DEF CacheAssumption
<1>3. CASE UNCHANGED <<nodeVars, genVars>>
  BY <1>1, <1>3 DEF nodeVars, genVars, Accounted, Current, Generation, Pending
<1>4. CASE NodeMines
  BY <1>1, <1>2, <1>4 DEF NodeMines, genVars, Accounted, Current, Generation, Pending,
     NodeType, GenType
<1>5. CASE NodeAddsTx
  BY <1>1, <1>2, <1>5 DEF NodeAddsTx, genVars, Accounted, Current, Generation, Pending,
     NodeType, GenType
<1>6. CASE OnBlockEvent
  BY <1>1, <1>2, <1>6 DEF OnBlockEvent, AdvancedMempool, Accounted, Current, Generation,
     Pending, NodeType, GenType
<1>7. CASE OnTransactionEvent
  <2>1. unseenTxs' \in Nat
    BY <1>7 DEF OnTransactionEvent, NodeType
  <2>2. /\ tip' = tip /\ pool' = pool /\ unseen' = unseen
        /\ block_generation' = block_generation
        /\ mempool_generation' = mempool_generation + 1
    BY <1>7 DEF OnTransactionEvent
  <2>3. CASE k \in MempoolKeys
    <3>1. k \notin BlockKeys
      BY <1>2, <2>3
    <3> QED BY <1>1, <2>2, <2>3, <3>1 DEF Accounted, Current, Generation, GenType
  <2>4. CASE k \notin MempoolKeys
    <3>1. Current(k)' = Current(k) /\ Generation(k)' = Generation(k)
          /\ Pending(k)' = Pending(k)
      BY <2>2, <2>4 DEF Current, Generation, Pending
    <3> QED BY <1>1, <3>1 DEF Accounted
  <2> QED BY <2>3, <2>4
<1>8. CASE Tick
  BY <1>3, <1>8 DEF Tick
<1>9. CASE \E c \in Clients : Hit(c) \/ Miss(c) \/ Ask(c)
  BY <1>3, <1>9 DEF Hit, Miss, Ask, NodeAnswers, ErrorAnswer, CallFails, Fill, TooBig
<1>10. CASE UNCHANGED vars
  BY <1>3, <1>10 DEF vars
<1> QED BY <1>4, <1>5, <1>6, <1>7, <1>8, <1>9, <1>10 DEF Next

\* What has been answered to c.
AnswerHolds(c) ==
    pc[c] = "answered" =>
        \/ key[c] \in RawKeys /\ answer[c].version = Null
        \/ Accounted(key[c], answer[c].version, answer[c].asked)

\* A step that leaves c where it is.
LEMMA SameAnswer ==
    ASSUME NodeType, GenType, ClientType, [Next]_vars, NEW d \in Clients, AnswerHolds(d),
           pc'[d] = pc[d], key'[d] = key[d], answer'[d] = answer[d]
    PROVE  AnswerHolds(d)'
<1>1. SUFFICES ASSUME pc[d] = "answered", ~(key[d] \in RawKeys /\ answer[d].version = Null)
               PROVE  Accounted(key[d], answer[d].version, answer[d].asked)'
  BY DEF AnswerHolds
<1>2. key[d] \in Keys /\ answer[d].version \in Nat \cup {Null} /\ answer[d].asked \in Nat
  BY <1>1 DEF ClientType, Answer
<1>3. PICK k \in Keys, v \in Nat \cup {Null}, g \in Nat :
         k = key[d] /\ v = answer[d].version /\ g = answer[d].asked
  BY <1>2
<1>4. Accounted(k, v, g)
  BY <1>1, <1>3 DEF AnswerHolds
<1>5. Accounted(k, v, g)'
  BY <1>4, StaysAccounted
<1>6. k = key'[d] /\ v = answer'[d].version /\ g = answer'[d].asked
  BY <1>3
<1> QED BY <1>5, <1>6 DEF Accounted, Current, Generation, Pending

LEMMA AnswersStay ==
    ASSUME NodeType, GenType, ClientType, AnswersHold, [Next]_vars
    PROVE  AnswersHold'
<1>1. SUFFICES ASSUME NEW d \in Clients PROVE AnswerHolds(d)'
  BY DEF AnswersHold, AnswerHolds
<1>2. AnswerHolds(d)
  BY DEF AnswersHold, AnswerHolds
<1>3. CASE pc'[d] = pc[d] /\ key'[d] = key[d] /\ answer'[d] = answer[d]
  BY <1>2, <1>3, SameAnswer
<1>4. CASE pc'[d] # "answered"
  BY <1>4 DEF AnswerHolds
<1>5. CASE UNCHANGED clientVars
  BY <1>3, <1>5 DEF clientVars
<1>6. CASE NodeMines \/ NodeAddsTx \/ OnBlockEvent \/ OnTransactionEvent \/ Tick
  BY <1>5, <1>6 DEF NodeMines, NodeAddsTx, OnBlockEvent, OnTransactionEvent, Tick
<1>7. ASSUME NEW c \in Clients, Return(c) PROVE AnswerHolds(d)'
  <2>1. CASE c = d
    BY <1>4, <1>7, <2>1 DEF Return, ClientType
  <2>2. CASE c # d
    BY <1>3, <1>7, <2>2 DEF Return, ClientType
  <2> QED BY <2>1, <2>2
<1>8. ASSUME NEW c \in Clients, Hit(c) \/ Miss(c) \/ Ask(c)
      PROVE  AnswerHolds(d)'
  <2>1. CASE Hit(c)
    BY <1>5, <2>1 DEF Hit
  <2>2. CASE Miss(c)
    <3>1. PICK k \in Keys : /\ key' = [key EXCEPT ![c] = k]
                            /\ pc' = [pc EXCEPT ![c] = "asked"]
                            /\ answer' = answer
      BY <2>2 DEF Miss
    <3>2. CASE c = d
      BY <1>4, <3>1, <3>2 DEF ClientType
    <3>3. CASE c # d
      BY <1>3, <3>1, <3>3 DEF ClientType
    <3> QED BY <3>2, <3>3
  <2>3. CASE NodeAnswers(c)
    <3>1. /\ pc[c] = "asked" /\ pc' = [pc EXCEPT ![c] = "answered"] /\ key' = key
          /\ answer' = [answer EXCEPT ![c] = [version |-> Current(key[c]),
                                              asked   |-> Generation(key[c])]]
      BY <2>3 DEF NodeAnswers
    <3>2. CASE c # d
      BY <1>3, <3>1, <3>2 DEF ClientType
    <3>3. CASE c = d
      <4>1. key'[d] = key[d] /\ answer'[d].version = Current(key[d])
            /\ answer'[d].asked = Generation(key[d])
        BY <3>1, <3>3 DEF ClientType
      <4>2. Accounted(key[d], Current(key[d]), Generation(key[d]))
        BY NodeTells DEF Accounted
      <4>3. Accounted(key'[d], answer'[d].version, answer'[d].asked)
        BY <4>1, <4>2
      <4>4. UNCHANGED <<nodeVars, genVars>>
        BY <2>3 DEF NodeAnswers
      <4>5. Accounted(key[d], answer[d].version, answer[d].asked)'
        BY <4>3, <4>4 DEF Accounted, Current, Generation, Pending, nodeVars, genVars
      <4> QED BY <4>5 DEF AnswerHolds
    <3> QED BY <3>2, <3>3
  <2>4. CASE ErrorAnswer(c)
    <3>1. CASE Return(c)
      BY <1>7, <3>1
    <3>2. CASE ~Return(c)
      <4>1. /\ key[c] \in RawKeys /\ pc' = [pc EXCEPT ![c] = "answered"] /\ key' = key
            /\ answer' = [answer EXCEPT ![c] = [version |-> Null,
                                                asked   |-> Generation(key[c])]]
        BY <2>4, <3>2 DEF ErrorAnswer
      <4>2. CASE c # d
        BY <1>3, <4>1, <4>2 DEF ClientType
      <4>3. CASE c = d
        <5>1. key'[d] \in RawKeys /\ answer'[d].version = Null
          BY <4>1, <4>3 DEF ClientType
        <5> QED BY <5>1 DEF AnswerHolds
      <4> QED BY <4>2, <4>3
    <3> QED BY <3>1, <3>2
  <2>5. CASE CallFails(c) \/ Fill(c) \/ TooBig(c)
    BY <1>7, <2>5 DEF CallFails, Fill, TooBig
  <2> QED BY <1>8, <2>1, <2>2, <2>3, <2>4, <2>5 DEF Ask
<1>9. CASE UNCHANGED vars
  BY <1>5, <1>9 DEF vars
<1> QED BY <1>6, <1>8, <1>9 DEF Next


\* What is cached for k.
EntryHolds(k) == \/ entries[k].late
                 \/ k \in RawKeys /\ entries[k].version = Null
                 \/ Accounted(k, entries[k].version, entries[k].generation)

LEMMA SameEntry ==
    ASSUME NodeType, GenType, EntryType, [Next]_vars,
           NEW k \in DOMAIN entries, EntryHolds(k),
           entries'[k].version = entries[k].version,
           entries'[k].late = entries[k].late,
           entries'[k].generation = entries[k].generation
    PROVE  EntryHolds(k)'
<1>1. SUFFICES ASSUME ~entries[k].late, ~(k \in RawKeys /\ entries[k].version = Null)
               PROVE  Accounted(k, entries[k].version, entries[k].generation)'
  BY DEF EntryHolds
<1>2. k \in Keys /\ entries[k] \in Entry
  BY DEF EntryType
<1>3. PICK x \in Keys, v \in Nat \cup {Null}, g \in Nat :
         x = k /\ v = entries[k].version /\ g = entries[k].generation
  BY <1>2 DEF Entry
<1>4. Accounted(x, v, g)
  BY <1>1, <1>3 DEF EntryHolds
<1>5. Accounted(x, v, g)'
  BY <1>4, StaysAccounted
<1>6. v = entries'[k].version /\ g = entries'[k].generation
  BY <1>3
<1> QED BY <1>3, <1>5, <1>6 DEF Accounted, Current, Generation, Pending

LEMMA EntriesStay ==
    ASSUME Inv, [Next]_vars
    PROVE  EntriesHold'
<1> USE DEF Inv
<1>1. SUFFICES ASSUME NEW k, k \in DOMAIN entries' PROVE EntryHolds(k)'
  BY DEF EntriesHold, EntryHolds
<1>2. k \in DOMAIN entries => EntryHolds(k)
  BY DEF EntriesHold, EntryHolds
<1>3. CASE k \in DOMAIN entries /\ entries'[k] = entries[k]
  BY <1>2, <1>3, SameEntry
<1>4. CASE UNCHANGED cacheVars
  BY <1>1, <1>3, <1>4 DEF cacheVars
<1>5. CASE NodeMines \/ NodeAddsTx \/ OnBlockEvent \/ OnTransactionEvent
  BY <1>4, <1>5 DEF NodeMines, NodeAddsTx, OnBlockEvent, OnTransactionEvent
<1>6. CASE Tick
  <2>1. k \in DOMAIN entries
    BY <1>1, <1>6 DEF Tick
  <2>2. entries[k] \in Entry
    BY <2>1 DEF EntryType
  <2>3. entries'[k] = entries[k] \/ entries'[k] = [entries[k] EXCEPT !.age = @ + 1]
    BY <1>6, <2>1 DEF Tick
  <2>4. /\ entries'[k].version = entries[k].version
        /\ entries'[k].late = entries[k].late
        /\ entries'[k].generation = entries[k].generation
    BY <2>2, <2>3 DEF Entry
  <2> QED BY <1>2, <2>1, <2>4, SameEntry
<1>7. ASSUME NEW c \in Clients, Hit(c) \/ Miss(c) \/ Ask(c)
      PROVE  EntryHolds(k)'
  <2>1. CASE Hit(c)
    BY <1>1, <1>3, <2>1 DEF Hit
  <2>2. CASE Miss(c)
    <3>1. PICK x \in Keys : Erases(DOMAIN entries \ {x})
      BY <2>2, MissErases
    <3>2. k \in DOMAIN entries /\ entries'[k] = entries[k]
      BY <1>1, <3>1 DEF Erases, Only
    <3> QED BY <1>3, <3>2
  <2>3. CASE Fill(c)
    <3>1. CASE k # key[c]
      <4>1. k \in DOMAIN entries /\ entries'[k] = entries[k]
        BY <1>1, <2>3, <3>1, FillMakes
      <4> QED BY <1>3, <4>1
    <3>2. CASE k = key[c]
      <4>1. /\ entries'[k].version = answer[c].version
            /\ entries'[k].late = (answer[c].asked # Generation(key[c]))
            /\ entries'[k].generation = Generation(key[c])
        BY <1>1, <2>3, <3>2, FillMakes
      <4>2. SUFFICES ASSUME ~entries'[k].late PROVE EntryHolds(k)'
        BY DEF EntryHolds
      <4>3. answer[c].asked = Generation(key[c])
        BY <4>1, <4>2
      <4>4. pc[c] = "answered" /\ UNCHANGED <<nodeVars, genVars>>
        BY <2>3 DEF Fill
      <4>5. CASE k \in RawKeys /\ answer[c].version = Null
        BY <4>1, <4>5 DEF EntryHolds
      <4>6. CASE Accounted(key[c], answer[c].version, answer[c].asked)
        <5>1. Accounted(k, entries'[k].version, entries'[k].generation)
          BY <3>2, <4>1, <4>3, <4>6
        <5>2. Accounted(k, entries[k].version, entries[k].generation)'
          BY <4>4, <5>1 DEF Accounted, Current, Generation, Pending, nodeVars, genVars
        <5> QED BY <5>2 DEF EntryHolds
      <4> QED BY <3>2, <4>4, <4>5, <4>6 DEF AnswersHold
    <3> QED BY <3>1, <3>2
  <2>4. CASE NodeAnswers(c) \/ ErrorAnswer(c) \/ CallFails(c) \/ TooBig(c)
    BY <1>4, <2>4 DEF NodeAnswers, ErrorAnswer, CallFails, TooBig
  <2> QED BY <1>7, <2>1, <2>2, <2>3, <2>4 DEF Ask
<1>8. CASE UNCHANGED vars
  BY <1>4, <1>8 DEF vars
<1> QED BY <1>5, <1>6, <1>7, <1>8 DEF Next

LEMMA Step == Inv /\ [Next]_vars => Inv'
<1> SUFFICES ASSUME Inv, [Next]_vars PROVE Inv'
  OBVIOUS
<1>1. /\ NodeType /\ GenType /\ ClientType /\ EntryType
      /\ Counted /\ WithinBudget /\ AnswersHold
  BY DEF Inv
<1>2. NodeType' /\ GenType'
  BY <1>1, NodeTypes
<1>3. ClientType'
  BY <1>1, ClientTypes
<1>4. EntryType' /\ Counted' /\ WithinBudget'
  BY <1>1, EntryTypes
<1>5. AnswersHold'
  BY <1>1, AnswersStay
<1>6. EntriesHold'
  BY EntriesStay
<1> QED BY <1>2, <1>3, <1>4, <1>5, <1>6 DEF Inv

LEMMA Invariance == Spec => []Inv
<1>1. Init => Inv
  BY Initially
<1>2. Inv /\ [Next]_vars => Inv'
  BY Step
<1> QED BY <1>1, <1>2, PTL DEF Spec

(***************************************************************************)
(* What the cache promises.                                                *)
(***************************************************************************)
\* Every variable of the cache, its clients and the node always has its type.
THEOREM TypeCorrect == Spec => []TypeOK
<1>1. Inv => TypeOK
  <2> SUFFICES ASSUME Inv PROVE TypeOK
    OBVIOUS
  <2>1. /\ NodeType /\ GenType /\ ClientType /\ EntryType /\ Counted
    BY DEF Inv
  <2>2. OrderType
    BY <2>1 DEF OrderType, Counted, Linear
  <2>3. total_bytes \in Nat
    <3>1. DOMAIN entries \in SUBSET Keys /\ total_bytes = Bytes(DOMAIN entries)
      BY <2>1 DEF Counted
    <3> QED BY <3>1, BytesOfPart
  <2> QED BY <2>1, <2>2, <2>3 DEF TypeOK
<1> QED BY <1>1, Invariance, PTL

\* total_bytes is the size of what is cached and neither kMaxBytes nor kMaxEntries
\* is exceeded, whatever get, put and evict_for erase and insert.
THEOREM BudgetHolds == Spec => []WithinBudget
<1>1. Inv => WithinBudget
  BY DEF Inv
<1> QED BY <1>1, Invariance, PTL

\* What get would serve is current, but for an event that is still to be handled,
\* an answer stamped after one, and a null taken for a value.
THEOREM FreshAnswers == Spec => []FreshUnlessLate
<1>1. Inv => FreshUnlessLate
  <2> SUFFICES ASSUME Inv PROVE FreshUnlessLate
    OBVIOUS
  <2>1. NodeType /\ GenType
    BY DEF Inv
  <2> SUFFICES ASSUME NEW k \in DOMAIN entries,
                      ~IsStale(k), unseen = 0, k \in MempoolKeys => unseenTxs = 0,
                      ~entries[k].late, ~(k \in RawKeys /\ entries[k].version = Null)
               PROVE  entries[k].version = Current(k)
    BY <2>1 DEF FreshUnlessLate, NodeType
  <2>2. Accounted(k, entries[k].version, entries[k].generation)
    BY DEF Inv, EntriesHold
  <2>3. Pending(k) = 0
    BY DEF Pending
  <2>4. CASE k \in BlockKeys \cup MempoolKeys
    <3>1. entries[k].generation = Generation(k)
      BY <2>4 DEF IsStale
    <3>2. Current(k) <= entries[k].version
      BY <2>1, <2>2, <2>3, <3>1, NodeTells DEF Accounted
    <3> QED BY <2>1, <2>2, <3>2, NodeTells DEF Accounted
  <2>5. CASE k \notin BlockKeys \cup MempoolKeys
    BY <2>2, <2>5 DEF Accounted, Current
  <2> QED BY <2>4, <2>5
<1> QED BY <1>1, Invariance, PTL

\* put evicts only for want of room, what could still be served only after what
\* could not and in the order of use, and nothing that could have stayed.
THEOREM NoNeedlessEviction == Spec => EvictsNoMore
<1>1. ASSUME Inv, [Next]_vars, NEW c \in Clients, pc[c] = "answered", pc'[c] = "idle"
      PROVE  AsNeeded(c)
  <2> DEFINE before == DOMAIN entries \ {key[c]}
             after  == DOMAIN entries' \ {key[c]}
             fresh  == {k \in before \ after : ~IsStale(k)}
             n      == SizeOf[key[c]]
  <2>1. ClientType /\ EntryType /\ Counted /\ NodeType /\ GenType
    BY <1>1 DEF Inv
  <2>2. key[c] \in Keys
    BY <1>1, <2>1 DEF ClientType
  <2>3. CASE entries' = entries
    <3>1. before = after
      BY <2>3
    <3> QED BY <3>1 DEF AsNeeded
  <2>4. CASE Fill(c)
    <3>1. PICK kept : Puts(key[c], kept)
      BY <2>4, FillPuts
    <3>2. kept = Stays(before, n) /\ DOMAIN entries' = kept \cup {key[c]}
      BY <3>1 DEF Puts
    <3>3. before \in SUBSET DOMAIN entries /\ n \in Nat
      BY <2>2, CacheAssumption DEF CacheAssumption
    <3>4. key[c] \notin before
      OBVIOUS
    <3>5. RightlyStays(before, n, kept)
      <4> HIDE DEF before, n
      <4>1. Counted /\ kept = Stays(before, n)
        BY <2>1, <3>2
      <4> QED BY <3>3, <4>1, StaysFits
    <3>6. after = kept
      BY <3>2, <3>4, <3>5 DEF RightlyStays
    <3> HIDE DEF before, after, n
    <3>7. fresh # {} =>
                 /\ \A x \in after : ~IsStale(x)
                 /\ \A x \in after, y \in fresh : Younger(x, y)
                 /\ \E y \in fresh : NoRoom(after \cup {y}, n)
      BY <3>5, <3>6 DEF RightlyStays
    <3>8. before # after => NoRoom(before, n)
      BY <3>5, <3>6 DEF RightlyStays
    <3> QED BY <3>7, <3>8 DEF before, after, n, AsNeeded
  <2>5. CASE entries' # entries /\ ~Fill(c)
    <3>1. pc' # pc
      BY <1>1, <2>1 DEF ClientType
    <3>2. PICK d \in Clients : Hit(d) \/ Miss(d) \/ Ask(d)
      BY <1>1, <3>1 DEF Next, NodeMines, NodeAddsTx, OnBlockEvent, OnTransactionEvent,
         Tick, vars, clientVars
    <3>3. CASE Miss(d)
      <4>1. pc' = [pc EXCEPT ![d] = "asked"]
        BY <3>3 DEF Miss
      <4> QED BY <1>1, <2>1, <4>1 DEF ClientType
    <3>4. CASE Fill(d)
      <4>1. pc' = [pc EXCEPT ![d] = "idle"]
        BY <3>4 DEF Fill, Return
      <4>2. d = c
        BY <1>1, <2>1, <4>1 DEF ClientType
      <4> QED BY <2>5, <3>4, <4>2
    <3>5. CASE Hit(d) \/ NodeAnswers(d) \/ ErrorAnswer(d) \/ CallFails(d) \/ TooBig(d)
      BY <2>5, <3>5 DEF Hit, NodeAnswers, ErrorAnswer, CallFails, TooBig, cacheVars
    <3> QED BY <3>2, <3>3, <3>4, <3>5 DEF Ask
  <2> QED BY <2>3, <2>4, <2>5
<1>2. Inv /\ [Next]_vars =>
         [\A c \in Clients : pc[c] = "answered" /\ pc'[c] = "idle" => AsNeeded(c)]_vars
  BY <1>1
<1> QED BY <1>2, Invariance, PTL DEF Spec, EvictsNoMore

=============================================================================
