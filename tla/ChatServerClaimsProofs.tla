----------------------- MODULE ChatServerClaimsProofs -----------------------
(***************************************************************************)
(* Theorems about the properties of ChatServerClaims, for all values of    *)
(* the constants: no request vanishes between a peer that wrote it and the *)
(* queue, and threads, locks and sockets together implement the room of    *)
(* ChatRoom.                                                               *)
(***************************************************************************)
EXTENDS ChatServerBroadcast, ChatServerClaims, FiniteSetTheorems,
        SequenceTheorems

-----------------------------------------------------------------------------
(***************************************************************************)
(* Sums over a finite set.  SumFunction takes the elements one by one, by  *)
(* a recursion whose solution is shown to exist for the parts of the set   *)
(* that have at most n elements, for the least n that could fail.          *)
(***************************************************************************)

\* The element a sum takes first.
First(s) == CHOOSE x \in s : TRUE

\* g is the sum of f over every part of S that has at most n elements.
SumsUpTo(f, S, n, g) ==
    g = [s \in { t \in SUBSET S : Cardinality(t) <= n } |->
            IF s = {} THEN 0 ELSE f[First(s)] + g[s \ {First(s)}]]

LEMMA LeastNatural ==
    ASSUME NEW T \in SUBSET Nat, T # {}
    PROVE  \E n \in T : \A m \in T : n <= m
<1>1. IsWellFoundedOn(OpToRel(<, Nat), Nat)
  BY NatLessThanWellFounded
<1>2. \E n \in T : \A m \in T : <<m, n>> \notin OpToRel(<, Nat)
  BY <1>1, WFMin, Zenon
<1>3. \A n \in T : \A m \in T : <<m, n>> \notin OpToRel(<, Nat) => n <= m
  BY DEF OpToRel
<1> QED
  BY <1>2, <1>3

LEMMA SumsExist ==
    ASSUME NEW f, NEW S, IsFiniteSet(S), NEW n \in Nat
    PROVE  \E g : SumsUpTo(f, S, n, g)
<1> DEFINE T == { m \in Nat : ~ \E g : SumsUpTo(f, S, m, g) }
<1>1. \A s \in SUBSET S : IsFiniteSet(s) /\ Cardinality(s) \in Nat
  BY FS_Subset, FS_CardinalityType
<1>2. \A s \in SUBSET S : s # {} => First(s) \in s
  BY DEF First
<1>3. \A s \in SUBSET S : s # {} =>
        /\ s \ {First(s)} \in SUBSET S
        /\ Cardinality(s \ {First(s)}) = Cardinality(s) - 1
  BY <1>1, <1>2, FS_RemoveElement
<1>4. \A s \in SUBSET S : Cardinality(s) <= 0 => s = {}
  BY <1>1, FS_EmptySet
<1>5. 0 \notin T
  <2> DEFINE g == [s \in { t \in SUBSET S : Cardinality(t) <= 0 } |-> 0]
  <2>1. g = [s \in { t \in SUBSET S : Cardinality(t) <= 0 } |->
                IF s = {} THEN 0 ELSE f[First(s)] + g[s \ {First(s)}]]
    BY <1>4
  <2> QED
    BY <2>1 DEF SumsUpTo
<1>6. ASSUME NEW m \in Nat, m \notin T
      PROVE  m + 1 \notin T
  <2>1. PICK g : SumsUpTo(f, S, m, g)
    BY <1>6
  <2> DEFINE D(k) == { t \in SUBSET S : Cardinality(t) <= k }
             h == [s \in D(m + 1) |->
                    IF s = {} THEN 0 ELSE f[First(s)] + g[s \ {First(s)}]]
  <2>2. \A s \in D(m) : s \in D(m + 1) /\ h[s] = g[s]
    <3>1. D(m) \subseteq D(m + 1)
      BY <1>1
    <3>2. \A s \in D(m) :
            g[s] = IF s = {} THEN 0 ELSE f[First(s)] + g[s \ {First(s)}]
      BY <2>1 DEF SumsUpTo
    <3>3. \A s \in D(m + 1) :
            h[s] = IF s = {} THEN 0 ELSE f[First(s)] + g[s \ {First(s)}]
      OBVIOUS
    <3> HIDE DEF D, h
    <3> QED
      BY <3>1, <3>2, <3>3
  <2>3. \A s \in D(m + 1) : s # {} => s \ {First(s)} \in D(m)
    BY <1>1, <1>3
  <2>4. h = [s \in D(m + 1) |->
                IF s = {} THEN 0 ELSE f[First(s)] + h[s \ {First(s)}]]
    BY <2>2, <2>3
  <2> QED
    BY <2>4 DEF SumsUpTo
<1>7. T = {}
  <2> SUFFICES ASSUME T # {} PROVE FALSE
    OBVIOUS
  <2>1. PICK k \in T : \A m \in T : k <= m
    BY LeastNatural
  <2>2. k # 0 /\ k \in Nat
    BY <1>5
  <2>3. k - 1 \in Nat /\ k - 1 \notin T
    BY <2>1, <2>2
  <2> HIDE DEF T
  <2> QED
    BY <1>6, <2>1, <2>2, <2>3
<1> QED
  BY <1>7

\* The recursion of the community module has a solution for a finite set.
LEMMA SumIterates ==
    ASSUME NEW f, NEW S, IsFiniteSet(S)
    PROVE  \E g : /\ g = [s \in SUBSET S |->
                            IF s = {} THEN 0
                            ELSE f[First(s)] + g[s \ {First(s)}]]
                  /\ SumFunctionOnSet(f, S) = g[S]
<1> DEFINE Is(g) == g = [s \in SUBSET S |->
                            IF s = {} THEN 0
                            ELSE f[First(s)] + g[s \ {First(s)}]]
<1>1. \E g : Is(g)
  <2>1. Cardinality(S) \in Nat
    BY FS_CardinalityType
  <2>2. \A s \in SUBSET S : Cardinality(s) <= Cardinality(S)
    BY FS_Subset
  <2>3. SUBSET S = { t \in SUBSET S : Cardinality(t) <= Cardinality(S) }
    BY <2>2
  <2>4. PICK g : SumsUpTo(f, S, Cardinality(S), g)
    BY <2>1, SumsExist
  <2> QED
    BY <2>3, <2>4 DEF SumsUpTo
<1>2. Is(CHOOSE g : Is(g))
  BY <1>1
<1>3. SumFunctionOnSet(f, S) = (CHOOSE g : Is(g))[S]
  BY DEF SumFunctionOnSet, FoldFunctionOnSet, MapThenFoldSet, First
<1> QED
  BY <1>2, <1>3

\* What holds of the empty part of S, and of every part if it does so of the
\* part without its first element, holds of S.
LEMMA FirstByFirst ==
    ASSUME NEW S, IsFiniteSet(S), NEW Good, {} \in Good,
           \A s \in SUBSET S : s # {} /\ s \ {First(s)} \in Good => s \in Good
    PROVE  S \in Good
<1> DEFINE T == { s \in SUBSET S : s \notin Good }
<1> SUFFICES ASSUME T # {} PROVE FALSE
  OBVIOUS
<1>1. PICK s \in T : \A t \in T : <<t, s>> \notin StrictSubsetOrdering(S)
  <2>1. IsWellFoundedOn(StrictSubsetOrdering(S), FiniteSubsetsOf(S))
    BY FS_StrictSubsetOrderingWellFounded
  <2>2. T \subseteq FiniteSubsetsOf(S)
    BY FS_FiniteSubsetsOfFinite
  <2> HIDE DEF T
  <2> QED
    BY <2>1, <2>2, WFMin
<1>2. s # {} /\ s \in SUBSET S /\ s \notin Good
  OBVIOUS
<1>3. First(s) \in s
  BY <1>2 DEF First
<1> DEFINE r == s \ {First(s)}
<1>4. r \in SUBSET S /\ r \subseteq s /\ r # s
  BY <1>2, <1>3
<1>5. <<r, s>> \in StrictSubsetOrdering(S)
  <2> HIDE DEF r
  <2> QED
    BY <1>2, <1>4 DEF StrictSubsetOrdering
<1>6. r \in Good
  BY <1>1, <1>4, <1>5
<1> QED
  BY <1>2, <1>6

LEMMA SumOfZeros ==
    ASSUME NEW S, IsFiniteSet(S), NEW zeros \in [S -> {0}]
    PROVE  SumFunction(zeros) = 0
<1>1. PICK F : /\ F = [s \in SUBSET S |->
                            IF s = {} THEN 0
                            ELSE zeros[First(s)] + F[s \ {First(s)}]]
               /\ SumFunctionOnSet(zeros, S) = F[S]
  BY SumIterates
<1> DEFINE Good == { s \in SUBSET S : F[s] = 0 }
<1>2. {} \in Good
  BY <1>1
<1>3. ASSUME NEW s \in SUBSET S, s # {}, s \ {First(s)} \in Good
      PROVE  s \in Good
  <2>1. F[s] = zeros[First(s)] + F[s \ {First(s)}] /\ First(s) \in S
    BY <1>1, <1>3 DEF First
  <2> QED
    BY <1>3, <2>1
<1>4. S \in Good
  <2> HIDE DEF Good
  <2> QED
    BY <1>2, <1>3, FirstByFirst
<1> QED
  BY <1>1, <1>4, DOMAIN zeros = S DEF SumFunction

\* A sum of integers is one, and changes by as much as its only summand that
\* does.
LEMMA SumFollows ==
    ASSUME NEW S, IsFiniteSet(S), NEW f \in [S -> Int], NEW g \in [S -> Int],
           NEW c \in S, \A d \in S \ {c} : g[d] = f[d]
    PROVE  /\ SumFunction(f) \in Int
           /\ SumFunction(g) = SumFunction(f) + (g[c] - f[c])
<1>1. PICK F : /\ F = [s \in SUBSET S |->
                        IF s = {} THEN 0 ELSE f[First(s)] + F[s \ {First(s)}]]
               /\ SumFunctionOnSet(f, S) = F[S]
  BY SumIterates
<1>2. PICK G : /\ G = [s \in SUBSET S |->
                        IF s = {} THEN 0 ELSE g[First(s)] + G[s \ {First(s)}]]
               /\ SumFunctionOnSet(g, S) = G[S]
  BY SumIterates
<1> DEFINE Good == { s \in SUBSET S :
                        /\ F[s] \in Int
                        /\ c \in s => G[s] = F[s] + (g[c] - f[c])
                        /\ c \notin s => G[s] = F[s] }
<1>3. {} \in Good
  BY <1>1, <1>2
<1>4. ASSUME NEW s \in SUBSET S, s # {}, s \ {First(s)} \in Good
      PROVE  s \in Good
  <2> DEFINE x == First(s)
             r == s \ {x}
  <2>1. x \in s /\ F[s] = f[x] + F[r] /\ G[s] = g[x] + G[r]
    BY <1>1, <1>2, <1>4 DEF First
  <2>2. F[r] \in Int /\ f[x] \in Int /\ f[c] \in Int /\ g[c] \in Int
    BY <1>4, <2>1
  <2>3. CASE x = c
    <3>1. G[r] = F[r]
      BY <1>4, <2>3
    <3>2. F[s] = f[c] + F[r] /\ G[s] = g[c] + F[r] /\ c \in s
      BY <2>1, <2>3, <3>1
    <3>3. F[s] \in Int /\ G[s] = F[s] + (g[c] - f[c])
      BY <2>2, <3>2
    <3> QED
      BY <3>2, <3>3
  <2>4. CASE x # c
    <3>1. g[x] = f[x]
      BY <2>1, <2>4
    <3>2. CASE c \in s
      <4>1. G[r] = F[r] + (g[c] - f[c])
        BY <1>4, <2>4, <3>2
      <4>2. F[s] \in Int /\ G[s] = F[s] + (g[c] - f[c])
        BY <2>1, <2>2, <3>1, <4>1
      <4> QED
        BY <3>2, <4>2
    <3>3. CASE c \notin s
      <4>1. G[r] = F[r]
        BY <1>4, <3>3
      <4>2. F[s] \in Int /\ G[s] = F[s]
        BY <2>1, <2>2, <3>1, <4>1
      <4> QED
        BY <3>3, <4>2
    <3> QED
      BY <3>2, <3>3
  <2> QED
    BY <2>3, <2>4
<1>5. S \in Good
  <2> HIDE DEF Good
  <2> QED
    BY <1>3, <1>4, FirstByFirst
<1>6. F[S] \in Int /\ G[S] = F[S] + (g[c] - f[c])
  BY <1>5
<1>7. DOMAIN f = S /\ DOMAIN g = S
  OBVIOUS
<1> QED
  BY <1>1, <1>2, <1>6, <1>7 DEF SumFunction

-----------------------------------------------------------------------------
(* Ends of requests in a text. *)

\* Ends of requests are finite in number.
LEMMA EndsType ==
    ASSUME NEW q \in Seq(Segment)
    PROVE  /\ IsFiniteSet(Ends(q))
           /\ Cardinality(Ends(q)) \in Nat
<1>1. IsFiniteSet(1 .. Len(q))
  BY FS_Interval
<1>2. Ends(q) \in SUBSET (1 .. Len(q))
  BY DEF Ends
<1> QED
  BY <1>1, <1>2, FS_Subset, FS_CardinalityType

\* The text of one request has one end, its last segment.
LEMMA OneEnd ==
    ASSUME NEW r \in Requests, NEW text \in Texts(r)
    PROVE  /\ text \in Seq(Segment) /\ Len(text) > 0
           /\ Ends(text) = {Len(text)}
<1>1. text \in Seq(Segment)
  BY TextsType
<1>2. \/ text = << Piece(r, "whole") >>
      \/ \E front \in {"head", "brace"} :
            text = << Piece(r, front), Piece(r, "tail") >>
  BY DEF Texts, Whole, Halves
<1>3. CASE text = << Piece(r, "whole") >>
  <2>1. Len(text) = 1 /\ text[1].piece = "whole"
    BY <1>3 DEF Piece
  <2> QED
    BY <1>1, <2>1 DEF Ends
<1>4. ASSUME NEW front \in {"head", "brace"},
             text = << Piece(r, front), Piece(r, "tail") >>
      PROVE  Len(text) > 0 /\ Ends(text) = {Len(text)}
  <2>1. Len(text) = 2 /\ text[1].piece = front /\ text[2].piece = "tail"
    BY <1>4 DEF Piece
  <2>2. 1 \notin Ends(text) /\ 2 \in Ends(text)
    BY <2>1 DEF Ends
  <2>3. Ends(text) \subseteq {1, 2}
    BY <2>1 DEF Ends
  <2> QED
    BY <2>1, <2>2, <2>3
<1> QED
  BY <1>1, <1>2, <1>3, <1>4

\* A request that is written adds one end to an inbox.
LEMMA WriteAddsOne ==
    ASSUME NEW q \in Seq(Segment), NEW r \in Requests, NEW text \in Texts(r)
    PROVE  Cardinality(Ends(q \o text)) = Cardinality(Ends(q)) + 1
<1> DEFINE e == Len(q) + Len(text)
<1>1. /\ text \in Seq(Segment) /\ Len(text) > 0
      /\ Ends(text) = {Len(text)}
  BY OneEnd
<1>2. /\ q \o text \in Seq(Segment) /\ Len(q \o text) = e
      /\ \A i \in 1 .. Len(q) : (q \o text)[i] = q[i]
      /\ \A i \in Len(q) + 1 .. e : (q \o text)[i] = text[i - Len(q)]
  BY <1>1, ConcatProperties
<1>3. /\ Len(q) \in Nat /\ Len(text) \in Nat
  BY <1>1
<1>4. ASSUME NEW i \in 1 .. e
      PROVE  i \in Ends(q \o text) <=> i \in Ends(q) \cup {e}
  <2>1. i \in Ends(q \o text) <=> (q \o text)[i].piece \in {"whole", "tail"}
    BY <1>2 DEF Ends
  <2>2. CASE i \in 1 .. Len(q)
    BY <1>1, <1>2, <1>3, <2>1, <2>2 DEF Ends
  <2>3. CASE i \in Len(q) + 1 .. e
    <3>1. i - Len(q) \in 1 .. Len(text)
      BY <1>3, <2>3
    <3>2. i \in Ends(q \o text) <=> i - Len(q) \in Ends(text)
      BY <1>2, <2>1, <2>3, <3>1 DEF Ends
    <3>3. i \notin Ends(q)
      BY <1>3, <2>3 DEF Ends
    <3> QED
      BY <1>1, <1>3, <2>3, <3>2, <3>3
  <2> QED
    BY <1>3, <2>2, <2>3
<1>5. Ends(q \o text) = Ends(q) \cup {e}
  <2>1. Ends(q \o text) \subseteq 1 .. e /\ Ends(q) \cup {e} \subseteq 1 .. e
    BY <1>1, <1>2, <1>3 DEF Ends
  <2> QED
    BY <1>4, <2>1
<1>6. e \notin Ends(q)
  BY <1>1, <1>3 DEF Ends
<1> QED
  BY <1>5, <1>6, EndsType, FS_AddElement

\* Text that parses has one end: a final front without a brace is dropped.
LEMMA ParsedOneEnd ==
    ASSUME NEW q \in Seq(Segment), q # << >>, Parses(q)
    PROVE  \E e \in 1 .. Len(q) : Ends(q) = {e}
<1> DEFINE kept == Trimmed(q)
<1>1. /\ Len(kept) \in 1 .. Len(q)
      /\ \A i \in 1 .. Len(kept) : kept[i] = q[i]
      /\ \A i \in Len(kept) + 1 .. Len(q) : q[i].piece = "head"
  <2>1. CASE Len(q) > 1 /\ Last(q).piece = "head"
    <3>1. /\ kept = SubSeq(q, 1, Len(q) - 1)
          /\ q[Len(q)].piece = "head"
      BY <2>1 DEF Trimmed, Front, Last
    <3>2. /\ Len(kept) = Len(q) - 1
          /\ \A i \in 1 .. Len(q) - 1 : kept[i] = q[i]
      BY <2>1, <3>1
    <3> QED
      BY <2>1, <3>1, <3>2
  <2>2. CASE ~(Len(q) > 1 /\ Last(q).piece = "head")
    <3>1. kept = q
      BY <2>2, Zenon DEF Trimmed
    <3> QED
      BY <3>1
  <2> QED
    BY <2>1, <2>2
<1>2. Ends(q) = { i \in 1 .. Len(kept) : kept[i].piece \in {"whole", "tail"} }
  BY <1>1 DEF Ends
<1>3. \/ Len(kept) = 1 /\ kept[1].piece = "whole"
      \/ /\ Len(kept) = 2
         /\ kept[1].piece \in {"head", "brace"}
         /\ kept[2].piece = "tail"
  BY Zenon DEF Parses
<1> HIDE DEF kept
<1>4. CASE Len(kept) = 1 /\ kept[1].piece = "whole"
  <2>1. Ends(q) = {1}
    BY <1>2, <1>4
  <2> QED
    BY <1>1, <2>1
<1>5. CASE /\ Len(kept) = 2
           /\ kept[1].piece \in {"head", "brace"}
           /\ kept[2].piece = "tail"
  <2>1. Ends(q) \subseteq {1, 2}
    BY <1>2, <1>5
  <2>2. 1 \notin Ends(q) /\ 2 \in Ends(q)
    BY <1>2, <1>5
  <2> QED
    BY <1>1, <1>5, <2>1, <2>2
<1> QED
  BY <1>3, <1>4, <1>5

\* A read whose text parses takes one end out of the inbox.
LEMMA ReadTakesOne ==
    ASSUME NEW q \in Seq(Segment), NEW k \in 1 .. Len(q),
           Parses(SubSeq(q, 1, k))
    PROVE  Cardinality(Ends(q))
                = Cardinality(Ends(SubSeq(q, k + 1, Len(q)))) + 1
<1> DEFINE text == SubSeq(q, 1, k)
           rest == SubSeq(q, k + 1, Len(q))
           S    == Ends(rest)
           T    == { j \in Ends(q) : j > k }
<1>0. Len(q) \in Nat /\ k \in Nat /\ 1 <= k /\ k <= Len(q)
  OBVIOUS
<1>1. /\ text \in Seq(Segment) /\ Len(text) = k
      /\ \A i \in 1 .. k : text[i] = q[i]
  OBVIOUS
<1>2. /\ rest \in Seq(Segment) /\ Len(rest) = Len(q) - k
      /\ \A i \in 1 .. Len(q) - k : rest[i] = q[i + k]
  OBVIOUS
<1>3. PICK e \in 1 .. k : Ends(text) = {e}
  <2>1. text # << >>
    BY <1>0, <1>1
  <2> HIDE DEF text
  <2> QED
    BY <1>1, <2>1, ParsedOneEnd DEF text
<1> HIDE DEF text, rest
<1>4. S = { i \in 1 .. Len(q) - k : q[i + k].piece \in {"whole", "tail"} }
  BY <1>2 DEF Ends
<1>5. /\ \A i \in S : i \in Nat /\ i + k \in T
      /\ \A j \in T : j \in Nat /\ j - k \in S
  BY <1>0, <1>4 DEF Ends
<1>6. Ends(q) = T \cup {e} /\ e \notin T
  <2>1. ASSUME NEW i \in 1 .. k
        PROVE  i \in Ends(q) <=> i = e
    <3>1. i \in Ends(q) <=> i \in Ends(text)
      BY <1>0, <1>1 DEF Ends
    <3> QED
      BY <1>3, <3>1
  <2>2. \A i \in Ends(q) : i \in 1 .. k \/ i \in T
    BY <1>0 DEF Ends
  <2>3. e \in Nat /\ e <= k
    BY <1>0
  <2> QED
    BY <1>0, <2>1, <2>2, <2>3
<1>7. ExistsBijection(S, T)
  <2> DEFINE f == [i \in S |-> i + k]
  <2>1. f \in [S -> T]
    BY <1>5
  <2>2. \A i, j \in S : f[i] = f[j] => i = j
    BY <1>0, <1>5
  <2>3. \A j \in T : \E i \in S : f[i] = j
    <3>1. ASSUME NEW j \in T
          PROVE  j - k \in S /\ f[j - k] = j
      BY <1>0, <1>5
    <3> QED
      BY <3>1
  <2> HIDE DEF S, T, f
  <2>4. f \in Bijection(S, T)
    BY <2>1, <2>2, <2>3 DEF Bijection, Injection, Surjection, IsInjective
  <2> QED
    BY <2>4 DEF ExistsBijection
<1>8. IsFiniteSet(S) /\ IsFiniteSet(T) /\ Cardinality(T) = Cardinality(S)
  <2>1. IsFiniteSet(S)
    BY <1>2, EndsType
  <2> HIDE DEF S, T
  <2> QED
    BY <1>7, <2>1, FS_Bijection
<1> HIDE DEF T
<1>9. Cardinality(Ends(q)) = Cardinality(T) + 1
  BY <1>6, <1>8, FS_AddElement
<1> QED
  BY <1>8, <1>9 DEF rest

-----------------------------------------------------------------------------
\* Nobody was reset yet, if nobody is after the step.
NoReset == \A c \in Conn : peer[c] # "reset"

LEMMA AccountInit == Init => RequestsAccounted
<1> SUFFICES ASSUME Init PROVE RequestsAccounted
  OBVIOUS
<1>1. /\ inbox = [c \in Conn |-> << >>]
      /\ sent = 0 /\ enqueued = 0 /\ refused = 0 /\ pcL = "listen"
  BY DEF Init, SocketsInit
<1>2. Ends(<< >>) = {}
  BY DEF Ends
<1>3. Cardinality(Ends(<< >>)) = 0
  BY <1>2, FS_EmptySet
<1>4. Unread \in [Conn -> {0}]
  BY <1>1, <1>3 DEF Unread
<1>5. SumFunction(Unread) = 0
  BY <1>4, ConnAssumption, SumOfZeros
<1> QED
  BY <1>1, <1>5 DEF RequestsAccounted, InHand

Counts ==
    /\ sent \in Nat /\ enqueued \in Nat /\ refused \in Nat
    /\ inbox \in [Conn -> Seq(Segment)]
    /\ Unread \in [Conn -> Nat]

LEMMA CountsInv == Inv => Counts
<1> SUFFICES ASSUME Inv PROVE Counts
  OBVIOUS
<1>1. /\ sent \in Nat /\ enqueued \in Nat /\ refused \in Nat
      /\ inbox \in [Conn -> Seq(Segment)]
  BY DEF Inv, TypeOK, SocketsTypeOK
<1>2. \A c \in Conn : Cardinality(Ends(inbox[c])) \in Nat
  BY <1>1, EndsType
<1> QED
  BY <1>1, <1>2 DEF Counts, Unread

\* The inbox of one connection changes, and with it the sum.
LEMMA AccountMoves ==
    ASSUME Counts, Counts', NEW c \in Conn,
           \A d \in Conn \ {c} : inbox'[d] = inbox[d]
    PROVE  /\ SumFunction(Unread) \in Int
           /\ Unread[c] \in Nat /\ Unread'[c] \in Nat
           /\ SumFunction(Unread)'
                = SumFunction(Unread) + (Unread'[c] - Unread[c])
<1> DEFINE f == Unread
           g == Unread'
<1>1. f \in [Conn -> Nat] /\ g \in [Conn -> Nat]
  BY DEF Counts
<1>2. \A d \in Conn \ {c} : g[d] = f[d]
  BY DEF Unread
<1> HIDE DEF f, g
<1>3. f \in [Conn -> Int] /\ g \in [Conn -> Int]
  BY <1>1
<1>4. /\ SumFunction(f) \in Int
      /\ SumFunction(g) = SumFunction(f) + (g[c] - f[c])
  BY <1>2, <1>3, ConnAssumption, SumFollows
<1> QED
  BY <1>1, <1>4 DEF f, g

\* Steps that write no request, read none and finish none.
LEMMA AccountFrame ==
    ASSUME RequestsAccounted, UNCHANGED <<inbox, sent, enqueued, refused>>,
           InHand' = InHand, fate' = "running" => fate = "running",
           NoReset' => NoReset
    PROVE  RequestsAccounted'
<1>1. Unread' = Unread
  BY DEF Unread
<1>2. SumFunction(Unread)' = SumFunction(Unread)
  BY <1>1
<1> HIDE DEF InHand
<1> QED
  BY <1>2 DEF RequestsAccounted, NoReset

\* Peers only go on to a reset, never back.
LEMMA ResetStays ==
    ASSUME Inv, NEW c \in Conn, PeerStep(c) \/ WriteText(c)
    PROVE  NoReset' => NoReset
<1>1. peer \in [Conn -> PeerState]
  BY DEF Inv, TypeOK, SocketsTypeOK
<1>2. \/ UNCHANGED peer
      \/ /\ peer[c] # "reset"
         /\ \E state : peer' = [peer EXCEPT ![c] = state]
  BY DEF PeerStep, Connect, PeerSend, PeerRead, PeerClose, PeerReset, WriteText
<1> QED
  BY <1>1, <1>2 DEF NoReset

LEMMA AccountDie ==
    ASSUME RequestsAccounted, NEW cause \in Crash \cup {"exited"}, Die(cause)
    PROVE  RequestsAccounted'
  BY DEF Die, RequestsAccounted, Crash

\* A peer writes a request, or the network takes what it wrote back.
LEMMA AccountPeers ==
    ASSUME Inv, Counts, Counts', RequestsAccounted, Peers
    PROVE  RequestsAccounted'
<1>1. PICK c \in Conn : PeerStep(c)
  BY DEF Peers
<1>2. UNCHANGED <<fate, enqueued, refused, pcL>>
  BY DEF Peers, queueVars, listenerVars
<1>3. NoReset' => NoReset
  BY <1>1, ResetStays
<1>4. CASE Connect(c) \/ PeerRead(c) \/ PeerClose(c)
  <2>1. UNCHANGED <<inbox, sent>>
    BY <1>4 DEF Connect, PeerRead, PeerClose
  <2> QED
    BY <1>2, <1>3, <2>1, AccountFrame DEF InHand
<1>5. CASE PeerReset(c)
  <2>1. peer'[c] = "reset"
    BY <1>5 DEF PeerReset, Inv, TypeOK, SocketsTypeOK
  <2> QED
    BY <2>1 DEF RequestsAccounted
<1>6. CASE PeerSend(c)
  <2>1. PICK r \in Requests : \E text \in Texts(r) :
            inbox' = [inbox EXCEPT ![c] = @ \o text]
    BY <1>6 DEF PeerSend
  <2>2. PICK text \in Texts(r) : inbox' = [inbox EXCEPT ![c] = @ \o text]
    BY <2>1
  <2>3. /\ inbox[c] \in Seq(Segment)
        /\ inbox'[c] = inbox[c] \o text
        /\ \A d \in Conn \ {c} : inbox'[d] = inbox[d]
    BY <2>2 DEF Counts
  <2>4. Unread'[c] = Unread[c] + 1
    BY <2>3, WriteAddsOne DEF Unread
  <2>5. /\ SumFunction(Unread) \in Int
        /\ SumFunction(Unread)' = SumFunction(Unread) + 1
    BY <2>3, <2>4, AccountMoves
  <2>6. sent' = sent + 1
    BY <1>6 DEF PeerSend
  <2> QED
    BY <1>2, <1>3, <2>5, <2>6
       DEF RequestsAccounted, NoReset, InHand, Counts
<1> QED
  BY <1>1, <1>4, <1>5, <1>6 DEF PeerStep

\* onSocket: the text of one request is read, and that request is in hand.
LEMMA AccountOnSocket ==
    ASSUME Inv, Counts, Counts', RequestsAccounted, NEW c \in Conn, OnSocket(c)
    PROVE  RequestsAccounted'
<1>1. pcL = "select" /\ ~InHand
  BY DEF OnSocket, InHand
<1>2. CASE \E cause \in Crash : Die(cause)
  BY <1>2, AccountDie
<1>3. CASE \A cause \in Crash : ~Die(cause)
  <2>1. /\ ~Die("read_closed") /\ ~Die("parse")
        /\ ~Die("bad_object") /\ ~Die("null_response")
    BY <1>3 DEF Crash
  <2>2. CASE OnSocketText(c)
    <3>1. PICK k \in 1 .. Len(inbox[c]) :
            /\ Parses(SubSeq(inbox[c], 1, k))
            /\ ReadText(c, k)
            /\ pcL' = AfterParse(Parsed(SubSeq(inbox[c], 1, k)))
            /\ UNCHANGED <<peer, sent, fate, queueVars>>
      BY <2>1, <2>2 DEF OnSocketText
    <3>2. InHand'
      BY <3>1 DEF InHand, AfterParse
    <3>3. /\ inbox[c] \in Seq(Segment)
          /\ inbox'[c] = SubSeq(inbox[c], k + 1, Len(inbox[c]))
          /\ \A d \in Conn \ {c} : inbox'[d] = inbox[d]
      BY <3>1 DEF ReadText, Counts
    <3>4. Unread[c] = Unread'[c] + 1
      BY <3>1, <3>3, ReadTakesOne DEF Unread
    <3>5. /\ SumFunction(Unread) \in Int
          /\ SumFunction(Unread)' = SumFunction(Unread) - 1
      BY <3>3, <3>4, AccountMoves
    <3> HIDE DEF InHand
    <3> QED
      BY <1>1, <3>1, <3>2, <3>5
         DEF RequestsAccounted, Counts, queueVars
  <2>3. CASE ~OnSocketText(c)
    <3>1. /\ pcL' = "remove"
          /\ UNCHANGED <<inbox, peer, sent, fate, enqueued, refused>>
      BY <2>1, <2>3 DEF OnSocket, peerSideVars, queueVars
    <3>2. ~InHand'
      BY <3>1 DEF InHand
    <3>3. NoReset' => NoReset
      BY <3>1 DEF NoReset
    <3>4. UNCHANGED <<inbox, sent, enqueued, refused>> /\ fate' = fate
      BY <3>1
    <3> HIDE DEF InHand, NoReset
    <3>5. InHand' = InHand
      BY <1>1, <3>2 DEF InHand
    <3> QED
      BY <3>3, <3>4, <3>5, AccountFrame
  <2> QED
    BY <2>2, <2>3
<1> QED
  BY <1>2, <1>3

\* The handlers: a request in hand is queued or refused.
LEMMA AccountHandlers ==
    ASSUME Inv, Counts, RequestsAccounted,
           \/ BeginWait \/ Timeout \/ OnStdin \/ OnSocketServer
           \/ ListenerLocksSockets \/ ListenerLocksQueue
           \/ Adopt \/ RemoveEnded \/ VisitLogin \/ Associate \/ Enqueue
           \/ Reply \/ Stop \/ EndListen \/ DestroyServer \/ Exit
    PROVE  RequestsAccounted'
<1> USE DEF socketVars, peerSideVars, queueVars, listenerVars, GoTo,
        HandlerReturns
<1>1. CASE \E cause \in Crash \cup {"exited"} : Die(cause)
  BY <1>1, AccountDie
<1>2. CASE \A cause \in Crash \cup {"exited"} : ~Die(cause)
  <2>1. CASE BeginWait \/ Timeout \/ OnStdin \/ OnSocketServer
    BY <1>2, <2>1, AccountFrame
       DEF BeginWait, Timeout, OnStdin, OnSocketServer, Crash, NoReset,
           InHand
  <2>2. CASE ListenerLocksSockets \/ ListenerLocksQueue
    BY <2>2, AccountFrame
       DEF ListenerLocksSockets, ListenerLocksQueue, NoReset, InHand
  <2>3. CASE Adopt \/ RemoveEnded \/ VisitLogin \/ Associate
    BY <2>3, AccountFrame
       DEF Adopt, RemoveEnded, VisitLogin, Associate, NoReset, InHand
  <2>4. CASE Stop \/ EndListen \/ DestroyServer
    BY <2>4, AccountFrame
       DEF Stop, EndListen, DestroyServer, NoReset, InHand
  <2>5. CASE Exit
    BY <1>2, <2>5 DEF Exit
  <2>6. CASE Enqueue
    <3>1. /\ InHand /\ ~InHand'
          /\ enqueued' = enqueued + 1
          /\ UNCHANGED <<inbox, peer, sent, refused, fate>>
      BY <2>6 DEF Enqueue, InHand
    <3>2. Unread' = Unread
      BY <3>1 DEF Unread
    <3>3. SumFunction(Unread)' = SumFunction(Unread)
      BY <3>2
    <3> HIDE DEF InHand
    <3> QED
      BY <3>1, <3>3 DEF RequestsAccounted, Counts
  <2>7. CASE Reply
    <3>1. /\ InHand /\ ~InHand'
          /\ refused' = refused + 1
          /\ UNCHANGED <<inbox, sent, enqueued, fate>>
          /\ UNCHANGED peer \/ WriteText(cur)
      BY <1>2, <2>7 DEF Reply, InHand, Crash
    <3>2. Unread' = Unread
      BY <3>1 DEF Unread
    <3>3. SumFunction(Unread)' = SumFunction(Unread)
      BY <3>2
    <3>4. cur \in Conn
      BY <2>7 DEF Reply, Inv, HandlerInv, Handling
    <3>5. NoReset' => NoReset
      BY <3>1, <3>4, ResetStays DEF NoReset
    <3> HIDE DEF InHand
    <3> QED
      BY <3>1, <3>3, <3>5 DEF RequestsAccounted, Counts, NoReset
  <2> QED
    BY <2>1, <2>2, <2>3, <2>4, <2>5, <2>6, <2>7
<1> QED
  BY <1>1, <1>2

\* sendMessages has to do with responses alone.
LEMMA AccountSender ==
    ASSUME Inv, RequestsAccounted, Sender
    PROVE  RequestsAccounted'
<1>1. CASE \E cause \in Crash : Die(cause)
  BY <1>1, AccountDie
<1>2. CASE ~\E cause \in Crash : Die(cause)
  <2>1. /\ UNCHANGED <<inbox, sent, enqueued, refused, pcL, fate>>
        /\ UNCHANGED peer \/ \E c \in Conn : WriteText(c)
    BY <1>2 DEF Sender, SenderTest, SenderLocksQueue, SenderLocksSockets,
       SenderWrites, SenderUnlocksSockets, SenderClears, SenderOutlivesServer,
       Crash, socketVars, peerSideVars, queueVars, listenerVars
  <2>2. NoReset' => NoReset
    BY <2>1, ResetStays DEF NoReset
  <2> QED
    BY <2>1, <2>2, AccountFrame DEF InHand
<1> QED
  BY <1>1, <1>2

LEMMA AccountNext ==
    Inv /\ Counts /\ Counts' /\ RequestsAccounted /\ [Next]_vars
        => RequestsAccounted'
<1> SUFFICES ASSUME Inv, Counts, Counts', RequestsAccounted, [Next]_vars
             PROVE  RequestsAccounted'
  OBVIOUS
<1>1. CASE Operator \/ UNCHANGED vars
  BY <1>1, AccountFrame DEF Operator, Type, vars, socketVars, queueVars,
     listenerVars, NoReset, InHand
<1> QED
  BY <1>1, AccountPeers, AccountOnSocket, AccountHandlers, AccountSender
     DEF Next, Listener, Gone

(***************************************************************************)
(* socket::read, json::from, onSocket: as long as the server lives and no  *)
(* connection was aborted, every request that was written is queued,       *)
(* refused, in hand, or has its end unread in an inbox, however the        *)
(* network cut the text and however much of it a read returned.            *)
(***************************************************************************)
THEOREM RequestsAreAccounted == Spec => []RequestsAccounted
<1> QED
  BY InvInit, InvNext, CountsInv, AccountInit, AccountNext, PTL DEF Spec

-----------------------------------------------------------------------------
(***************************************************************************)
(* The room: every step of the server is a step of ChatRoom, or none that  *)
(* a member can tell.                                                      *)
(***************************************************************************)

\* Who is in the room: whom the waiter knows, whose event is handled, and
\* who is being written to; a socket that is being adopted is not yet in.
MemberInv ==
    /\ waiterSockets \subseteq sockets
    /\ pcL = "select" => watched \subseteq waiterSockets
    /\ pcL = "adopt" => cur \notin sockets /\ cur \in open
    /\ pcL \in Handling \ {"adopt"} => cur \in sockets
    /\ pcS = "writing" => todo \subseteq sockets

LEMMA MemberInvInit == Init => MemberInv
  BY DEF Init, SocketsInit, FlexWaiterInit, MemberInv, Handling

\* Steps that let nobody in or out, and open no socket being adopted.
LEMMA MemberFrame ==
    ASSUME MemberInv, UNCHANGED <<sockets, waiterSockets>>,
           \/ pcL' \notin {"select"} \cup Handling
           \/ UNCHANGED <<pcL, cur, watched>>
           \/ /\ pcL \in Handling \ {"adopt"} /\ pcL' \in Handling \ {"adopt"}
              /\ cur' = cur,
           pcL = "adopt" /\ cur \in open => cur \in open',
           pcS' # "writing" \/ (pcS = "writing" /\ todo' \subseteq todo)
    PROVE  MemberInv'
  BY DEF MemberInv, Handling

LEMMA MemberDie ==
    ASSUME MemberInv, NEW cause, Die(cause)
    PROVE  MemberInv'
  BY DEF Die, MemberInv, socketVars, waiterVars, vectorVars, listenerVars,
     senderVars

\* wait() and the handlers up to their first lock.
LEMMA MemberWait ==
    ASSUME Inv, BroadcastInv, MemberInv,
           \/ BeginWait \/ Timeout \/ OnStdin \/ OnSocketServer
           \/ \E c \in Conn : OnSocket(c)
    PROVE  MemberInv'
<1> USE DEF socketVars, waiterVars, vectorVars, senderVars, GoTo, Handling
<1>1. CASE \E cause \in Fate : Die(cause)
  BY <1>1, MemberDie
<1>2. CASE ~\E cause \in Fate : Die(cause)
  <2>1. CASE BeginWait
    BY <2>1 DEF BeginWait, BuildFdSet, MemberInv
  <2>2. CASE Timeout
    BY <2>2, MemberFrame DEF Timeout
  <2>3. CASE OnStdin
    <3>1. UNCHANGED <<sockets, waiterSockets, open, cur, pcS, todo>>
      BY <2>3 DEF OnStdin
    <3>2. CASE stdin = "exit"
      <4>1. pcL' = "stop"
        BY <2>3, <3>2 DEF OnStdin
      <4> QED
        BY <3>1, <4>1 DEF MemberInv
    <3>3. CASE stdin # "exit"
      <4>1. pcL' = "listen"
        BY <2>3, <3>3 DEF OnStdin
      <4> QED
        BY <3>1, <4>1 DEF MemberInv
    <3> QED
      BY <3>2, <3>3
  <2>4. CASE OnSocketServer
    <3>1. PICK c \in backlog :
              /\ Accept(c)
              /\ pcL' = "adopt" /\ cur' = c
              /\ UNCHANGED <<sockets, waiterSockets, pcS, todo>>
      BY <1>2, <2>4 DEF OnSocketServer, Fate, Crash
    <3>2. c \notin sockets /\ c \in open'
      BY <3>1 DEF Accept, BroadcastInv, ConnInv
    <3> QED
      BY <3>1, <3>2 DEF MemberInv
  <2>5. ASSUME NEW c \in Conn, OnSocket(c)
        PROVE  MemberInv'
    <3>1. /\ pcL = "select" /\ c \in watched /\ cur' = c
          /\ pcL' \in {"visitLogin", "enqueue", "remove"}
          /\ UNCHANGED <<sockets, waiterSockets, pcS, todo>>
      BY <1>2, <2>5 DEF OnSocket, OnSocketText, AfterParse, CallsOnSocket,
         ChildReady, Fate, Crash
    <3> QED
      BY <3>1 DEF MemberInv
  <2> QED
    BY <2>1, <2>2, <2>3, <2>4, <2>5
<1> QED
  BY <1>1, <1>2

\* The two steps that let a member in and out, both under socketsLock.
LEMMA MemberDoor ==
    ASSUME Inv, MemberInv, Adopt \/ RemoveEnded
    PROVE  MemberInv'
<1>1. pcS # "writing" /\ pcS' = pcS /\ pcL' = "listen"
  BY DEF Adopt, RemoveEnded, HandlerReturns, senderVars, Inv, LockInv
<1>2. CASE Adopt
  BY <1>1, <1>2 DEF Adopt, AddSocket, MemberInv, Handling
<1>3. CASE RemoveEnded
  BY <1>1, <1>3 DEF RemoveEnded, RemoveSocket, MemberInv, Handling
<1> QED
  BY <1>2, <1>3

LEMMA MemberHandlers ==
    ASSUME Inv, MemberInv,
           \/ ListenerLocksSockets \/ ListenerLocksQueue
           \/ VisitLogin \/ Associate \/ Enqueue \/ Reply
           \/ Stop \/ EndListen \/ DestroyServer \/ Exit
    PROVE  MemberInv'
<1> USE DEF socketVars, waiterVars, vectorVars, listenerVars, senderVars,
        GoTo, HandlerReturns
<1>1. CASE ListenerLocksSockets \/ ListenerLocksQueue
  BY <1>1, MemberFrame DEF ListenerLocksSockets, ListenerLocksQueue
<1>2. CASE VisitLogin \/ Associate \/ Enqueue
  BY <1>2, MemberFrame DEF VisitLogin, Associate, Enqueue, Handling
<1>3. CASE Reply
  <2>1. CASE \E cause \in Fate : Die(cause)
    BY <2>1, MemberDie
  <2>2. CASE ~\E cause \in Fate : Die(cause)
    BY <1>3, <2>2, MemberFrame DEF Reply, Handling, Fate, Crash
  <2> QED
    BY <2>1, <2>2
<1>4. CASE Stop \/ EndListen \/ DestroyServer
  BY <1>4, MemberFrame DEF Stop, EndListen, DestroyServer, Handling
<1>5. CASE Exit
  BY <1>5, MemberDie DEF Exit
<1> QED
  BY <1>1, <1>2, <1>3, <1>4, <1>5

LEMMA MemberSender ==
    ASSUME Inv, MemberInv, Sender
    PROVE  MemberInv'
<1> USE DEF socketVars, waiterVars, vectorVars, listenerVars
<1>1. CASE SenderTest \/ SenderLocksQueue \/ SenderUnlocksSockets
           \/ SenderClears
  BY <1>1, MemberFrame DEF SenderTest, SenderLocksQueue,
     SenderUnlocksSockets, SenderClears
<1>2. CASE SenderLocksSockets
  BY <1>2 DEF SenderLocksSockets, MemberInv
<1>3. CASE \E cause \in Fate : Die(cause)
  BY <1>3, MemberDie
<1>4. ASSUME NEW c \in Conn, SenderWrites(c), ~\E cause \in Fate : Die(cause)
      PROVE  MemberInv'
  <2>1. /\ pcS = "writing" /\ pcS' = pcS /\ c \in todo
        /\ todo' = todo \ {c}
        /\ open' = open \/ open' = open \ {c}
        /\ UNCHANGED <<sockets, waiterSockets, pcL, cur, watched>>
    BY <1>4 DEF SenderWrites, WriteFailure, Fate, Crash
  <2>2. pcL = "adopt" => cur # c
    BY <2>1 DEF MemberInv
  <2> QED
    BY <2>1, <2>2, MemberFrame
<1>5. CASE SenderOutlivesServer /\ ~\E cause \in Fate : Die(cause)
  BY <1>5, MemberFrame DEF SenderOutlivesServer, Fate, Crash
<1> QED
  BY <1>1, <1>2, <1>3, <1>4, <1>5 DEF Sender

LEMMA MemberInvNext ==
    Inv /\ BroadcastInv /\ MemberInv /\ [Next]_vars => MemberInv'
<1> SUFFICES ASSUME Inv, BroadcastInv, MemberInv, [Next]_vars
             PROVE  MemberInv'
  OBVIOUS
<1>1. CASE Peers
  <2>1. PICK c \in Conn : PeerStep(c)
    BY <1>1 DEF Peers
  <2>2. open' = open
    BY <2>1 DEF PeerStep, Connect, PeerSend, PeerRead, PeerClose, PeerReset,
       serverSideVars
  <2> QED
    BY <1>1, <2>2, MemberFrame DEF Peers, waiterVars, vectorVars,
       listenerVars, senderVars
<1>2. CASE Operator \/ UNCHANGED vars
  BY <1>2, MemberFrame DEF Operator, Type, vars, socketVars, waiterVars,
     vectorVars, listenerVars, senderVars
<1>3. CASE Listener
  BY <1>3, MemberWait, MemberDoor, MemberHandlers DEF Listener
<1> QED
  BY <1>1, <1>2, <1>3, MemberSender DEF Next, Gone

-----------------------------------------------------------------------------
(* The steps of the room. *)

\* Nothing happens in the room but that members may be lost.
LEMMA RoomFrame ==
    ASSUME UNCHANGED <<sockets, username, enqueued, Done, last>>,
           \A c \in sockets : c \in open' => c \in open
    PROVE  [Room!Next]_(Room!vars)
<1> DEFINE group == sockets \ open'
<1>1. group \in SUBSET sockets
  OBVIOUS
<1>2. (sockets \ open)' = (sockets \ open) \cup group
  OBVIOUS
<1>3. Room!Lose(group)
  BY <1>1, <1>2 DEF Room!Lose
<1> QED
  BY <1>1, <1>3 DEF Room!Next

\* What the room sees is left alone.
LEMMA RoomStutter ==
    ASSUME UNCHANGED <<sockets, username, open, enqueued, messageQueue, mi,
                       last>>
    PROVE  [Room!Next]_(Room!vars)
  BY RoomFrame DEF Done

LEMMA RoomDie ==
    ASSUME NEW cause, Die(cause)
    PROVE  [Room!Next]_(Room!vars)
  BY RoomStutter DEF Die, socketVars, vectorVars, queueVars, senderVars

LEMMA RoomJoin ==
    ASSUME Inv, BroadcastInv, MemberInv, Adopt
    PROVE  [Room!Next]_(Room!vars)
<1>1. /\ pcL = "adopt" /\ socketsLock = "listener"
      /\ sockets' = sockets \cup {cur}
      /\ username' = [username EXCEPT ![cur] = NoName]
      /\ last' = [last EXCEPT ![cur] = Done]
      /\ UNCHANGED <<open, enqueued, messageQueue, mi>>
  BY DEF Adopt, socketVars, queueVars, senderVars
<1>2. cur \in Conn /\ cur \notin sockets /\ cur \in open
  BY <1>1 DEF MemberInv, Inv, HandlerInv, Handling
<1>3. Done' = Done
  BY <1>1 DEF Done
<1>4. Room!BetweenRounds
  <2>1. pcS # "writing" /\ Done \in Nat
    BY <1>1, DoneType DEF Inv, LockInv
  <2> QED
    BY <2>1 DEF Room!BetweenRounds, Room!Present, BroadcastInv,
       BroadcastComplete
<1>5. (sockets \ open)' = (sockets \ open) \ {cur}
  BY <1>1, <1>2
<1>6. Room!Join(cur)
  BY <1>1, <1>2, <1>3, <1>4, <1>5 DEF Room!Join
<1> QED
  BY <1>2, <1>6 DEF Room!Next

LEMMA RoomLeave ==
    ASSUME Inv, BroadcastInv, MemberInv, RemoveEnded
    PROVE  [Room!Next]_(Room!vars)
<1>1. /\ pcL = "remove" /\ socketsLock = "listener"
      /\ sockets' = sockets \ {cur}
      /\ username' = [username EXCEPT ![cur] = NoName]
      /\ last' = [last EXCEPT ![cur] = 0]
      /\ UNCHANGED <<open, enqueued, messageQueue, mi>>
  BY DEF RemoveEnded, socketVars, queueVars, senderVars
<1>2. cur \in Conn /\ cur \in sockets
  BY <1>1 DEF MemberInv, Inv, HandlerInv, Handling
<1>3. Done' = Done
  BY <1>1 DEF Done
<1>4. Room!BetweenRounds
  <2>1. pcS # "writing" /\ Done \in Nat
    BY <1>1, DoneType DEF Inv, LockInv
  <2> QED
    BY <2>1 DEF Room!BetweenRounds, Room!Present, BroadcastInv,
       BroadcastComplete
<1>5. (sockets \ open)' = (sockets \ open) \ {cur}
  BY <1>1
<1>6. Room!Leave(cur)
  BY <1>1, <1>2, <1>3, <1>4, <1>5 DEF Room!Leave
<1> QED
  BY <1>2, <1>6 DEF Room!Next

LEMMA RoomCall ==
    ASSUME Inv, NameInv, MemberInv, Associate
    PROVE  [Room!Next]_(Room!vars)
<1>1. /\ pcL = "associate"
      /\ username' = [c \in Conn |-> IF c \in sockets /\ c = cur
                                       THEN req.sender ELSE username[c]]
      /\ UNCHANGED <<sockets, open, enqueued, messageQueue, mi, last>>
  BY DEF Associate, socketVars, queueVars, senderVars
<1>2. cur \in Conn /\ cur \in sockets
  BY <1>1 DEF MemberInv, Inv, HandlerInv, Handling
<1>3. Done' = Done
  BY <1>1 DEF Done
<1>4. username \in [Conn -> Names] /\ req.sender \in Name \cup {NoName}
  BY DEF Inv, TypeOK, Request, Names
<1>5. username' = [username EXCEPT ![cur] = req.sender]
  BY <1>1, <1>2, <1>4
<1>6. Room!Call(cur, req.sender)
  BY <1>1, <1>2, <1>3, <1>5 DEF Room!Call, NameInv
<1> QED
  BY <1>2, <1>4, <1>6 DEF Room!Next

LEMMA RoomPost ==
    ASSUME Inv, Enqueue
    PROVE  [Room!Next]_(Room!vars)
<1>1. /\ enqueued' = enqueued + 1
      /\ UNCHANGED <<sockets, username, open, mi, last>>
  BY DEF Enqueue, socketVars, vectorVars, senderVars
<1>2. Len(messageQueue') = Len(messageQueue) + 1
  BY DEF Enqueue, Inv, TypeOK
<1>3. Done' = Done
  BY <1>1, <1>2 DEF Done, Inv, TypeOK
<1>4. Room!Post
  BY <1>1, <1>3 DEF Room!Post
<1> QED
  BY <1>4 DEF Room!Next

\* A write tells the post of the round, or shows that the member is lost.
LEMMA RoomTell ==
    ASSUME Inv, BroadcastInv, MemberInv, NEW c \in Conn, SenderWrites(c)
    PROVE  [Room!Next]_(Room!vars)
<1>1. CASE \E cause \in Fate : Die(cause)
  BY <1>1, RoomDie
<1>2. CASE ~\E cause \in Fate : Die(cause)
  <2>1. /\ pcS = "writing" /\ c \in todo /\ c \in open
        /\ \/ /\ last' = [last EXCEPT ![c] = messageQueue[mi].number]
              /\ UNCHANGED open
           \/ open' = open \ {c} /\ UNCHANGED last
        /\ UNCHANGED <<sockets, username, enqueued, messageQueue, mi>>
    BY <1>2 DEF SenderWrites, WriteFailure, vectorVars, queueVars, Fate, Crash
  <2>2. Done' = Done
    BY <2>1 DEF Done
  <2>3. CASE open' = open \ {c} /\ UNCHANGED last
    BY <2>1, <2>2, <2>3, RoomFrame
  <2>4. CASE /\ last' = [last EXCEPT ![c] = messageQueue[mi].number]
             /\ UNCHANGED open
    <3>1. messageQueue[mi].number = Done + 1 /\ Done < enqueued
      BY <2>1 DEF Done, Inv, TypeOK, QueueInv
    <3>2. c \in sockets \cap open /\ last[c] = Done
      BY <2>1, DoneType DEF MemberInv, BroadcastInv, BroadcastComplete
    <3>3. Room!Tell(c)
      BY <2>1, <2>2, <2>4, <3>1, <3>2 DEF Room!Tell, Room!Present
    <3> QED
      BY <3>3 DEF Room!Next
  <2> QED
    BY <2>1, <2>3, <2>4
<1> QED
  BY <1>1, <1>2

LEMMA RoomEndRound ==
    ASSUME Inv, BroadcastInv, SenderUnlocksSockets
    PROVE  [Room!Next]_(Room!vars)
<1>1. /\ pcS = "writing" /\ todo = {} /\ mi' = mi + 1
      /\ UNCHANGED <<sockets, username, open, enqueued, messageQueue, last>>
  BY DEF SenderUnlocksSockets, socketVars, vectorVars, queueVars
<1>2. mi \in 1 .. Len(messageQueue)
  BY <1>1 DEF Inv, QueueInv
<1>3. Done' = Done + 1 /\ Done < enqueued
  BY <1>1, <1>2, DoneType DEF Done, Inv, TypeOK
<1>4. \A c \in sockets \cap open : last[c] = Done + 1
  BY <1>1 DEF BroadcastInv, BroadcastComplete
<1>5. Room!EndRound
  BY <1>1, <1>3, <1>4 DEF Room!EndRound, Room!Present
<1> QED
  BY <1>5 DEF Room!Next

LEMMA RoomSender ==
    ASSUME Inv, BroadcastInv, MemberInv, Sender
    PROVE  [Room!Next]_(Room!vars)
<1> USE DEF socketVars, vectorVars, queueVars
<1>1. CASE SenderTest \/ SenderLocksSockets
  BY <1>1, RoomStutter DEF SenderTest, SenderLocksSockets
<1>2. CASE SenderLocksQueue
  <2>1. mi = 0 /\ mi' = 1
    BY <1>2 DEF SenderLocksQueue, Inv, QueueInv
  <2>2. Done' = Done
    BY <1>2, <2>1 DEF SenderLocksQueue, Done, Inv, TypeOK
  <2> QED
    BY <1>2, <2>2, RoomFrame DEF SenderLocksQueue
<1>3. CASE SenderClears
  <2>1. mi = Len(messageQueue) + 1 /\ mi' = 0 /\ messageQueue' = << >>
    BY <1>3 DEF SenderClears, Inv, TypeOK, QueueInv
  <2>2. Done' = Done
    BY <1>3, <2>1 DEF SenderClears, Done, Inv, TypeOK
  <2> QED
    BY <1>3, <2>2, RoomFrame DEF SenderClears
<1>4. CASE SenderOutlivesServer
  BY <1>4, RoomDie, RoomStutter DEF SenderOutlivesServer
<1> QED
  BY <1>1, <1>2, <1>3, <1>4, RoomTell, RoomEndRound DEF Sender

LEMMA RoomListener ==
    ASSUME Inv, BroadcastInv, NameInv, MemberInv, Listener
    PROVE  [Room!Next]_(Room!vars)
<1> USE DEF socketVars, vectorVars, queueVars, senderVars
<1>1. CASE \E cause \in Fate : Die(cause)
  BY <1>1, RoomDie
<1>2. CASE ~\E cause \in Fate : Die(cause)
  <2>1. CASE BeginWait \/ Timeout \/ OnStdin \/ ListenerLocksSockets
             \/ ListenerLocksQueue \/ VisitLogin \/ EndListen \/ DestroyServer
    BY <2>1, RoomStutter DEF BeginWait, Timeout, OnStdin,
       ListenerLocksSockets, ListenerLocksQueue, VisitLogin, EndListen,
       DestroyServer
  <2>2. CASE OnSocketServer
    <3>1. PICK c \in backlog :
              /\ open' = open \cup {c}
              /\ UNCHANGED <<sockets, username, enqueued, messageQueue, mi,
                             last>>
      BY <1>2, <2>2 DEF OnSocketServer, Accept, Fate, Crash
    <3>2. c \notin sockets
      BY DEF BroadcastInv, ConnInv
    <3> QED
      BY <3>1, <3>2, RoomFrame DEF Done
  <2>3. ASSUME NEW c \in Conn, OnSocket(c)
        PROVE  [Room!Next]_(Room!vars)
    <3>1. /\ open' \subseteq open
          /\ UNCHANGED <<sockets, username, enqueued, messageQueue, mi, last>>
      BY <1>2, <2>3 DEF OnSocket, OnSocketText, ReadEnd, serverSideVars,
         Fate, Crash
    <3> QED
      BY <3>1, RoomFrame DEF Done
  <2>4. CASE Reply
    <3>1. /\ open' \subseteq open
          /\ UNCHANGED <<sockets, username, enqueued, messageQueue, mi, last>>
      BY <1>2, <2>4 DEF Reply, WriteFailure, Fate, Crash
    <3> QED
      BY <3>1, RoomFrame DEF Done
  <2>5. CASE Stop
    BY <2>5, RoomFrame DEF Stop, CloseAll, Done
  <2>6. CASE Exit
    BY <2>6, RoomDie DEF Exit
  <2> QED
    BY <2>1, <2>2, <2>3, <2>4, <2>5, <2>6, RoomJoin, RoomLeave, RoomCall,
       RoomPost DEF Listener
<1> QED
  BY <1>1, <1>2

LEMMA RoomInit == Init => Room!Init
<1> SUFFICES ASSUME Init PROVE Room!Init
  OBVIOUS
<1>1. enqueued = 0 /\ Len(messageQueue) = 0 /\ mi = 0
  BY DEF Init
<1>2. enqueued - Len(messageQueue) = 0
  BY <1>1
<1>3. Done = 0
  BY <1>1, <1>2 DEF Done
<1> QED
  BY <1>3 DEF Init, SocketsInit, Room!Init

LEMMA RoomNext ==
    Inv /\ BroadcastInv /\ NameInv /\ MemberInv /\ [Next]_vars
        => [Room!Next]_(Room!vars)
<1> SUFFICES ASSUME Inv, BroadcastInv, NameInv, MemberInv, [Next]_vars
             PROVE  [Room!Next]_(Room!vars)
  OBVIOUS
<1>1. CASE Peers
  <2>1. PICK c \in Conn : PeerStep(c)
    BY <1>1 DEF Peers
  <2>2. open' = open
    BY <2>1 DEF PeerStep, Connect, PeerSend, PeerRead, PeerClose, PeerReset,
       serverSideVars
  <2> QED
    BY <1>1, <2>2, RoomStutter DEF Peers, vectorVars, queueVars, senderVars
<1>2. CASE Operator \/ UNCHANGED vars
  BY <1>2, RoomStutter DEF Operator, Type, vars, socketVars, vectorVars,
     queueVars, senderVars
<1> QED
  BY <1>1, <1>2, RoomListener, RoomSender DEF Next, Gone

(***************************************************************************)
(* server.cpp: two threads, two mutexes and the flags of the sockets make  *)
(* up a room whose members have distinct names and hear each post once, in *)
(* rounds that nobody enters or leaves.                                    *)
(***************************************************************************)
THEOREM ServerIsRoom == Spec => ImplementsRoom
<1> QED
  BY InvInit, InvNext, BroadcastInvInit, BroadcastInvNext, NameInvInit,
     NameInvNext, MemberInvInit, MemberInvNext, RoomInit, RoomNext, PTL
     DEF Spec, ImplementsRoom, Room!Spec
=============================================================================
