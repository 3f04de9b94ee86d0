----------------------------- MODULE CapabilitiesProofs -----------------------------
(***************************************************************************)
(* Proofs about Mime and Capabilities, for any words, texts and manifests: *)
(* what mimeMatch means, that the canonical form of a MIME type is one,    *)
(* that the registry only ever holds canonical manifests, and that the     *)
(* answer to a query is right, sorted, and the same for every order of     *)
(* Go's map.                                                               *)
(***************************************************************************)
EXTENDS Capabilities, FiniteSetTheorems, FunctionTheorems, SequenceTheorems,
        WellFoundedInduction, TLAPS

\* Concrete types over the parts T and S, and the patterns over them.
Concrete(T, S) == [type : T, sub : S]
Patterns(T, S) == [type : T, sub : S \cup {Star}] \cup {AnyType}

\* The concrete types a pattern stands for.
Denotes(p, T, S) ==
    {x \in Concrete(T, S) : (p.type = x.type \/ p = AnyType)
                              /\ (p.sub = x.sub \/ p.sub = Star)}

\* The 3x3 matrix of mime.go:60-64 is the meeting of patterns, whatever the
\* types and subtypes are.
THEOREM MatchIsMeeting ==
    ASSUME NEW T, NEW S, T # {}, S # {}, Star \notin T, Star \notin S,
           NEW p \in Patterns(T, S), NEW q \in Patterns(T, S)
    PROVE  MimeMatch(p, q) <=> Denotes(p, T, S) \cap Denotes(q, T, S) # {}
<1>1. ASSUME MimeMatch(p, q)
      PROVE  \E x \in Concrete(T, S) : x \in Denotes(p, T, S) \cap Denotes(q, T, S)
  <2>1. PICK t \in T : (p = AnyType \/ p.type = t) /\ (q = AnyType \/ q.type = t)
    BY <1>1 DEF MimeMatch, Patterns
  <2>2. PICK s \in S : p.sub \in {s, Star} /\ q.sub \in {s, Star}
    BY <1>1 DEF MimeMatch, Patterns, AnyType
  <2>3. [type |-> t, sub |-> s] \in Concrete(T, S)
    BY DEF Concrete
  <2> WITNESS [type |-> t, sub |-> s] \in Concrete(T, S)
  <2> QED BY <2>1, <2>2, <2>3 DEF Denotes
<1>2. ASSUME NEW x \in Concrete(T, S),
             x \in Denotes(p, T, S), x \in Denotes(q, T, S)
      PROVE  MimeMatch(p, q)
  BY <1>2 DEF Denotes, MimeMatch
<1> QED BY <1>1, <1>2 DEF Denotes

\* Which side asks does not matter (mime.go:57).
THEOREM MatchIsSymmetric ==
    \A p, q : MimeMatch(p, q) <=> MimeMatch(q, p)
BY DEF MimeMatch

\* A capability the client offers for a request is one the server would have
\* returned for it; not the other way round, the client knows no "type/*".
THEOREM ResolverWithinServer ==
    ASSUME NEW mimes, NEW requested, mimes # {},
           ResolverMatch(mimes, requested)
    PROVE  \E m \in mimes : MimeMatch(m, requested)
BY DEF ResolverMatch, MimeMatch
-----------------------------------------------------------------------------
(* The canonical form.                                                     *)

AllTexts == Seq(Tokens)
Trimmed(s) == s # <<>> => s[1] # Space /\ s[Len(s)] # Space

\* A non-empty set of natural numbers has a least one.
LEMMA Least ==
    ASSUME NEW P \in SUBSET Nat, P # {}
    PROVE  \E i \in P : \A j \in P : i <= j
<1>1. PICK i \in P : \A j \in P : <<j, i>> \notin OpToRel(<, Nat)
  BY WFMin, NatLessThanWellFounded, Zenon
<1>2. ASSUME NEW j \in P PROVE ~(j < i)
  BY <1>1 DEF OpToRel
<1>3. \A j \in P : i <= j
  BY <1>2
<1> QED BY <1>3

\* A non-empty set of places of a text has a first and a last.
LEMMA FirstAndLast ==
    ASSUME NEW n \in Nat, NEW P \in SUBSET (1..n), P # {}
    PROVE  /\ \E i \in P : \A j \in P : i <= j
           /\ \E i \in P : \A j \in P : j <= i
<1> DEFINE Q == {n - i : i \in P}
<1>1. \E i \in P : \A j \in P : i <= j
  BY Least
<1>2. PICK k \in Q : \A j \in Q : k <= j
  <2>1. ASSUME NEW j \in P PROVE n - j \in Nat /\ n - j \in Q
    OBVIOUS
  <2>2. Q \in SUBSET Nat /\ Q # {}
    BY <2>1
  <2> HIDE DEF Q
  <2> QED BY <2>2, Least
<1>3. PICK l \in P : k = n - l
  OBVIOUS
<1>4. ASSUME NEW j \in P PROVE j <= l
  <2>1. n - j \in Q /\ j \in Nat /\ l \in Nat
    OBVIOUS
  <2>2. k <= n - j
    BY <1>2
  <2> QED BY <1>3, <2>2
<1> QED BY <1>1, <1>4

\* The places of a text.
LEMMA Places ==
    ASSUME NEW s \in AllTexts
    PROVE  /\ DOMAIN s = 1..Len(s) /\ Len(s) \in Nat
           /\ \A i \in 1..Len(s) : s[i] \in Tokens
           /\ Solid(s) = {i \in 1..Len(s) : s[i] # Space}
<1>1. DOMAIN s = 1..Len(s) /\ Len(s) \in Nat /\ \A i \in 1..Len(s) : s[i] \in Tokens
  BY DEF AllTexts
<1> QED BY <1>1 DEF Solid

\* u is what is left of s without the blanks around it.
SitsIn(u, s, k) ==
    /\ k + Len(u) <= Len(s)
    /\ \A i \in 1..Len(u) : u[i] = s[k + i]
    /\ \A i \in 1..Len(s) : i <= k \/ k + Len(u) < i => s[i] = Space

\* TrimSpace(s) is what is left of s between its outer blanks...
LEMMA TrimSpaceSits ==
    ASSUME NEW s \in AllTexts
    PROVE  /\ TrimSpace(s) \in AllTexts /\ Trimmed(TrimSpace(s))
           /\ \E k \in Nat : SitsIn(TrimSpace(s), s, k)
<1>1. CASE Solid(s) = {}
  <2>1. TrimSpace(s) = <<>>
    BY <1>1 DEF TrimSpace
  <2>2. Len(s) \in Nat /\ \A i \in 1..Len(s) : s[i] = Space
    BY <1>1, Places
  <2>3. SitsIn(<<>>, s, 0)
    BY <2>2 DEF SitsIn
  <2> QED BY <2>1, <2>3 DEF Trimmed, AllTexts
<1>2. CASE Solid(s) # {}
  <2> DEFINE a == CHOOSE i \in Solid(s) : \A j \in Solid(s) : i <= j
             b == CHOOSE i \in Solid(s) : \A j \in Solid(s) : j <= i
  <2>1. Len(s) \in Nat /\ Solid(s) \in SUBSET (1..Len(s))
    BY Places
  <2>2. /\ a \in Solid(s) /\ \A j \in Solid(s) : a <= j
        /\ b \in Solid(s) /\ \A j \in Solid(s) : j <= b
    BY <1>2, <2>1, FirstAndLast
  <2>3. TrimSpace(s) = SubSeq(s, a, b)
    BY <1>2 DEF TrimSpace
  <2> HIDE DEF a, b
  <2>4. a \in 1..Len(s) /\ b \in 1..Len(s) /\ a <= b /\ s[a] # Space /\ s[b] # Space
    BY <2>2, Places
  <2>5. \A i \in a..b : i \in 1..Len(s) /\ s[i] \in Tokens
    BY <2>4, Places
  <2>6. /\ TrimSpace(s) \in AllTexts /\ Len(TrimSpace(s)) = b - a + 1
        /\ \A i \in 1..(b - a + 1) : TrimSpace(s)[i] = s[a + i - 1]
    BY <2>3, <2>4, SubSeqProperties DEF AllTexts
  <2>7. \A i \in 1..Len(s) : i < a \/ b < i => s[i] = Space
    <3>1. Solid(s) = {i \in 1..Len(s) : s[i] # Space}
      BY Places
    <3> QED BY <2>2, <3>1
  <2>8. SitsIn(TrimSpace(s), s, a - 1) /\ a - 1 \in Nat
    BY <2>4, <2>6, <2>7 DEF SitsIn
  <2>9. Trimmed(TrimSpace(s))
    BY <2>4, <2>6 DEF Trimmed
  <2> QED BY <2>6, <2>8, <2>9
<1> QED BY <1>1, <1>2

\* ... and nothing else that is trimmed does.
LEMMA OneTextSits ==
    ASSUME NEW s \in AllTexts, NEW u \in AllTexts, Trimmed(u),
           NEW k \in Nat, SitsIn(u, s, k)
    PROVE  TrimSpace(s) = u
<1> DEFINE v == TrimSpace(s)
<1>1. PICK l \in Nat : SitsIn(v, s, l)
  BY TrimSpaceSits
<1>2. v \in AllTexts /\ Trimmed(v)
  BY TrimSpaceSits
<1> HIDE DEF v
<1>3. Len(s) \in Nat /\ Len(u) \in Nat /\ Len(v) \in Nat
  BY Places
<1>4. CASE u = <<>>
  <2>1. \A i \in 1..Len(s) : s[i] = Space
    BY <1>4 DEF SitsIn
  <2>2. ASSUME v # <<>> PROVE FALSE
    <3>1. Len(v) > 0 /\ v[1] # Space
      BY <1>2, <2>2 DEF Trimmed
    <3>2. l + 1 \in 1..Len(s) /\ v[1] = s[l + 1]
      BY <1>1, <3>1 DEF SitsIn
    <3> QED BY <2>1, <3>1, <3>2
  <2> QED BY <1>4, <2>2 DEF v
<1>5. CASE u # <<>>
  <2>1. Len(u) > 0 /\ u[1] # Space /\ u[Len(u)] # Space
    BY <1>5 DEF Trimmed
  <2>2. k + 1 \in 1..Len(s) /\ s[k + 1] # Space
    BY <2>1 DEF SitsIn
  <2>3. k + Len(u) \in 1..Len(s) /\ s[k + Len(u)] # Space
    BY <2>1 DEF SitsIn
  <2>4. l < k + 1 /\ k + Len(u) <= l + Len(v)
    BY <1>1, <2>2, <2>3 DEF SitsIn
  <2>5. Len(v) > 0
    BY <2>1, <2>4
  <2>6. v[1] # Space /\ v[Len(v)] # Space
    BY <1>2, <2>5 DEF Trimmed
  <2>7. l + 1 \in 1..Len(s) /\ s[l + 1] # Space
    <3>1. 1 \in 1..Len(v) /\ l + Len(v) <= Len(s)
      BY <1>1, <2>5 DEF SitsIn
    <3>2. v[1] = s[l + 1]
      BY <1>1, <3>1 DEF SitsIn
    <3> QED BY <2>6, <3>1, <3>2
  <2>8. l + Len(v) \in 1..Len(s) /\ s[l + Len(v)] # Space
    BY <1>1, <2>5, <2>6 DEF SitsIn
  <2>9. k < l + 1 /\ l + Len(v) <= k + Len(u)
    BY <2>7, <2>8 DEF SitsIn
  <2>10. k = l /\ Len(u) = Len(v)
    BY <2>4, <2>9
  <2>11. \A i \in 1..Len(u) : u[i] = v[i]
    BY <1>1, <2>10 DEF SitsIn
  <2> QED BY <1>2, <2>10, <2>11 DEF AllTexts, v
<1> QED BY <1>4, <1>5

\* So a text without spaces at its ends is left alone.
LEMMA TrimSpaceKeeps ==
    ASSUME NEW s \in AllTexts, Trimmed(s)
    PROVE  TrimSpace(s) = s
<1>1. SitsIn(s, s, 0)
  BY DEF SitsIn
<1> QED BY <1>1, OneTextSits

\* First, where there is one.
LEMMA FirstIsFirst ==
    ASSUME NEW s \in AllTexts, NEW t, Has(s, t)
    PROVE  /\ First(s, t) \in 1..Len(s) /\ s[First(s, t)] = t
           /\ \A j \in 1..(First(s, t) - 1) : s[j] # t
<1> DEFINE P == {i \in 1..Len(s) : s[i] = t}
<1>1. Len(s) \in Nat /\ P # {} /\ DOMAIN s = 1..Len(s)
  BY DEF Has
<1>2. PICK i \in P : \A j \in P : i <= j
  BY <1>1, FirstAndLast
<1>3. i \in DOMAIN s /\ s[i] = t /\ \A j \in 1..(i - 1) : s[j] # t
  BY <1>2
<1> QED BY <1>3 DEF First

\* Before(s, t) is known from the first place of t.
LEMMA BeforeIs ==
    ASSUME NEW s \in AllTexts, NEW t, NEW f \in 1..Len(s), s[f] = t,
           \A j \in 1..(f - 1) : s[j] # t
    PROVE  /\ Before(s, t) \in AllTexts /\ Len(Before(s, t)) = f - 1
           /\ \A i \in 1..(f - 1) : Before(s, t)[i] = s[i]
<1>1. DOMAIN s = 1..Len(s) /\ Len(s) \in Nat /\ \A i \in 1..Len(s) : s[i] \in Tokens
  BY Places
<1>2. First(s, t) \in 1..Len(s) /\ s[First(s, t)] = t
      /\ \A j \in 1..(First(s, t) - 1) : s[j] # t
  BY <1>1 DEF First
<1>3. First(s, t) = f
  BY <1>2
<1>4. Before(s, t) = SubSeq(s, 1, f - 1)
  BY <1>3 DEF Before, Has
<1> QED BY <1>4 DEF AllTexts

\* A text up to the first t has no t.
LEMMA BeforeCuts ==
    ASSUME NEW s \in AllTexts, NEW t
    PROVE  Before(s, t) \in AllTexts /\ ~Has(Before(s, t), t)
<1>1. CASE ~Has(s, t)
  BY <1>1 DEF Before
<1>2. CASE Has(s, t)
  <2> DEFINE f == First(s, t)
  <2>1. f \in 1..Len(s) /\ s[f] = t /\ \A j \in 1..(f - 1) : s[j] # t
    BY <1>2, FirstIsFirst
  <2> HIDE DEF f
  <2>2. Before(s, t) \in AllTexts
        /\ Len(Before(s, t)) = f - 1 /\ \A i \in 1..(f - 1) : Before(s, t)[i] = s[i]
    BY <2>1, BeforeIs
  <2>3. DOMAIN Before(s, t) = 1..(f - 1)
    BY <2>2
  <2> QED BY <2>1, <2>2 DEF Has
<1> QED BY <1>1, <1>2

\* strings.ToLower: word by word, and once is enough.
LEMMA ToLowerLowers ==
    ASSUME NEW s \in AllTexts
    PROVE  /\ ToLower(s) \in AllTexts /\ ToLower(ToLower(s)) = ToLower(s)
           /\ Len(ToLower(s)) = Len(s)
           /\ \A i \in 1..Len(s), t \in Separators : ToLower(s)[i] = t <=> s[i] = t
<1>1. /\ DOMAIN s = 1..Len(s) /\ Len(s) \in Nat /\ \A i \in 1..Len(s) : s[i] \in Tokens
  BY DEF AllTexts
<1>2. \A i \in 1..Len(s) : ToLower(s)[i] \in Tokens
  BY <1>1, WordsAssumption DEF ToLower, Tokens
<1>3. ToLower(s) \in AllTexts /\ Len(ToLower(s)) = Len(s) /\ DOMAIN ToLower(s) = 1..Len(s)
  BY <1>1, <1>2 DEF ToLower, AllTexts
<1>4. \A i \in 1..Len(s), t \in Separators : ToLower(s)[i] = t <=> s[i] = t
  BY WordsAssumption DEF ToLower
<1>5. ToLower(ToLower(s)) = ToLower(s)
  BY WordsAssumption DEF ToLower
<1> QED BY <1>3, <1>4, <1>5

\* What CanonicalizeMIME makes of a text before it looks at its shape.
Stripped(s) == ToLower(TrimSpace(Before(TrimSpace(s), Semicolon)))

LEMMA StrippedIsClean ==
    ASSUME NEW s \in AllTexts
    PROVE  /\ Stripped(s) \in AllTexts /\ Trimmed(Stripped(s))
           /\ ~Has(Stripped(s), Semicolon) /\ ToLower(Stripped(s)) = Stripped(s)
<1> DEFINE u == Before(TrimSpace(s), Semicolon)
           v == TrimSpace(u)
<1>1. u \in AllTexts /\ ~Has(u, Semicolon)
  BY TrimSpaceSits, BeforeCuts
<1>2. PICK k \in Nat : v \in AllTexts /\ Trimmed(v) /\ SitsIn(v, u, k)
  BY <1>1, TrimSpaceSits
<1>3. Stripped(s) = ToLower(v)
  BY DEF Stripped
<1> HIDE DEF u, v
<1>4. ~Has(v, Semicolon)
  BY <1>1, <1>2 DEF Has, SitsIn
<1>5. Space \in Separators /\ Semicolon \in Separators
  BY DEF Separators
<1>6. Trimmed(ToLower(v))
  BY <1>2, <1>5, ToLowerLowers DEF Trimmed
<1>7. ~Has(ToLower(v), Semicolon)
  BY <1>2, <1>4, <1>5, ToLowerLowers DEF Has
<1> QED BY <1>2, <1>3, <1>6, <1>7, ToLowerLowers

\* The first TrimSpace of CanonicalizeMIME only matters to what is before the ";".
LEMMA OneTrimIsEnough ==
    ASSUME NEW s \in AllTexts
    PROVE  TrimSpace(Before(TrimSpace(s), Semicolon)) = TrimSpace(Before(s, Semicolon))
<1> DEFINE u == TrimSpace(s)
<1>1. u \in AllTexts /\ Trimmed(u)
  BY TrimSpaceSits
<1>2. PICK k \in Nat : SitsIn(u, s, k)
  BY TrimSpaceSits
<1>3. Semicolon # Space
  BY DEF Semicolon, Space
<1> HIDE DEF u
<1>4. Len(s) \in Nat /\ Len(u) \in Nat /\ DOMAIN s = 1..Len(s) /\ DOMAIN u = 1..Len(u)
  BY Places
<1>5. CASE ~Has(s, Semicolon)
  <2>1. ~Has(u, Semicolon)
    BY <1>2, <1>5 DEF Has, SitsIn
  <2> QED BY <1>1, <1>5, <2>1, TrimSpaceKeeps DEF Before, u
<1>6. CASE Has(s, Semicolon)
  <2> DEFINE f == First(s, Semicolon)
             a == Before(u, Semicolon)
             b == Before(s, Semicolon)
             x == TrimSpace(a)
  <2>1. f \in 1..Len(s) /\ s[f] = Semicolon /\ \A j \in 1..(f - 1) : s[j] # Semicolon
    BY <1>6, FirstIsFirst
  <2> HIDE DEF f
  <2>2. k < f /\ f <= k + Len(u)
    BY <1>2, <1>3, <2>1 DEF SitsIn
  <2>3. f - k \in 1..Len(u) /\ u[f - k] = Semicolon
        /\ \A j \in 1..(f - k - 1) : u[j] # Semicolon
    BY <1>2, <1>4, <2>1, <2>2 DEF SitsIn
  <2>4. a \in AllTexts /\ b \in AllTexts
    BY <1>1, BeforeCuts
  <2>5. Len(a) = f - k - 1 /\ \A i \in 1..(f - k - 1) : a[i] = u[i]
    <3>1. PICK g \in 1..Len(u) : g = f - k /\ u[g] = Semicolon
                                 /\ \A j \in 1..(g - 1) : u[j] # Semicolon
      BY <2>3
    <3>2. Len(a) = g - 1 /\ \A i \in 1..(g - 1) : a[i] = u[i]
      BY <1>1, <3>1, BeforeIs
    <3> QED BY <3>1, <3>2
  <2>6. Len(b) = f - 1 /\ \A i \in 1..(f - 1) : b[i] = s[i]
    BY <2>1, BeforeIs
  <2>7. x \in AllTexts /\ Trimmed(x)
    BY <2>4, TrimSpaceSits
  <2>8. PICK l \in Nat : SitsIn(x, a, l)
    BY <2>4, TrimSpaceSits
  <2> HIDE DEF a, b, x
  <2>9. Len(x) \in Nat
    BY Places
  <2>10. k + l \in Nat /\ k + l + Len(x) <= Len(b)
    BY <2>5, <2>6, <2>8, <2>1 DEF SitsIn
  <2>11. \A i \in 1..Len(x) : x[i] = b[k + l + i]
    <3> TAKE i \in 1..Len(x)
    <3>1. l + i \in 1..(f - k - 1) /\ x[i] = a[l + i]
      BY <2>5, <2>8 DEF SitsIn
    <3>2. a[l + i] = u[l + i] /\ l + i \in 1..Len(u)
      BY <2>1, <2>2, <2>5, <3>1
    <3>3. u[l + i] = s[k + (l + i)]
      BY <1>2, <3>2 DEF SitsIn
    <3>4. k + (l + i) = k + l + i /\ k + l + i \in 1..(f - 1)
      BY <2>1, <3>1
    <3> QED BY <2>6, <3>1, <3>2, <3>3, <3>4
  <2>12. \A i \in 1..Len(b) : i <= k + l \/ k + l + Len(x) < i => b[i] = Space
    <3> TAKE i \in 1..Len(b)
    <3>1. b[i] = s[i] /\ i \in 1..Len(s)
      BY <2>1, <2>6
    <3>2. CASE i <= k
      BY <1>2, <3>1, <3>2 DEF SitsIn
    <3>3. CASE k < i
      <4>1. i - k \in 1..Len(a) /\ a[i - k] = s[i]
        BY <1>2, <2>1, <2>5, <2>6, <3>3 DEF SitsIn
      <4> QED BY <2>8, <3>1, <4>1 DEF SitsIn
    <3> QED BY <3>2, <3>3
  <2>13. SitsIn(x, b, k + l)
    BY <2>10, <2>11, <2>12 DEF SitsIn
  <2> QED BY <2>4, <2>7, <2>13, OneTextSits DEF a, b, x, u
<1> QED BY <1>5, <1>6

\* What the noise of NoiseDoesNotMatter leaves of a text.
LEMMA NoiseIsStripped ==
    ASSUME NEW t \in AllTexts, NEW w \in Words
    PROVE  Stripped(<<Space>> \o ToLower(t) \o <<Space, Semicolon, w>>) = Stripped(t)
<1> DEFINE n == <<Space>> \o ToLower(t) \o <<Space, Semicolon, w>>
           lt == ToLower(t)
           a == Before(t, Semicolon)
           b == Before(n, Semicolon)
           x == TrimSpace(a)
           y == ToLower(x)
           L == Len(t)
<1>1. /\ Semicolon \in Separators /\ Space \in Separators /\ Semicolon # Space
      /\ Semicolon \in Tokens /\ Space \in Tokens /\ w \in Tokens
  <2>1. Semicolon # Space
    BY DEF Semicolon, Space
  <2> QED BY <2>1 DEF Tokens, Separators
<1>2. /\ lt \in AllTexts /\ Len(lt) = L /\ L \in Nat
      /\ \A i \in 1..L : /\ lt[i] = Semicolon <=> t[i] = Semicolon
                         /\ lt[i] = Space <=> t[i] = Space
                         /\ lt[i] = ToLower(t)[i]
  BY <1>1, ToLowerLowers
<1>3. /\ n \in AllTexts /\ Len(n) = L + 4 /\ n[1] = Space
      /\ \A i \in 1..L : n[1 + i] = lt[i]
      /\ n[L + 2] = Space /\ n[L + 3] = Semicolon
  <2> DEFINE p == <<Space>>  q == <<Space, Semicolon, w>>  pl == p \o lt
  <2>1. p \in Seq(Tokens) /\ Len(p) = 1 /\ p[1] = Space
    BY <1>1
  <2>2. q \in Seq(Tokens) /\ Len(q) = 3 /\ q[1] = Space /\ q[2] = Semicolon
    BY <1>1
  <2> HIDE DEF p, q, lt
  <2>3. /\ pl \in Seq(Tokens) /\ Len(pl) = L + 1
        /\ \A i \in 1..(L + 1) : pl[i] = IF i <= 1 THEN p[i] ELSE lt[i - 1]
    <3>1. lt \in Seq(Tokens)
      BY <1>2 DEF AllTexts
    <3>2. /\ pl \in Seq(Tokens) /\ Len(pl) = Len(p) + Len(lt)
          /\ \A i \in 1..(Len(p) + Len(lt)) :
               pl[i] = IF i <= Len(p) THEN p[i] ELSE lt[i - Len(p)]
      BY <2>1, <3>1, ConcatProperties
    <3> HIDE DEF pl
    <3>3. Len(p) + Len(lt) = L + 1
      BY <1>2, <2>1
    <3> QED BY <2>1, <3>2, <3>3
  <2> HIDE DEF pl
  <2>4. /\ pl \o q \in Seq(Tokens) /\ Len(pl \o q) = L + 4
        /\ \A i \in 1..(L + 4) :
             (pl \o q)[i] = IF i <= L + 1 THEN pl[i] ELSE q[i - (L + 1)]
    <3>1. /\ pl \o q \in Seq(Tokens) /\ Len(pl \o q) = Len(pl) + Len(q)
          /\ \A i \in 1..(Len(pl) + Len(q)) :
               (pl \o q)[i] = IF i <= Len(pl) THEN pl[i] ELSE q[i - Len(pl)]
      BY <2>2, <2>3, ConcatProperties
    <3>2. Len(pl) + Len(q) = L + 4
      BY <2>2, <2>3
    <3> QED BY <2>3, <3>1, <3>2
  <2>5. n = pl \o q
    BY DEF pl, p, q, lt
  <2> HIDE DEF n
  <2>6. ASSUME NEW i \in 1..L PROVE n[1 + i] = lt[i]
    BY <2>3, <2>5
  <2> QED BY <2>1, <2>2, <2>3, <2>4, <2>5 DEF AllTexts
<1> HIDE DEF n, lt
<1>4. a \in AllTexts /\ b \in AllTexts
  BY <1>3, BeforeCuts
<1>5. \E m \in Nat :
        /\ m <= L /\ Len(a) = m /\ \A i \in 1..m : a[i] = t[i]
        /\ Len(b) \in {m + 1, m + 2} /\ b[1] = Space
        /\ \A i \in 1..m : b[1 + i] = lt[i]
        /\ Len(b) = m + 2 => b[m + 2] = Space
  <2>1. CASE Has(t, Semicolon)
    <3> DEFINE f == First(t, Semicolon)
    <3>1. f \in 1..L /\ t[f] = Semicolon /\ \A j \in 1..(f - 1) : t[j] # Semicolon
      BY <2>1, FirstIsFirst
    <3> HIDE DEF f
    <3>2. Len(a) = f - 1 /\ \A i \in 1..(f - 1) : a[i] = t[i]
      BY <3>1, BeforeIs
    <3>3. f + 1 \in 1..Len(n) /\ n[f + 1] = Semicolon
      BY <1>2, <1>3, <3>1
    <3>4. ASSUME NEW j \in 1..f PROVE n[j] # Semicolon
      <4>1. CASE j = 1
        BY <1>1, <1>3, <4>1
      <4>2. CASE j # 1
        <5>1. PICK i \in 1..(f - 1) : j = 1 + i /\ i \in 1..L
          <6>1. j - 1 \in 1..(f - 1) /\ j = 1 + (j - 1) /\ j - 1 \in 1..L
            BY <3>1, <4>2
          <6> QED BY <6>1
        <5> QED BY <1>2, <1>3, <3>1, <5>1
      <4> QED BY <4>1, <4>2
    <3>5. Len(b) = f /\ \A i \in 1..f : b[i] = n[i]
      <4>1. PICK g \in 1..Len(n) : n[g] = Semicolon /\ g - 1 = f
        BY <3>1, <3>3
      <4>2. \A j \in 1..(g - 1) : n[j] # Semicolon
        BY <3>4, <4>1
      <4>3. Len(b) = g - 1 /\ \A i \in 1..(g - 1) : b[i] = n[i]
        BY <1>3, <4>1, <4>2, BeforeIs
      <4> QED BY <4>1, <4>3
    <3>6. ASSUME NEW i \in 1..(f - 1) PROVE b[1 + i] = lt[i]
      BY <1>3, <3>1, <3>5
    <3>7. f - 1 \in Nat /\ f - 1 <= L /\ Len(b) = (f - 1) + 1 /\ b[1] = Space
      BY <1>3, <3>1, <3>5
    <3> HIDE DEF a, b
    <3>8. Len(b) # (f - 1) + 2
      BY <3>7
    <3> QED BY <3>2, <3>6, <3>7
  <2>2. CASE ~Has(t, Semicolon)
    <3>1. a = t /\ \A i \in 1..L : t[i] # Semicolon
      BY <2>2 DEF Before, Has
    <3>2. L + 3 \in 1..Len(n) /\ n[L + 3] = Semicolon
      BY <1>3
    <3>3. ASSUME NEW j \in 1..(L + 2) PROVE n[j] # Semicolon
      <4>1. CASE j \in {1, L + 2}
        BY <1>1, <1>3, <4>1
      <4>2. CASE j \notin {1, L + 2}
        <5>1. PICK i \in 1..L : j = 1 + i
          <6>1. j - 1 \in 1..L /\ j = 1 + (j - 1)
            BY <4>2
          <6> QED BY <6>1
        <5> QED BY <1>2, <1>3, <3>1, <5>1
      <4> QED BY <4>1, <4>2
    <3>4. Len(b) = L + 2 /\ \A i \in 1..(L + 2) : b[i] = n[i]
      <4>1. PICK g \in 1..Len(n) : n[g] = Semicolon /\ g - 1 = L + 2
        BY <3>2
      <4>2. \A j \in 1..(g - 1) : n[j] # Semicolon
        BY <3>3, <4>1
      <4>3. Len(b) = g - 1 /\ \A i \in 1..(g - 1) : b[i] = n[i]
        BY <1>3, <4>1, <4>2, BeforeIs
      <4> QED BY <4>1, <4>3
    <3>5. ASSUME NEW i \in 1..L PROVE b[1 + i] = lt[i]
      BY <1>3, <3>4
    <3>6. b[1] = Space /\ b[L + 2] = Space
      BY <1>3, <3>4
    <3> HIDE DEF b
    <3> QED BY <3>1, <3>4, <3>5, <3>6
  <2> QED BY <2>1, <2>2
<1>6. PICK m \in Nat :
        /\ m <= L /\ Len(a) = m /\ \A i \in 1..m : a[i] = t[i]
        /\ Len(b) \in {m + 1, m + 2} /\ b[1] = Space
        /\ \A i \in 1..m : b[1 + i] = lt[i]
        /\ Len(b) = m + 2 => b[m + 2] = Space
  BY <1>5
<1>7. PICK k \in Nat : SitsIn(x, a, k)
  BY <1>4, TrimSpaceSits
<1>8. x \in AllTexts /\ Trimmed(x)
  BY <1>4, TrimSpaceSits
<1>9. Stripped(t) = y
  BY OneTrimIsEnough DEF Stripped
<1>10. Stripped(n) = ToLower(TrimSpace(b))
  BY <1>3, OneTrimIsEnough DEF Stripped
<1> HIDE DEF a, b, x
<1>11. /\ y \in AllTexts /\ Len(y) = Len(x) /\ Len(x) \in Nat /\ ToLower(y) = y
       /\ Trimmed(y)
  BY <1>1, <1>8, ToLowerLowers DEF Trimmed
<1>12. \A i \in 1..Len(x) : y[i] = lt[k + i]
  <2> TAKE i \in 1..Len(x)
  <2>1. k + i \in 1..m /\ x[i] = a[k + i]
    BY <1>6, <1>7 DEF SitsIn
  <2>2. x[i] = t[k + i] /\ k + i \in 1..Len(t)
    BY <1>2, <1>6, <2>1
  <2>3. i \in DOMAIN x /\ k + i \in DOMAIN t
    BY <2>2
  <2> QED BY <2>2 DEF ToLower, lt
<1>13. SitsIn(y, b, k + 1)
  <2>1. k + 1 + Len(y) <= Len(b)
    BY <1>6, <1>7, <1>11 DEF SitsIn
  <2>2. ASSUME NEW i \in 1..Len(y) PROVE y[i] = b[k + 1 + i]
    <3>1. k + i \in 1..m /\ y[i] = lt[k + i] /\ 1 + (k + i) = k + 1 + i
      BY <1>6, <1>7, <1>11, <1>12 DEF SitsIn
    <3> QED BY <1>6, <3>1
  <2>3. ASSUME NEW i \in 1..Len(b), i <= k + 1 \/ k + 1 + Len(y) < i
        PROVE  b[i] = Space
    <3>1. CASE i = 1 \/ i = m + 2
      BY <1>6, <3>1
    <3>2. CASE i # 1 /\ i # m + 2
      <4>1. i - 1 \in 1..m /\ 1 + (i - 1) = i /\ i - 1 \in 1..L
        BY <1>6, <3>2
      <4>2. a[i - 1] = Space
        BY <1>6, <1>7, <1>11, <2>3, <4>1 DEF SitsIn
      <4>3. t[i - 1] = Space
        BY <1>6, <4>1, <4>2
      <4> QED BY <1>2, <1>6, <4>1, <4>3
    <3> QED BY <3>1, <3>2
  <2> QED BY <2>1, <2>2, <2>3 DEF SitsIn
<1>14. TrimSpace(b) = y
  <2> HIDE DEF y
  <2> QED BY <1>4, <1>11, <1>13, OneTextSits
<1> QED BY <1>9, <1>10, <1>11, <1>14 DEF n

\* mime.go:19-45: what CanonicalizeMIME returns is canonical, so that a manifest
\* read back from registry.json passes Validate and is left as it is.
THEOREM CanonicalizeIsIdempotent ==
    \A s \in AllTexts : CanonicalizeMIME(CanonicalizeMIME(s)) = CanonicalizeMIME(s)
<1> SUFFICES ASSUME NEW s \in AllTexts
             PROVE  CanonicalizeMIME(CanonicalizeMIME(s)) = CanonicalizeMIME(s)
  OBVIOUS
<1>1. \A t : CanonicalizeMIME(t) = IF WellFormed(Split(Stripped(t))) THEN Stripped(t)
                                                                      ELSE Invalid
  BY DEF CanonicalizeMIME, Stripped
<1>2. CASE WellFormed(Split(Stripped(s)))
  <2> DEFINE t == Stripped(s)
  <2>1. t \in AllTexts /\ Trimmed(t) /\ ~Has(t, Semicolon) /\ ToLower(t) = t
    BY StrippedIsClean
  <2>2. CanonicalizeMIME(s) = t /\ WellFormed(Split(t))
    BY <1>1, <1>2
  <2> HIDE DEF t
  <2>3. TrimSpace(t) = t /\ Before(t, Semicolon) = t
    BY <2>1, TrimSpaceKeeps DEF Before
  <2>4. Stripped(t) = t
    BY <2>1, <2>3 DEF Stripped
  <2> QED BY <1>1, <2>2, <2>4
<1>3. CASE ~WellFormed(Split(Stripped(s)))
  <2>1. CanonicalizeMIME(s) = Invalid
    BY <1>1, <1>3
  <2>2. <<>> \in AllTexts /\ TrimSpace(<<>>) = <<>>
    BY TrimSpaceKeeps, EmptySeq DEF AllTexts, Trimmed
  <2>3. \A t : Before(<<>>, t) = <<>> /\ After(<<>>, t) = <<>>
    BY DEF Before, After
  <2>4. ToLower(<<>>) = <<>>
    BY <2>2, ToLowerLowers
  <2>5. Stripped(Invalid) = Invalid
    BY <2>2, <2>3, <2>4 DEF Stripped, Invalid
  <2>6. ~WellFormed(Split(Invalid))
    BY <2>3 DEF Invalid, Split, WellFormed
  <2> QED BY <1>1, <2>1, <2>5
<1> QED BY <1>2, <1>3

\* mime.go:10-18: a canonical text is type/subtype, type/* or */*, trimmed,
\* in lower case and without parameters; everything else is refused.
THEOREM CanonicalHasShape ==
    ASSUME NEW s \in AllTexts, CanonicalizeMIME(s) # Invalid
    PROVE  LET c == CanonicalizeMIME(s)
               p == Split(c)
           IN  /\ c \in AllTexts /\ Trimmed(c) /\ ToLower(c) = c
               /\ ~Has(c, Semicolon)
               /\ p.type # <<>> /\ ~Has(p.type, Slash)
               /\ p.sub # <<>> /\ ~Has(p.sub, Slash)
               /\ p = AnyType \/ p.type # Star
<1> DEFINE c == Stripped(s)
<1>1. CanonicalizeMIME(s) = c /\ WellFormed(Split(c))
  BY DEF CanonicalizeMIME, Stripped
<1>2. c \in AllTexts /\ Trimmed(c) /\ ToLower(c) = c /\ ~Has(c, Semicolon)
  BY StrippedIsClean
<1> HIDE DEF c
<1>3. ~Has(Split(c).type, Slash)
  BY <1>2, BeforeCuts DEF Split
<1>4. Split(c) = AnyType \/ Split(c).type # Star
  BY <1>1 DEF WellFormed, Split, AnyType
<1> QED BY <1>1, <1>2, <1>3, <1>4 DEF WellFormed

\* Case, blanks around a text and parameters never show in its canonical form.
THEOREM NoiseNeverMatters == \A t \in AllTexts : NoiseDoesNotMatter(t)
<1> SUFFICES ASSUME NEW t \in AllTexts, NEW w \in Words
             PROVE  CanonicalizeMIME(<<Space>> \o ToLower(t) \o <<Space, Semicolon, w>>)
                      = CanonicalizeMIME(t)
  BY DEF NoiseDoesNotMatter
<1>1. \A s : CanonicalizeMIME(s) = IF WellFormed(Split(Stripped(s))) THEN Stripped(s)
                                                                      ELSE Invalid
  BY DEF CanonicalizeMIME, Stripped
<1> QED BY <1>1, NoiseIsStripped

-----------------------------------------------------------------------------
(* The registry.                                                           *)

\* ms holds finitely many manifests, each as Validate has made it.
Registered(ms) ==
    /\ IsFiniteSet(Present(ms))
    /\ \A i \in Present(ms) : \E m \in Submitted : Valid(m) /\ ms[i] = Validated(m)

\* manifest.go:68-155: Validate accepts what it has made itself, and leaves it as it
\* is.  RegistryStore assumes just that of it (CanonAssumption).
THEOREM ValidatedIsCanonical ==
    ASSUME NEW m \in Manifest, Valid(m)
    PROVE  /\ Validated(m) \in Manifest /\ Valid(Validated(m))
           /\ Validated(Validated(m)) = Validated(m)
<1> DEFINE cs == m.capabilities
           v == Validated(m)
           Canon(S) == {CanonicalizeMIME(t) : t \in S}
<1>1. /\ cs \in Seq(Capability) /\ Len(cs) \in Nat /\ DOMAIN cs = 1..Len(cs)
      /\ \A k \in 1..Len(cs) : cs[k] \in Capability
  BY DEF Manifest
<1>2. \A k \in 1..Len(cs) : \A t \in cs[k].mimes :
        t \in AllTexts /\ CanonicalizeMIME(t) # Invalid
  BY <1>1 DEF Valid, ToSet, Capability, AllTexts
<1>3. \A S \in SUBSET AllTexts : /\ Canon(S) \in SUBSET AllTexts
                                 /\ Canon(Canon(S)) = Canon(S)
  <2>1. \A t \in AllTexts : CanonicalizeMIME(t) \in AllTexts
    BY StrippedIsClean DEF CanonicalizeMIME, Stripped, Invalid, AllTexts
  <2> QED BY <2>1, CanonicalizeIsIdempotent
<1>4. v = [m EXCEPT !.capabilities =
             [k \in DOMAIN cs |-> [cs[k] EXCEPT !.mimes = Canon(cs[k].mimes)]]]
  BY DEF Validated, Canonicalized
<1> HIDE DEF v, Canon
<1>5. /\ v.faults = m.faults /\ v.name = m.name
      /\ v.capabilities = [k \in 1..Len(cs) |->
                             [cs[k] EXCEPT !.mimes = Canon(cs[k].mimes)]]
      /\ v = [faults |-> m.faults, name |-> m.name, capabilities |-> v.capabilities]
  BY <1>4 DEF Manifest
<1>6. ASSUME NEW k \in 1..Len(cs)
      PROVE  /\ v.capabilities[k] \in Capability
             /\ v.capabilities[k].action = cs[k].action
             /\ v.capabilities[k].path = cs[k].path
             /\ v.capabilities[k].mimes = Canon(cs[k].mimes)
             /\ cs[k].mimes \in SUBSET AllTexts
  <2>1. cs[k] \in Capability /\ cs[k].mimes \in SUBSET AllTexts
    BY <1>1 DEF Capability, AllTexts
  <2>2. Canon(cs[k].mimes) \in SUBSET AllTexts
    BY <1>3, <2>1
  <2>3. v.capabilities[k] = [cs[k] EXCEPT !.mimes = Canon(cs[k].mimes)]
    BY <1>5
  <2> QED BY <2>1, <2>2, <2>3 DEF Capability, AllTexts
<1>7. v.capabilities \in Seq(Capability) /\ Len(v.capabilities) = Len(cs)
  <2>1. DOMAIN v.capabilities = 1..Len(cs)
    BY <1>5
  <2>2. v.capabilities \in [1..Len(cs) -> Capability]
    BY <1>5, <1>6
  <2> QED BY <2>2
<1>8. v \in Manifest
  BY <1>5, <1>7 DEF Manifest
<1>9. Valid(v)
  <2>1. v.faults = {} /\ v.capabilities # <<>>
    BY <1>1, <1>5 DEF Valid
  <2>2. ASSUME NEW k \in 1..Len(cs), NEW t \in v.capabilities[k].mimes
        PROVE  CanonicalizeMIME(t) # Invalid
    BY <1>2, <1>6, CanonicalizeIsIdempotent DEF Canon
  <2>3. ASSUME NEW k \in 1..Len(cs)
        PROVE  /\ v.capabilities[k].action \in {"PICK", "SAVE"}
               /\ v.capabilities[k].path # BadPath /\ v.capabilities[k].mimes # {}
    <3>1. /\ cs[k].action \in {"PICK", "SAVE"} /\ cs[k].path # BadPath
          /\ cs[k].mimes # {}
      BY DEF Valid, ToSet
    <3>2. Canon(cs[k].mimes) # {}
      BY <3>1 DEF Canon
    <3> QED BY <1>6, <3>1, <3>2
  <2>4. DOMAIN v.capabilities = 1..Len(cs)
    BY <1>5
  <2> QED BY <2>1, <2>2, <2>3, <2>4 DEF Valid, ToSet
<1>10. Validated(v) = v
  <2>1. \A k \in 1..Len(cs) :
          [v.capabilities[k] EXCEPT !.mimes = Canon(v.capabilities[k].mimes)]
            = v.capabilities[k]
    BY <1>3, <1>6 DEF Capability
  <2>2. v.capabilities = [k \in DOMAIN v.capabilities |->
          [v.capabilities[k] EXCEPT !.mimes = Canon(v.capabilities[k].mimes)]]
    BY <1>5, <2>1
  <2>3. Validated(v) = [v EXCEPT !.capabilities = v.capabilities]
    BY <2>2 DEF Validated, Canonicalized, Canon
  <2> QED BY <1>8, <2>3 DEF Manifest
<1> QED BY <1>8, <1>9, <1>10 DEF v

-----------------------------------------------------------------------------
(* The sort.                                                               *)

\* R orders D strictly and totally.
Orders(R, D) ==
    /\ \A d \in D : <<d, d>> \notin R
    /\ \A d, e \in D : d # e => <<d, e>> \in R \/ <<e, d>> \in R
    /\ \A d, e, g \in D : <<d, e>> \in R /\ <<e, g>> \in R => <<d, g>> \in R

\* The members of D up to d.
UpTo(d, D, R) == {e \in D : e = d \/ <<e, d>> \in R}

\* The later of two members has more members up to it.
LEMMA UpToGrows ==
    ASSUME NEW D, NEW R, IsFiniteSet(D), Orders(R, D), NEW d \in D
    PROVE  /\ Cardinality(UpTo(d, D, R)) \in 1..Cardinality(D)
           /\ \A e \in D : <<d, e>> \in R =>
                Cardinality(UpTo(d, D, R)) < Cardinality(UpTo(e, D, R))
<1>1. \A e \in D : /\ UpTo(e, D, R) \in SUBSET D /\ e \in UpTo(e, D, R)
                   /\ IsFiniteSet(UpTo(e, D, R))
                   /\ Cardinality(UpTo(e, D, R)) \in Nat
  <2> TAKE e \in D
  <2>1. UpTo(e, D, R) \in SUBSET D /\ e \in UpTo(e, D, R)
    BY DEF UpTo
  <2>2. IsFiniteSet(UpTo(e, D, R))
    BY <2>1, FS_Subset
  <2> QED BY <2>1, <2>2, FS_CardinalityType
<1>2. Cardinality(UpTo(d, D, R)) \in 1..Cardinality(D)
  <2>1. Cardinality(UpTo(d, D, R)) <= Cardinality(D)
    BY <1>1, FS_Subset
  <2>2. Cardinality(UpTo(d, D, R)) # 0
    BY <1>1, FS_EmptySet
  <2> QED BY <1>1, <2>1, <2>2, FS_CardinalityType
<1>3. ASSUME NEW e \in D, <<d, e>> \in R
      PROVE  Cardinality(UpTo(d, D, R)) < Cardinality(UpTo(e, D, R))
  <2>1. UpTo(d, D, R) \in SUBSET UpTo(e, D, R)
    BY <1>3 DEF UpTo, Orders
  <2>2. e \notin UpTo(d, D, R)
    BY <1>3 DEF UpTo, Orders
  <2>3. /\ Cardinality(UpTo(d, D, R)) <= Cardinality(UpTo(e, D, R))
        /\ Cardinality(UpTo(e, D, R)) # Cardinality(UpTo(d, D, R))
    BY <1>1, <2>1, <2>2, FS_Subset
  <2> QED BY <1>1, <2>3
<1> QED BY <1>2, <1>3

\* So the list that StableSort makes has each member once, and in order.
LEMMA SortSorts ==
    ASSUME NEW D, NEW R, IsFiniteSet(D), Orders(R, D)
    PROVE  LET s == StableSort(D, R)
               N == Cardinality(D)
           IN  /\ s \in Bijection(1..N, D)
               /\ \A n \in 1..N : \A m \in 1..(n - 1) : <<s[m], s[n]>> \in R
<1> DEFINE N == Cardinality(D)
           s == StableSort(D, R)
           T == [d \in D |-> Cardinality(UpTo(d, D, R))]
<1>1. N \in Nat /\ IsFiniteSet(1..N) /\ Cardinality(1..N) = N
  BY FS_CardinalityType, FS_Interval
<1>2. T \in [D -> 1..N] /\ \A d, e \in D : <<d, e>> \in R => T[d] < T[e]
  BY UpToGrows
<1>3. s = [n \in 1..N |-> CHOOSE d \in D : Cardinality(UpTo(d, D, R)) = n]
  BY Zenon DEF StableSort, UpTo
<1>4. \A d \in D : T[d] = Cardinality(UpTo(d, D, R))
  OBVIOUS
<1> HIDE DEF N, T, s
<1>5. ASSUME NEW d \in D, NEW e \in D, T[d] = T[e] PROVE d = e
  <2>1. <<d, e>> \notin R /\ <<e, d>> \notin R
    BY <1>2, <1>5
  <2> QED BY <2>1 DEF Orders
<1>6. T \in Surjection(D, 1..N)
  <2>1. T \in Injection(D, 1..N)
    BY <1>2, <1>5, Fun_IsInj
  <2> QED BY <1>1, <2>1, FS_Injection DEF N
<1>7. \A n \in 1..N : s[n] \in D /\ T[s[n]] = n
  <2>1. \A n \in 1..N : \E d \in D : T[d] = n
    BY <1>6, Fun_SurjectionProperties
  <2>2. \A n \in 1..N : \E d \in D : Cardinality(UpTo(d, D, R)) = n
    BY <1>4, <2>1
  <2>3. \A n \in 1..N : s[n] \in D /\ Cardinality(UpTo(s[n], D, R)) = n
    BY <1>3, <2>2
  <2> QED BY <1>4, <2>3
<1>8. s \in [1..N -> D]
  BY <1>3, <1>7
<1>9. \A n, m \in 1..N : s[n] = s[m] => n = m
  BY <1>7
<1>10. \A d \in D : \E n \in 1..N : s[n] = d
  <2> TAKE d \in D
  <2>1. T[d] \in 1..N
    BY <1>2
  <2>2. s[T[d]] = d
    BY <1>5, <1>7, <2>1
  <2> QED BY <2>1, <2>2
<1>11. s \in Bijection(1..N, D)
  BY <1>8, <1>9, <1>10, Fun_IsBij
<1>12. ASSUME NEW n \in 1..N, NEW m \in 1..(n - 1) PROVE <<s[m], s[n]>> \in R
  <2>1. m \in 1..N /\ T[s[m]] < T[s[n]] /\ T[s[n]] \in Nat /\ T[s[m]] \in Nat
    BY <1>1, <1>7, <1>12
  <2>2. s[m] # s[n] /\ <<s[n], s[m]>> \notin R
    BY <1>2, <1>7, <2>1
  <2> QED BY <1>7, <2>1, <2>2 DEF Orders
<1> QED BY <1>11, <1>12 DEF s, N
-----------------------------------------------------------------------------
(* The capability query.                                                   *)

\* A declared capability has a key of four numbers, the second its application,
\* and canonical MIME types.
LEMMA DeclaredIs ==
    ASSUME NEW ms, Registered(ms), NEW d \in Declared(ms)
    PROVE  LET v == View(ms, d)
           IN  /\ d = <<d[1], d[2]>> /\ d[2] \in Nat
               /\ Key(v) \in [1..4 -> Nat] /\ Key(v)[2] = d[1]
               /\ v.mimes # {}
               /\ \A t \in v.mimes : /\ t \in AllTexts /\ t # Invalid
                                     /\ CanonicalizeMIME(t) = t /\ t \in Types
<1> DEFINE i == d[1]
           k == d[2]
           v == View(ms, d)
<1>1. /\ i \in Present(ms) /\ k \in DOMAIN ms[i].capabilities /\ d = <<i, k>>
  BY DEF Declared
<1>2. PICK m \in Submitted : Valid(m) /\ ms[i] = Validated(m)
  BY <1>1 DEF Registered
<1>3. /\ m \in Manifest /\ NameRank[m.name] \in Nat /\ i \in Nat
  BY <1>1, SubmittedAssumption, IdsAssumption DEF Present
<1> DEFINE c == m.capabilities[k]
<1>4. /\ ms[i].name = m.name
      /\ ms[i].capabilities =
           [l \in DOMAIN m.capabilities |-> Canonicalized(m.capabilities[l])]
  BY <1>2, <1>3 DEF Validated, Manifest
<1>5. /\ k \in DOMAIN m.capabilities /\ k \in Nat
      /\ m.capabilities \in Seq(Capability) /\ c \in Capability
  BY <1>1, <1>3, <1>4 DEF Manifest
<1>6. ms[i].capabilities[k] = Canonicalized(c)
  BY <1>4, <1>5
<1>7. c \in ToSet(m.capabilities)
  BY <1>5 DEF ToSet
<1> HIDE DEF i, k, c
<1>8. /\ Canonicalized(c).action = c.action /\ Canonicalized(c).path = c.path
      /\ Canonicalized(c).mimes = {CanonicalizeMIME(t) : t \in c.mimes}
  BY <1>5 DEF Canonicalized, Capability
<1>9. /\ v.appId = i /\ v.name = m.name /\ v.action = c.action /\ v.path = c.path
      /\ v.mimes = {CanonicalizeMIME(t) : t \in c.mimes}
  BY <1>4, <1>6, <1>8 DEF View, i, k
<1> HIDE DEF v
<1>10. Key(v) \in [1..4 -> Nat] /\ Key(v)[2] = i
  <2>1. c.path \in Nat
    BY <1>5 DEF Capability
  <2>2. Key(v) = <<NameRank[m.name], i, ActionRank(c.action), c.path>>
    BY <1>9 DEF Key
  <2>3. ActionRank(c.action) \in Nat
    BY DEF ActionRank
  <2> HIDE DEF ActionRank
  <2> QED BY <1>3, <2>1, <2>2, <2>3
<1>11. c.mimes # {} /\ c.mimes \in SUBSET AllTexts
       /\ \A t \in c.mimes : CanonicalizeMIME(t) # Invalid
  BY <1>2, <1>5, <1>7 DEF Valid, Capability, AllTexts
<1>12. ASSUME NEW t \in v.mimes
       PROVE  t \in AllTexts /\ t # Invalid /\ CanonicalizeMIME(t) = t /\ t \in Types
  <2>1. PICK u \in c.mimes : t = CanonicalizeMIME(u)
    BY <1>9
  <2>2. u \in AllTexts /\ t # Invalid
    BY <1>11, <2>1
  <2>3. t \in AllTexts /\ CanonicalizeMIME(t) = t
    BY <2>1, <2>2, CanonicalHasShape, CanonicalizeIsIdempotent
  <2>4. t \in Canonicalized(c).mimes
    BY <1>8, <2>1
  <2>5. t \in Types
    BY <1>2, <1>7, <2>4 DEF Types
  <2> QED BY <2>2, <2>3, <2>5
<1> QED BY <1>1, <1>5, <1>9, <1>10, <1>11, <1>12 DEF i, k, v

\* There are finitely many.
LEMMA DeclaredIsFinite ==
    ASSUME NEW ms, Registered(ms)
    PROVE  IsFiniteSet(Declared(ms))
<1> DEFINE P == Present(ms)
           At == [i \in P |-> {i} \X DOMAIN ms[i].capabilities]
<1>1. ASSUME NEW i \in P PROVE IsFiniteSet(At[i])
  <2>1. PICK m \in Submitted : Valid(m) /\ ms[i] = Validated(m)
    BY DEF Registered
  <2>2. m \in Manifest
    BY SubmittedAssumption
  <2>3. DOMAIN ms[i].capabilities = 1..Len(m.capabilities) /\ Len(m.capabilities) \in Nat
    BY <2>1, <2>2 DEF Validated, Manifest
  <2>4. IsFiniteSet(DOMAIN ms[i].capabilities)
    BY <2>3, FS_Interval
  <2>5. IsFiniteSet({i} \X DOMAIN ms[i].capabilities)
    BY <2>4, FS_Singleton, FS_Product
  <2> QED BY <2>5
<1>2. Declared(ms) = UNION Range(At)
  BY DEF Declared, Range
<1>3. IsFiniteSet(P)
  BY DEF Registered
<1>4. At \in Surjection(P, Range(At))
  <2>1. At \in [P -> Range(At)]
    BY DEF Range
  <2> QED BY <2>1, Fun_IsSurj DEF Range
<1>5. \A S \in Range(At) : IsFiniteSet(S)
  BY <1>1 DEF Range
<1> HIDE DEF P, At
<1>6. IsFiniteSet(Range(At))
  BY <1>3, <1>4, FS_Surjection
<1> QED BY <1>2, <1>5, <1>6, FS_UNION

\* Keys are compared one part after the other.
LEMMA Before4Is ==
    ASSUME NEW a \in [1..4 -> Nat], NEW b \in [1..4 -> Nat]
    PROVE  Before4(a, b) <=>
             \/ a[1] < b[1]
             \/ a[1] = b[1] /\ a[2] < b[2]
             \/ a[1] = b[1] /\ a[2] = b[2] /\ a[3] < b[3]
             \/ a[1] = b[1] /\ a[2] = b[2] /\ a[3] = b[3] /\ a[4] < b[4]
<1>1. Before4(a, b) <=> \E k \in 1..4 : a[k] < b[k] /\ \A j \in 1..(k - 1) : a[j] = b[j]
  BY DEF Before4
<1>2. 1..4 = {1, 2, 3, 4}
  OBVIOUS
<1>3. 1..(1 - 1) = {} /\ 1..(2 - 1) = {1} /\ 1..(3 - 1) = {1, 2} /\ 1..(4 - 1) = {1, 2, 3}
  OBVIOUS
<1>4. /\ (\A j \in 1..(1 - 1) : a[j] = b[j])
      /\ (\A j \in 1..(2 - 1) : a[j] = b[j]) <=> a[1] = b[1]
      /\ (\A j \in 1..(3 - 1) : a[j] = b[j]) <=> a[1] = b[1] /\ a[2] = b[2]
      /\ (\A j \in 1..(4 - 1) : a[j] = b[j]) <=> a[1] = b[1] /\ a[2] = b[2] /\ a[3] = b[3]
  BY <1>3
<1> QED BY <1>1, <1>2, <1>4

\* Two capabilities with one key are of one application, so the order in which the
\* applications were visited does not show.
LEMMA OrderIs ==
    ASSUME NEW ms, Registered(ms), NEW visit \in Visits(ms),
           NEW d \in Declared(ms), NEW e \in Declared(ms)
    PROVE  <<d, e>> \in Order(ms, visit) <=>
             \/ KeyBefore(View(ms, d), View(ms, e))
             \/ Key(View(ms, d)) = Key(View(ms, e)) /\ d[2] < e[2]
<1> DEFINE a == Key(View(ms, d))
           b == Key(View(ms, e))
<1>1. a \in [1..4 -> Nat] /\ b \in [1..4 -> Nat] /\ a[2] = d[1] /\ b[2] = e[1]
  BY DeclaredIs
<1>2. <<d, e>> \in Order(ms, visit) <=>
        Before4(a, b) \/ (~Before4(b, a) /\ Sooner(visit, d, e))
  <2> DEFINE p == <<d, e>>
  <2>1. p \in Declared(ms) \X Declared(ms) /\ p[1] = d /\ p[2] = e
    OBVIOUS
  <2> HIDE DEF p
  <2>2. p \in Order(ms, visit) <=>
          \/ KeyBefore(View(ms, p[1]), View(ms, p[2]))
          \/ ~KeyBefore(View(ms, p[2]), View(ms, p[1])) /\ Sooner(visit, p[1], p[2])
    BY <2>1 DEF Order
  <2> QED BY <2>1, <2>2 DEF KeyBefore, p
<1>3. visit \in [Present(ms) -> 1..Cardinality(Present(ms))]
  BY Fun_InjectionProperties DEF Visits
<1>4. d[1] \in Present(ms) /\ e[1] \in Present(ms)
  BY DEF Declared
<1>5. visit[d[1]] \in Nat /\ visit[e[1]] \in Nat
  BY <1>3, <1>4
<1> HIDE DEF a, b
<1>6. ~Before4(a, b) /\ ~Before4(b, a) <=> a = b
  <2>1. ~Before4(a, b) /\ ~Before4(b, a) <=>
          a[1] = b[1] /\ a[2] = b[2] /\ a[3] = b[3] /\ a[4] = b[4]
    BY <1>1, Before4Is
  <2>2. (a[1] = b[1] /\ a[2] = b[2] /\ a[3] = b[3] /\ a[4] = b[4]) <=> a = b
    <3>1. 1..4 = {1, 2, 3, 4}
      OBVIOUS
    <3> QED BY <1>1, <3>1
  <2> QED BY <2>1, <2>2
<1>7. a = b => (Sooner(visit, d, e) <=> d[2] < e[2])
  BY <1>1, <1>5 DEF Sooner
<1>8. <<d, e>> \in Order(ms, visit) <=> Before4(a, b) \/ (a = b /\ d[2] < e[2])
  BY <1>2, <1>6, <1>7
<1> QED BY <1>8 DEF a, b, KeyBefore

\* The comparison of store.go:197-210, with the order of appending for ties, is a
\* strict and total order of the declared capabilities.
LEMMA OrderOrders ==
    ASSUME NEW ms, Registered(ms), NEW visit \in Visits(ms)
    PROVE  Orders(Order(ms, visit), Declared(ms))
<1> DEFINE D == Declared(ms)
           R == Order(ms, visit)
           K == [d \in D |-> Key(View(ms, d))]
           Less(d, e) ==
             \/ K[d][1] < K[e][1]
             \/ K[d][1] = K[e][1] /\ K[d][2] < K[e][2]
             \/ K[d][1] = K[e][1] /\ K[d][2] = K[e][2] /\ K[d][3] < K[e][3]
             \/ /\ K[d][1] = K[e][1] /\ K[d][2] = K[e][2] /\ K[d][3] = K[e][3]
                /\ K[d][4] < K[e][4]
             \/ /\ K[d][1] = K[e][1] /\ K[d][2] = K[e][2] /\ K[d][3] = K[e][3]
                /\ K[d][4] = K[e][4] /\ d[2] < e[2]
<1>1. \A d \in D : /\ K[d] \in [1..4 -> Nat] /\ K[d][2] = d[1]
                   /\ d[2] \in Nat /\ d = <<d[1], d[2]>>
  BY DeclaredIs
<1>2. ASSUME NEW d \in D, NEW e \in D PROVE <<d, e>> \in R <=> Less(d, e)
  <2>1. <<d, e>> \in R <=> Before4(K[d], K[e]) \/ (K[d] = K[e] /\ d[2] < e[2])
    BY OrderIs DEF KeyBefore
  <2> HIDE DEF K, R
  <2>2. K[d] = K[e] <=> /\ K[d][1] = K[e][1] /\ K[d][2] = K[e][2]
                        /\ K[d][3] = K[e][3] /\ K[d][4] = K[e][4]
    <3>1. K[d] \in [1..4 -> Nat] /\ K[e] \in [1..4 -> Nat] /\ 1..4 = {1, 2, 3, 4}
      BY <1>1
    <3> QED BY <3>1
  <2>3. Before4(K[d], K[e]) <=>
          \/ K[d][1] < K[e][1]
          \/ K[d][1] = K[e][1] /\ K[d][2] < K[e][2]
          \/ K[d][1] = K[e][1] /\ K[d][2] = K[e][2] /\ K[d][3] < K[e][3]
          \/ /\ K[d][1] = K[e][1] /\ K[d][2] = K[e][2] /\ K[d][3] = K[e][3]
             /\ K[d][4] < K[e][4]
    BY <1>1, Before4Is
  <2> QED BY <2>1, <2>2, <2>3
<1>3. \A d \in D : /\ K[d][1] \in Nat /\ K[d][2] \in Nat
                   /\ K[d][3] \in Nat /\ K[d][4] \in Nat
  BY <1>1
<1> HIDE DEF D, R, K
<1>4. ASSUME NEW d \in D PROVE ~Less(d, d)
  BY <1>1, <1>3
<1>5. ASSUME NEW d \in D, NEW e \in D, d # e PROVE Less(d, e) \/ Less(e, d)
  <2>1. d[1] # e[1] \/ d[2] # e[2]
    BY <1>1, <1>5
  <2>2. K[d][2] # K[e][2] \/ d[2] # e[2]
    BY <1>1, <2>1
  <2>3. d[2] \in Nat /\ e[2] \in Nat
    BY <1>1
  <2> QED BY <1>3, <2>2, <2>3
<1>6. ASSUME NEW d \in D, NEW e \in D, NEW g \in D, Less(d, e), Less(e, g)
      PROVE  Less(d, g)
  <2>1. d[2] \in Nat /\ e[2] \in Nat /\ g[2] \in Nat
    BY <1>1
  <2> QED BY <1>3, <1>6, <2>1
<1> HIDE DEF Less
<1>7. Orders(R, D)
  BY <1>2, <1>4, <1>5, <1>6 DEF Orders
<1> QED BY <1>7 DEF D, R

\* It is one order for all orders in which the map may be visited.
LEMMA OneOrder ==
    ASSUME NEW ms, Registered(ms), NEW visit \in Visits(ms), NEW other \in Visits(ms)
    PROVE  Order(ms, visit) = Order(ms, other)
<1>1. ASSUME NEW v \in Visits(ms), NEW w \in Visits(ms), NEW p \in Order(ms, v)
      PROVE  p \in Order(ms, w)
  <2>1. p \in Declared(ms) \X Declared(ms)
    BY DEF Order
  <2>2. PICK d \in Declared(ms), e \in Declared(ms) : p = <<d, e>>
    BY <2>1
  <2> QED BY <2>2, OrderIs
<1> QED BY <1>1

\* The result has what is listed, once each, and in the order of the keys.
LEMMA ResultIs ==
    ASSUME NEW ms, Registered(ms), NEW visit \in Visits(ms), NEW f
    PROVE  LET N == Cardinality(Listed(ms, f))
               r == Result(ms, visit, f)
           IN  \E s \in Bijection(1..N, Listed(ms, f)) :
                 /\ r = [n \in 1..N |-> View(ms, s[n])]
                 /\ \A n \in 1..N : \A m \in 1..(n - 1) : ~KeyBefore(r[n], r[m])
<1> DEFINE L == Listed(ms, f)
           N == Cardinality(L)
           R == Order(ms, visit)
           r == Result(ms, visit, f)
           s == StableSort(L, R)
<1>1. L \subseteq Declared(ms) /\ IsFiniteSet(L)
  BY DeclaredIsFinite, FS_Subset DEF Listed
<1>2. Orders(R, L)
  BY <1>1, OrderOrders DEF Orders
<1>3. /\ s \in Bijection(1..N, L)
      /\ \A n \in 1..N : \A m \in 1..(n - 1) : <<s[m], s[n]>> \in R
  BY <1>1, <1>2, SortSorts
<1>4. N \in Nat
  BY <1>1, FS_CardinalityType
<1>5. r = [n \in DOMAIN s |-> View(ms, s[n])]
  BY DEF Result
<1> HIDE DEF L, N, R, r, s
<1>6. s \in [1..N -> L]
  BY <1>3, Fun_BijectionProperties
<1>7. r = [n \in 1..N |-> View(ms, s[n])]
  BY <1>5, <1>6
<1>8. ASSUME NEW n \in 1..N, NEW m \in 1..(n - 1) PROVE ~KeyBefore(r[n], r[m])
  <2> DEFINE d == s[m]
             e == s[n]
  <2>1. m \in 1..N
    BY <1>4
  <2>2. d \in Declared(ms) /\ e \in Declared(ms) /\ <<d, e>> \in R
    BY <1>1, <1>3, <1>6, <2>1
  <2>3. r[m] = View(ms, d) /\ r[n] = View(ms, e)
    BY <1>7, <2>1
  <2> HIDE DEF d, e
  <2> DEFINE a == Key(View(ms, d))
             b == Key(View(ms, e))
  <2>4. Before4(a, b) \/ a = b
    BY <2>2, OrderIs DEF KeyBefore, R
  <2>5. a \in [1..4 -> Nat] /\ b \in [1..4 -> Nat]
    BY <2>2, DeclaredIs
  <2> HIDE DEF a, b
  <2>6. ~Before4(b, a)
    BY <2>4, <2>5, Before4Is
  <2> QED BY <2>3, <2>6 DEF KeyBefore, a, b
<1> QED BY <1>3, <1>7, <1>8 DEF L, N, r

\* How often v is in the list r, and in the set S of capabilities of ms.
InList(v, r) == Cardinality({n \in DOMAIN r : r[n] = v})
InMap(v, ms, S) == Cardinality({d \in S : View(ms, d) = v})

\* So it has each capability as often as it is declared.
LEMMA ResultCounts ==
    ASSUME NEW ms, Registered(ms), NEW visit \in Visits(ms), NEW f, NEW v,
           NEW r, r = Result(ms, visit, f)
    PROVE  /\ ToSet(r) = {View(ms, d) : d \in Listed(ms, f)}
           /\ InList(v, r) = InMap(v, ms, Listed(ms, f))
<1> DEFINE L == Listed(ms, f)
           N == Cardinality(L)
           Places_v == {n \in 1..N : r[n] = v}
           Members == {d \in L : View(ms, d) = v}
<1>1. PICK s \in Bijection(1..N, L) : r = [n \in 1..N |-> View(ms, s[n])]
  BY ResultIs
<1>2. N \in Nat /\ IsFiniteSet(L)
  <2>1. L \in SUBSET Declared(ms)
    BY DEF Listed
  <2> QED BY <2>1, DeclaredIsFinite, FS_Subset, FS_CardinalityType
<1> HIDE DEF L, N
<1>3. s \in [1..N -> L]
  BY <1>1, Fun_BijectionProperties
<1>4. \A d \in L : \E n \in 1..N : s[n] = d
  BY <1>1 DEF Bijection, Surjection
<1>5. ToSet(r) = {View(ms, d) : d \in L}
  BY <1>1, <1>3, <1>4 DEF ToSet
<1>6. IsFiniteSet(Places_v)
  <2>1. IsFiniteSet(1..N)
    BY <1>2, FS_Interval
  <2> QED BY <2>1, FS_Subset
<1>7. Range(Restrict(s, Places_v)) = Members
  <2>1. Range(Restrict(s, Places_v)) = {s[n] : n \in Places_v}
    BY DEF Range, Restrict
  <2>2. \A n \in Places_v : s[n] \in Members
    BY <1>1, <1>3
  <2>3. \A d \in Members : \E n \in Places_v : s[n] = d
    BY <1>1, <1>3, <1>4
  <2> HIDE DEF Places_v, Members
  <2> QED BY <2>1, <2>2, <2>3
<1>8. Restrict(s, Places_v) \in Bijection(Places_v, Members)
  <2>1. Places_v \in SUBSET (1..N)
    OBVIOUS
  <2> HIDE DEF Places_v, Members
  <2> QED BY <1>1, <1>7, <2>1, Fun_BijRestrict
<1>9. Cardinality(Members) = Cardinality(Places_v)
  <2> HIDE DEF Places_v, Members
  <2> QED BY <1>6, <1>8, FS_Bijection DEF ExistsBijection
<1>10. DOMAIN r = 1..N
  BY <1>1
<1> QED BY <1>5, <1>9, <1>10 DEF L, InList, InMap

\* No part is a wildcard, and there is one.
LEMMA PartsAreConcrete == Star \notin Parts /\ Parts # {}
<1>1. DOMAIN Other = {} /\ 1 \in DOMAIN Star
  BY DEF Other, Star
<1>2. Other # Star
  BY <1>1
<1> QED BY <1>2 DEF Parts

\* A canonical type in use is a pattern over Parts.
LEMMA TypeIsPattern ==
    ASSUME NEW t \in Types, t \in AllTexts, t # Invalid, CanonicalizeMIME(t) = t
    PROVE  Split(t) \in Patterns(Parts, Parts)
<1> DEFINE p == Split(t)
<1>1. p.type # <<>> /\ p.sub # <<>> /\ (p = AnyType \/ p.type # Star)
  BY CanonicalHasShape
<1>2. {p.type, p.sub} \ {Star} \subseteq Parts
  BY DEF Parts, Named
<1>3. p = [type |-> p.type, sub |-> p.sub]
  BY DEF Split
<1> HIDE DEF p
<1>4. CASE p = AnyType
  BY <1>4 DEF Patterns, p
<1>5. CASE p.type # Star
  <2>1. p.type \in Parts /\ p.sub \in Parts \cup {Star}
    BY <1>2, <1>5
  <2> QED BY <1>3, <2>1 DEF Patterns, p
<1> QED BY <1>1, <1>4, <1>5

\* mimeMatch on two canonical types in use: some concrete type is meant by both.
LEMMA MatchIsCommonType ==
    ASSUME NEW t \in Types, t \in AllTexts, t # Invalid, CanonicalizeMIME(t) = t,
           NEW u \in Types, u \in AllTexts, u # Invalid, CanonicalizeMIME(u) = u
    PROVE  MimeMatch(Split(t), Split(u)) <=> StandsFor(t) \cap StandsFor(u) # {}
<1> DEFINE p == Split(t)
           q == Split(u)
<1>1. p \in Patterns(Parts, Parts) /\ q \in Patterns(Parts, Parts)
  BY TypeIsPattern
<1>2. Star \notin Parts /\ Parts # {}
  BY PartsAreConcrete
<1>3. MimeMatch(p, q) <=> Denotes(p, Parts, Parts) \cap Denotes(q, Parts, Parts) # {}
  BY <1>1, <1>2, MatchIsMeeting
<1>4. ASSUME NEW s, Split(s) \in Patterns(Parts, Parts), NEW x \in Parts, NEW y \in Parts
      PROVE  <<x, y>> \in StandsFor(s) <=>
               [type |-> x, sub |-> y] \in Denotes(Split(s), Parts, Parts)
  <2> DEFINE o == Split(s)
             c == [type |-> x, sub |-> y]
  <2>1. o.type = Star <=> o = AnyType
    BY <1>2, <1>4 DEF Patterns, AnyType
  <2>2. c \in Concrete(Parts, Parts) /\ c.type = x /\ c.sub = y
    BY DEF Concrete
  <2>3. <<x, y>> \in Parts \X Parts /\ <<x, y>>[1] = x /\ <<x, y>>[2] = y
    OBVIOUS
  <2> HIDE DEF o, c
  <2>4. c \in Denotes(o, Parts, Parts) <=> /\ o.type = x \/ o = AnyType
                                           /\ o.sub = y \/ o.sub = Star
    BY <2>2 DEF Denotes
  <2>5. <<x, y>> \in StandsFor(s) <=> /\ x = o.type \/ o.type = Star
                                      /\ y = o.sub \/ o.sub = Star
    BY <2>3 DEF StandsFor, o
  <2> QED BY <2>1, <2>4, <2>5 DEF o, c
<1>5. StandsFor(t) \cap StandsFor(u) # {} <=>
        \E x \in Parts, y \in Parts : <<x, y>> \in StandsFor(t) /\ <<x, y>> \in StandsFor(u)
  BY DEF StandsFor
<1>6. Denotes(p, Parts, Parts) \cap Denotes(q, Parts, Parts) # {} <=>
        \E x \in Parts, y \in Parts :
           /\ [type |-> x, sub |-> y] \in Denotes(p, Parts, Parts)
           /\ [type |-> x, sub |-> y] \in Denotes(q, Parts, Parts)
  BY DEF Denotes, Concrete
<1> QED BY <1>1, <1>3, <1>4, <1>5, <1>6
-----------------------------------------------------------------------------
(* The theorems about the answer.                                          *)

\* What is stored is registered, and an answer is the result for the query in some
\* order of the map.
AnswerInv ==
    Answered =>
        /\ ~Malformed(filter)
        /\ \E visit \in Visits(manifests) : answer = Result(manifests, visit, filter)

IInv ==
    /\ Registered(manifests)
    /\ filter \in Filters
    /\ AnswerInv

\* The empty registry has the invariant.
LEMMA InitIInv == Init => IInv
<1> SUFFICES ASSUME Init PROVE IInv
  OBVIOUS
<1>1. Present(manifests) = {}
  BY DEF Init, Present
<1>2. Registered(manifests)
  BY <1>1, FS_EmptySet DEF Registered
<1> QED BY <1>2 DEF Init, IInv, AnswerInv, Answered

\* Every step keeps it.
LEMMA NextIInv == IInv /\ [Next]_vars => IInv'
<1> SUFFICES ASSUME IInv, [Next]_vars PROVE IInv'
  OBVIOUS
<1> USE DEF IInv
<1>1. ASSUME NEW i \in Ids, Delete(i) PROVE IInv'
  <2>1. Present(manifests') \in SUBSET Present(manifests)
    BY <1>1 DEF Delete, Present
  <2>2. \A j \in Present(manifests') : manifests'[j] = manifests[j]
    BY <1>1 DEF Delete, Present
  <2>3. Registered(manifests')
    BY <2>1, <2>2, FS_Subset DEF Registered
  <2> QED BY <1>1, <2>3 DEF Delete, AnswerInv, Answered
<1>2. ASSUME NEW i \in Ids, NEW m \in Submitted, Upsert(i, m) PROVE IInv'
  <2>1. Present(manifests') \in SUBSET (Present(manifests) \cup {i})
    BY <1>2 DEF Upsert, Present
  <2>2. IsFiniteSet(Present(manifests) \cup {i})
    BY FS_AddElement DEF Registered
  <2>3. ASSUME NEW j \in Present(manifests')
        PROVE  \E n \in Submitted : Valid(n) /\ manifests'[j] = Validated(n)
    BY <1>2 DEF Upsert, Present, Registered
  <2>4. Registered(manifests')
    BY <2>1, <2>2, <2>3, FS_Subset DEF Registered
  <2> QED BY <1>2, <2>4 DEF Upsert, AnswerInv, Answered
<1>3. ASSUME NEW f \in Filters, Query(f) PROVE IInv'
  <2>1. PICK visit \in Visits(manifests) :
          answer' = IF Malformed(f) THEN BadRequest ELSE Result(manifests, visit, f)
    BY <1>3 DEF Query
  <2>2. manifests' = manifests /\ filter' = f
    BY <1>3 DEF Query
  <2>3. AnswerInv'
    BY <2>1, <2>2 DEF AnswerInv, Answered
  <2> QED BY <2>2, <2>3
<1>4. CASE UNCHANGED vars
  BY <1>4 DEF vars, AnswerInv, Answered
<1> QED BY <1>1, <1>2, <1>3, <1>4 DEF Next

\* IInv holds in every reachable state.
THEOREM Invariance == Spec => []IInv
BY InitIInv, NextIInv, PTL DEF Spec

\* store.go:166-210: equal queries on an equal registry have equal answers, for
\* every order in which Go visits the map.
THEOREM AlwaysDeterministic == Spec => []Deterministic
<1>1. IInv => Deterministic
  <2> SUFFICES ASSUME IInv, Answered, NEW visit \in Visits(manifests)
               PROVE  Result(manifests, visit, filter) = answer
    BY DEF Deterministic
  <2>1. PICK other \in Visits(manifests) : answer = Result(manifests, other, filter)
    BY DEF IInv, AnswerInv
  <2>2. Order(manifests, visit) = Order(manifests, other)
    BY OneOrder DEF IInv
  <2> QED BY <2>1, <2>2 DEF Result
<1> QED BY <1>1, Invariance, PTL

\* What the query asks for is what the loop keeps.
LEMMA WantedIsListed ==
    ASSUME IInv, Answered
    PROVE  Wanted = Listed(manifests, filter)
<1> DEFINE u == CanonicalizeMIME(filter.mime)
<1>1. /\ Registered(manifests) /\ filter \in Filters
      /\ filter.mime = <<>> \/ u # Invalid
  BY DEF IInv, AnswerInv, Malformed
<1>2. u \in Types
  BY <1>1 DEF Types
<1>3. filter.mime \in AllTexts
  BY <1>1, FiltersAssumption DEF AllTexts
<1>4. ASSUME filter.mime # <<>>
      PROVE  u \in AllTexts /\ u # Invalid /\ CanonicalizeMIME(u) = u
  BY <1>1, <1>3, <1>4, CanonicalHasShape, CanonicalizeIsIdempotent
<1> HIDE DEF u
<1>5. ASSUME NEW d \in Declared(manifests), NEW t \in View(manifests, d).mimes,
             filter.mime # <<>>
      PROVE  MimeMatch(Split(t), Split(u)) <=> StandsFor(t) \cap StandsFor(u) # {}
  <2>1. t \in AllTexts /\ t # Invalid /\ CanonicalizeMIME(t) = t /\ t \in Types
    BY <1>1, DeclaredIs
  <2> QED BY <1>2, <1>4, <1>5, <2>1, MatchIsCommonType
<1>6. ASSUME NEW d \in Declared(manifests)
      PROVE  d \in Wanted <=> Matches(View(manifests, d), filter)
  BY <1>5 DEF Wanted, Matches, u
<1>7. Wanted \subseteq Declared(manifests)
  BY DEF Wanted
<1> QED BY <1>6, <1>7 DEF Listed

\* store.go:147-213: for any manifests and any query, the answer has what is wanted
\* and nothing else, each capability as often as it is declared, sorted.
THEOREM AlwaysRight == Spec => []AnswerIsRight
<1>1. IInv => AnswerIsRight
  <2> SUFFICES ASSUME IInv, Answered PROVE AnswerIsRight
    BY DEF AnswerIsRight
  <2>1. PICK visit \in Visits(manifests) : answer = Result(manifests, visit, filter)
    BY DEF IInv, AnswerInv
  <2>2. Registered(manifests)
    BY DEF IInv
  <2>3. ASSUME NEW v
        PROVE  Cardinality({n \in DOMAIN answer : answer[n] = v})
                 = Cardinality({d \in Wanted : View(manifests, d) = v})
    <3>1. Wanted = Listed(manifests, filter)
      BY WantedIsListed
    <3>2. InList(v, answer) = InMap(v, manifests, Listed(manifests, filter))
      BY <2>1, <2>2, ResultCounts
    <3> QED BY <3>1, <3>2 DEF InList, InMap
  <2>4. ASSUME NEW n \in DOMAIN answer, NEW m \in 1..(n - 1)
        PROVE  ~KeyBefore(answer[n], answer[m])
    <3> DEFINE N == Cardinality(Listed(manifests, filter))
    <3>1. PICK s \in Bijection(1..N, Listed(manifests, filter)) :
            /\ answer = [k \in 1..N |-> View(manifests, s[k])]
            /\ \A k \in 1..N : \A l \in 1..(k - 1) : ~KeyBefore(answer[k], answer[l])
      BY <2>1, <2>2, ResultIs
    <3> HIDE DEF N
    <3>2. DOMAIN answer = 1..N
      BY <3>1
    <3> QED BY <3>1, <3>2
  <2> QED BY <2>3, <2>4 DEF AnswerIsRight
<1> QED BY <1>1, Invariance, PTL

\* resolver.ts:13-35 and store.go: what the client picks from the whole list for a
\* canonical request the server would have answered too.
THEOREM AlwaysPicksFewer == Spec => []ClientPicksFewer
<1>1. IInv => ClientPicksFewer
  <2> SUFFICES ASSUME IInv, Answered, CanonicalizeMIME(filter.mime) = filter.mime,
                      NEW d \in Declared(manifests),
                      View(manifests, d).action = filter.action,
                      ResolverMatch({Split(t) : t \in View(manifests, d).mimes},
                                    Split(filter.mime))
               PROVE  View(manifests, d) \in ToSet(answer)
    BY DEF ClientPicksFewer
  <2> DEFINE v == View(manifests, d)
  <2>1. PICK visit \in Visits(manifests) : answer = Result(manifests, visit, filter)
    BY DEF IInv, AnswerInv
  <2>2. Registered(manifests)
    BY DEF IInv
  <2>3. v.mimes # {}
    BY <2>2, DeclaredIs
  <2>4. \E p \in {Split(t) : t \in v.mimes} : MimeMatch(p, Split(filter.mime))
    <3> DEFINE ps == {Split(t) : t \in v.mimes}
    <3>1. ps # {}
      BY <2>3
    <3> HIDE DEF ps
    <3>2. ResolverMatch(ps, Split(filter.mime))
      BY DEF ps
    <3> QED BY <3>1, <3>2, ResolverWithinServer DEF ps
  <2>5. Matches(v, filter)
    BY <2>4 DEF Matches
  <2>6. d \in Listed(manifests, filter)
    BY <2>5 DEF Listed
  <2> QED BY <2>1, <2>2, <2>6, ResultCounts
<1> QED BY <1>1, Invariance, PTL

\* handlers_registry.go and store.go: what the registry holds is canonical, for
\* any manifests that are submitted, and so is the text any MIME type comes to.
THEOREM AlwaysCanonical == Spec => []CanonicalForm
<1>1. IInv => CanonicalForm
  <2>1. ASSUME NEW t \in Texts PROVE Idempotent(t) /\ NoiseDoesNotMatter(t) /\ HasShape(t)
    <3>1. t \in AllTexts
      BY TextsAssumption DEF AllTexts
    <3> QED BY <3>1, CanonicalizeIsIdempotent, NoiseNeverMatters,
                CanonicalHasShape DEF Idempotent, HasShape
  <2>2. ASSUME IInv, NEW i \in Ids, manifests[i] # None
        PROVE  Valid(manifests[i]) /\ Validated(manifests[i]) = manifests[i]
    <3>1. PICK m \in Submitted : Valid(m) /\ manifests[i] = Validated(m)
      BY <2>2 DEF IInv, Registered, Present
    <3> QED BY <3>1, SubmittedAssumption, ValidatedIsCanonical
  <2> QED BY <2>1, <2>2 DEF CanonicalForm, CanonicalTexts
<1> QED BY <1>1, Invariance, PTL
=============================================================================
