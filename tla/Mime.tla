-------------------------------- MODULE Mime --------------------------------
(***************************************************************************)
(* internal/registry/mime.go: the canonical form of a MIME type and the    *)
(* symmetric match of two of them; and the match of the client             *)
(* (capabilities/resolver.ts).  A text is a sequence of tokens: "/", ";",  *)
(* "*", " " and words.                                                     *)
(***************************************************************************)
EXTENDS Naturals, Sequences, FiniteSets

CONSTANTS
    Words,      \* the words of texts, in any case
    Lower       \* Lower[w]: w in lower case

Slash == "/"
Semicolon == ";"
Asterisk == "*"
Space == " "
Separators == {Slash, Semicolon, Asterisk, Space}

ASSUME WordsAssumption ==
    /\ Words \cap Separators = {}
    /\ Lower \in [Words -> Words]
    /\ \A w \in Words : Lower[Lower[w]] = Lower[w]

Tokens == Words \cup Separators
Invalid == <<>>      \* the empty string that comes with an error
Star == <<Asterisk>>

Has(s, t) == \E i \in DOMAIN s : s[i] = t
First(s, t) == CHOOSE i \in DOMAIN s : s[i] = t /\ \A j \in 1..(i - 1) : s[j] # t
Before(s, t) == IF Has(s, t) THEN SubSeq(s, 1, First(s, t) - 1) ELSE s
After(s, t) == IF Has(s, t) THEN SubSeq(s, First(s, t) + 1, Len(s)) ELSE <<>>

\* strings.TrimSpace
Solid(s) == {i \in DOMAIN s : s[i] # Space}
TrimSpace(s) ==
    IF Solid(s) = {} THEN <<>>
    ELSE SubSeq(s, CHOOSE i \in Solid(s) : \A j \in Solid(s) : i <= j,
                   CHOOSE i \in Solid(s) : \A j \in Solid(s) : j <= i)

ToLower(s) == [i \in DOMAIN s |-> IF s[i] \in Words THEN Lower[s[i]] ELSE s[i]]

\* The type and the subtype of a text.
Split(s) == [type |-> Before(s, Slash), sub |-> After(s, Slash)]

WellFormedMutant(p) ==      \* "*/png" is let through
    p.type # <<>> /\ p.sub # <<>> /\ ~Has(p.sub, Slash)

\* The shapes type/subtype, type/* and */*.
WellFormed(p) ==
    /\ p.type # <<>> /\ p.sub # <<>> /\ ~Has(p.sub, Slash)
    /\ p.type = Star => p.sub = Star

CanonicalizeMIMEMutant(s) ==      \* no second TrimSpace
    LET t == ToLower(Before(TrimSpace(s), Semicolon))
    IN  IF WellFormed(Split(t)) THEN t ELSE Invalid

CanonicalizeMIME(s) ==
    LET t == ToLower(TrimSpace(Before(TrimSpace(s), Semicolon)))
    IN  IF WellFormed(Split(t)) THEN t ELSE Invalid

\* On patterns, that is canonical texts split at the slash.
AnyType == [type |-> Star, sub |-> Star]

MimeMatchMutant(cap, q) ==      \* a wildcard counts on one side only
    \/ cap = AnyType
    \/ cap.type = q.type /\ (cap.sub = Star \/ cap.sub = q.sub)

MimeMatch(cap, q) ==
    \/ cap = AnyType \/ q = AnyType
    \/ cap.type = q.type /\ (cap.sub = Star \/ q.sub = Star \/ cap.sub = q.sub)

\* The client compares the texts (RES-03 to RES-06).
ResolverMatch(mimes, requested) ==
    requested = AnyType \/ AnyType \in mimes \/ requested \in mimes
-----------------------------------------------------------------------------
(* What the canonical form of a text is for.                               *)

\* A stored MIME type loads, unchanged.
Idempotent(t) == CanonicalizeMIME(CanonicalizeMIME(t)) = CanonicalizeMIME(t)

\* Case, surrounding blanks and parameters never matter.
NoiseDoesNotMatter(t) ==
    \A w \in Words :
        CanonicalizeMIME(<<Space>> \o ToLower(t) \o <<Space, Semicolon, w>>)
            = CanonicalizeMIME(t)

\* Only the three documented shapes, without parameters (mime.go:10-18).
HasShape(t) ==
    LET c == CanonicalizeMIME(t)
        p == Split(c)
    IN  c # Invalid =>
          /\ p.type # <<>> /\ p.sub # <<>>
          /\ ~Has(p.type, Slash) /\ ~Has(p.sub, Slash) /\ ~Has(c, Semicolon)
          /\ p = AnyType \/ p.type # Star
=============================================================================
