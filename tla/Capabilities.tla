---------------------------- MODULE Capabilities ----------------------------
(***************************************************************************)
(* GET /api/v1/capabilities: Store.Capabilities (store.go) behind          *)
(* handleCapabilities (handlers_caps.go), over the manifests Validate      *)
(* (manifest.go) lets into the registry; and the client's own choice among *)
(* an unfiltered answer (resolver.ts).                                     *)
(***************************************************************************)
EXTENDS Mime, SequencesExt

CONSTANTS
    Ids,        \* application ids, numbers so that they are ordered
    Submitted,  \* manifests as an admin submits them
    NameRank,   \* NameRank[n]: the place of strings.ToLower(n)
    Filters,    \* queries: an action or "", a MIME text or <<>>
    Texts,      \* the texts that CanonicalForm judges
    None,       \* no manifest, no answer yet
    BadRequest  \* the answer 400

Capability == [action : STRING, path : Nat, mimes : SUBSET Seq(Tokens)]
Manifest == [faults : SUBSET STRING, name : STRING, capabilities : Seq(Capability)]

ASSUME IdsAssumption == Ids \subseteq Nat
ASSUME SubmittedAssumption ==
    Submitted \subseteq Manifest /\ \A m \in Submitted : NameRank[m.name] \in Nat
ASSUME FiltersAssumption == Filters \subseteq [action : STRING, mime : Seq(Tokens)]
ASSUME TextsAssumption == Texts \subseteq Seq(Tokens)

VARIABLES
    manifests,  \* Store.manifests
    filter,     \* the latest query...
    answer      \* ... and its answer, None once the registry has changed

vars == <<manifests, filter, answer>>
-----------------------------------------------------------------------------
\* A path that starts with no "/" and is no http(s) URL, or that is too long.
BadPath == 0

\* Validate.  Faults are the fields among id, name, url and version that are
\* missing, malformed or too long.
Valid(m) ==
    /\ m.faults = {} /\ m.capabilities # <<>>
    /\ \A c \in ToSet(m.capabilities) :
         /\ c.action \in {"PICK", "SAVE"} /\ c.path # BadPath
         /\ c.mimes # {} /\ \A t \in c.mimes : CanonicalizeMIME(t) # Invalid

Canonicalized(c) == [c EXCEPT !.mimes = {CanonicalizeMIME(t) : t \in @}]
Validated(m) ==
    [m EXCEPT !.capabilities = [k \in DOMAIN @ |-> Canonicalized(@[k])]]

\* What follows is Store.Capabilities, over the map ms.
Present(ms) == {i \in Ids : ms[i] # None}

\* The capabilities there are: <<i, k>> is the k-th of application i.
Declared(ms) == UNION {{i} \X DOMAIN ms[i].capabilities : i \in Present(ms)}

View(ms, d) == LET c == ms[d[1]].capabilities[d[2]]
               IN  [appId |-> d[1], name |-> ms[d[1]].name, action |-> c.action,
                    path |-> c.path, mimes |-> c.mimes]

\* The loop over the map takes the applications in any order: visit[i] is the
\* turn of i.
Visits(ms) == Injection(Present(ms), 1..Cardinality(Present(ms)))

\* d is appended before e.
Sooner(visit, d, e) ==
    \/ visit[d[1]] < visit[e[1]]
    \/ d[1] = e[1] /\ d[2] < e[2]

MatchesMutant(v, f) ==      \* all declared types must match
    /\ f.action = "" \/ v.action = f.action
    /\ f.mime = <<>> \/ \A t \in v.mimes :
          MimeMatch(Split(t), Split(CanonicalizeMIME(f.mime)))

\* Exact action, and any of the declared types.
Matches(v, f) ==
    /\ f.action = "" \/ v.action = f.action
    /\ f.mime = <<>> \/ \E t \in v.mimes :
          MimeMatch(Split(t), Split(CanonicalizeMIME(f.mime)))

Listed(ms, f) == {d \in Declared(ms) : Matches(View(ms, d), f)}

ActionRank(a) == IF a = "PICK" THEN 1 ELSE 2
KeyMutant(v) == <<NameRank[v.name], ActionRank(v.action), v.path>>  \* no appId

\* (lower(appName), appId, action, path)
Key(v) == <<NameRank[v.name], v.appId, ActionRank(v.action), v.path>>

Before4(a, b) == \E k \in DOMAIN a : a[k] < b[k] /\ \A j \in 1..(k - 1) : a[j] = b[j]
KeyBefore(v, w) == Before4(Key(v), Key(w))

\* The pairs that a stable sort puts in this order: by key, and where the keys
\* are equal as they were appended.
Order(ms, visit) ==
    {p \in Declared(ms) \X Declared(ms) :
        LET v == View(ms, p[1])
            w == View(ms, p[2])
        IN  \/ KeyBefore(v, w)
            \/ ~KeyBefore(w, v) /\ Sooner(visit, p[1], p[2])}

\* sort.SliceStable: the set D as a list in the order R.
StableSort(D, R) ==
    LET Place(d) == Cardinality({e \in D : e = d \/ <<e, d>> \in R})
    IN  [n \in 1..Cardinality(D) |-> CHOOSE d \in D : Place(d) = n]

Result(ms, visit, f) ==
    LET sorted == StableSort(Listed(ms, f), Order(ms, visit))
    IN  [n \in DOMAIN sorted |-> View(ms, sorted[n])]

\* A malformed mimeType is answered 400 before the Store is asked.
Malformed(f) == f.mime # <<>> /\ CanonicalizeMIME(f.mime) = Invalid
-----------------------------------------------------------------------------
Init ==
    /\ manifests = [i \in Ids |-> None]
    /\ filter \in Filters /\ answer = None

Upsert(i, m) ==
    /\ Valid(m)
    /\ manifests' = [manifests EXCEPT ![i] = Validated(m)]
    /\ answer' = None /\ UNCHANGED filter

Delete(i) ==
    /\ manifests[i] # None
    /\ manifests' = [manifests EXCEPT ![i] = None]
    /\ answer' = None /\ UNCHANGED filter

Query(f) ==
    /\ filter' = f
    /\ \E visit \in Visits(manifests) :
         answer' = IF Malformed(f) THEN BadRequest ELSE Result(manifests, visit, f)
    /\ UNCHANGED manifests

Next ==
    \/ \E i \in Ids : Delete(i) \/ \E m \in Submitted : Upsert(i, m)
    \/ \E f \in Filters : Query(f)

Spec == Init /\ [][Next]_vars
-----------------------------------------------------------------------------
(* Correctness.                                                            *)

Answered == answer \notin {None, BadRequest}

\* Equal queries on an equal registry have equal answers: the order in which
\* Go visits the map never shows (manifest with capabilities that tie
\* included).
Deterministic ==
    Answered => \A visit \in Visits(manifests) : Result(manifests, visit, filter) = answer

\* The concrete MIME types two texts stand for, from their tokens alone: over the
\* parts of the types in use and Other, for all that nobody names.
Types == {CanonicalizeMIME(f.mime) : f \in Filters} \cup UNION {
             UNION {Canonicalized(c).mimes : c \in ToSet(m.capabilities)} : m \in Submitted}
Other == <<>>
Named == UNION {{Split(t).type, Split(t).sub} : t \in Types}
Parts == (Named \cup {Other}) \ {Star}
StandsFor(t) == {x \in Parts \X Parts :
                    /\ x[1] = Split(t).type \/ Split(t).type = Star
                    /\ x[2] = Split(t).sub \/ Split(t).sub = Star}

\* The declared capabilities of the right action that can deal with some
\* concrete type that is asked for.
Wanted == {d \in Declared(manifests) :
    LET v == View(manifests, d)
    IN  /\ filter.action \in {"", v.action}
        /\ \/ filter.mime = <<>>
           \/ \E t \in v.mimes :
                StandsFor(t) \cap StandsFor(CanonicalizeMIME(filter.mime)) # {}}

\* The answer has what is wanted and nothing else, each capability as often as it
\* is declared, in the order of the sort key.
AnswerIsRight ==
    Answered =>
        /\ \A v \in ToSet(answer) \cup {View(manifests, d) : d \in Declared(manifests)} :
             Cardinality({n \in DOMAIN answer : answer[n] = v})
               = Cardinality({d \in Wanted : View(manifests, d) = v})
        /\ \A n \in DOMAIN answer : \A m \in 1..(n - 1) : ~KeyBefore(answer[n], answer[m])

\* What the client picks from the whole list for a canonical request is part
\* of what the server would have answered (resolver.ts knows fewer wildcards).
ClientPicksFewer ==
    Answered /\ filter.action # "" /\ filter.mime # <<>>
             /\ CanonicalizeMIME(filter.mime) = filter.mime =>
        \A d \in Declared(manifests) :
            LET v == View(manifests, d)
            IN  /\ v.action = filter.action
                /\ ResolverMatch({Split(t) : t \in v.mimes}, Split(filter.mime))
                => v \in ToSet(answer)

CanonicalTexts ==
    \A t \in Texts : Idempotent(t) /\ NoiseDoesNotMatter(t) /\ HasShape(t)

\* CanonicalizeMIME picks one text for everything that means the same, so that
\* Validate and the reload of registry.json agree on what a manifest is, and
\* mimeMatch may compare by equality.
CanonicalForm ==
    /\ CanonicalTexts
    /\ \A i \in Ids : manifests[i] # None =>
         Valid(manifests[i]) /\ Validated(manifests[i]) = manifests[i]
=============================================================================
