--------------------------- MODULE MCCapabilities ---------------------------
(* An instance of Capabilities for TLC: three ids, manifests whose names    *)
(* differ in case only, capabilities that tie on the sort key, wildcards    *)
(* and MIME types in raw form.  CanonicalizeMIME, a pure function, is       *)
(* checked besides on every text of up to MaxLen tokens.                    *)
EXTENDS Capabilities

CONSTANT MaxLen

MCLower == [w \in Words |-> IF w = "IMAGE" THEN "image" ELSE w]
Png == <<"image", "/", "png">>
RawPng == <<" ", "IMAGE", "/", "png", " ", ";", "png">>
Images == <<"image", "/", "*">>
All == <<"*", "/", "*">>
Bad == <<"*", "/", "png">>

Cap(a, p, ts) == [action |-> a, path |-> p, mimes |-> ts]
App(n, cs) == [faults |-> {}, name |-> n, capabilities |-> cs]
Pick(p, ts) == Cap("PICK", p, ts)

\* Three that are valid, and one for each check of Validate that is not.
MCSubmitted ==
    {App("Files", <<Cap("SAVE", 1, {RawPng}), Pick(1, {All})>>),
     App("files", <<Pick(1, {Images}), Pick(1, {Png, <<"png", "/", "png">>})>>),
     App("Atlas", <<Pick(2, {<<"png", "/", "*">>})>>),
     [App("Atlas", <<Pick(1, {Png})>>) EXCEPT !.faults = {"url"}]}
    \cup {App("Atlas", cs) :
            cs \in {<<>>, <<Pick(1, {Bad})>>, <<Pick(1, {})>>, <<Pick(BadPath, {Png})>>,
                    <<Pick(1, {Png}), Cap("OPEN", 1, {Png})>>}}
MCNameRank == [n \in {"Files", "files", "Atlas"} |-> IF n = "Atlas" THEN 1 ELSE 2]
MCFilters == [action : {"", "PICK", "SAVE"},
              mime : {<<>>, Png, RawPng, Images, All, Bad, <<"png", "/", "image">>}]
MCTexts == BoundedSeq(Tokens, MaxLen)
=============================================================================
