------------------------- MODULE BroadcastContract -------------------------
(***************************************************************************)
(* What internal/wshub promises: a member gets every message broadcast     *)
(* after it joined, once and in order, until it is gone; a member that a   *)
(* message could not be queued for is cut, and a cut member is soon gone.  *)
(* Hub implements it.                                                      *)
(***************************************************************************)
EXTENDS Naturals, Sequences

CONSTANTS
    Subs,       \* subscribers, one per WebSocket connection
    MaxMsgs     \* bound: how many messages are broadcast

VARIABLES
    sent,       \* number of messages broadcast so far; message n is n
    member,     \* member[s]: has s joined, is it served, cut or gone?
    due,        \* due[s]: messages s still has to get
    got         \* got[s]: messages s got

bvars == <<sent, member, due, got>>

BTypeOK ==
    /\ sent \in 0..MaxMsgs
    /\ member \in [Subs -> {"out", "in", "cut", "gone"}]
    /\ due \in [Subs -> Seq(1..MaxMsgs)]
    /\ got \in [Subs -> Seq(1..MaxMsgs)]

BInit ==
    /\ sent = 0
    /\ member = [s \in Subs |-> "out"]
    /\ due = [s \in Subs |-> <<>>]
    /\ got = [s \in Subs |-> <<>>]

Join(s) ==
    /\ member[s] = "out"
    /\ member' = [member EXCEPT ![s] = "in"]
    /\ UNCHANGED <<sent, due, got>>

Members == {s \in Subs : member[s] = "in"}
CutOnes == {s \in Subs : member[s] = "cut"}

\* The next message goes to every member but those it cuts; one that was cut
\* before may get it or not.
Broadcast(cut, spared) ==
    /\ sent < MaxMsgs
    /\ sent' = sent + 1
    /\ member' = [s \in Subs |-> IF s \in cut THEN "cut" ELSE member[s]]
    /\ due' = [s \in Subs |-> IF s \in (Members \ cut) \cup spared
                              THEN Append(due[s], sent + 1) ELSE due[s]]
    /\ UNCHANGED got

\* A member may be cut for another reason: the end of the server.
Cut(cut) ==
    /\ member' = [s \in Subs |-> IF s \in cut THEN "cut" ELSE member[s]]
    /\ UNCHANGED <<sent, due, got>>

Deliver(s) ==
    /\ member[s] \in {"in", "cut"} /\ due[s] # <<>>
    /\ got' = [got EXCEPT ![s] = Append(@, Head(due[s]))]
    /\ due' = [due EXCEPT ![s] = Tail(@)]
    /\ UNCHANGED <<sent, member>>

\* The connection ends; what was due is lost.
Leave(s) ==
    /\ member[s] # "gone"
    /\ member' = [member EXCEPT ![s] = "gone"]
    /\ due' = [due EXCEPT ![s] = <<>>]
    /\ UNCHANGED <<sent, got>>

BNext ==
    \/ \E s \in Subs : Join(s) \/ Deliver(s) \/ Leave(s)
    \/ \E cut \in SUBSET Members, spared \in SUBSET CutOnes :
         Broadcast(cut, spared)
    \/ \E cut \in SUBSET Members : Cut(cut)

BSpec == BInit /\ [][BNext]_bvars

\* What is due is delivered, unless the member leaves; a cut member leaves.
BFairness ==
    \A s \in Subs : /\ WF_bvars(Deliver(s) \/ (Leave(s) /\ due[s] # <<>>))
                    /\ WF_bvars(Leave(s) /\ member[s] = "cut")

BFairSpec == BSpec /\ BFairness
=============================================================================
