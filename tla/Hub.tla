-------------------------------- MODULE Hub --------------------------------
(***************************************************************************)
(* internal/wshub: the broadcast hub (hub.go) and the writer loop of every *)
(* WebSocket subscriber (subscribe.go), with the closing goroutines that   *)
(* Publish and Close spawn.  The connection is the coder/websocket library *)
(* and the peer behind it, modelled from how the hub uses them: the first  *)
(* Close wins, nothing is written after the close frame, and the context   *)
(* of CloseRead ends with the connection.                                  *)
(***************************************************************************)
EXTENDS Naturals, Sequences, FiniteSets

CONSTANTS
    Subs,           \* subscribers, one per accepted WebSocket connection
    MessageBuffer,  \* capacity of a subscriber's channel
    MaxMsgs         \* bound: how many messages are published

ASSUME HubAssumption == MessageBuffer \in Nat \ {0} /\ MaxMsgs \in Nat

VARIABLES
    closed,         \* Hub.closed
    subscribers,    \* Hub.subscribers
    published,      \* number of messages published so far; message n is n
    joined,         \* joined[s]: what was published when s was added
    msgs,           \* msgs[s]: the channel
    loop,           \* loop[s]: where the goroutine of Subscribe is
    sending,        \* sending[s]: the message in conn.Write, or <<>>
    closers,        \* closers[s]: closing goroutines not run yet
    conn,           \* conn[s]: "open", "closing" (close frame sent), "closed"
    code,           \* code[s]: the close code sent
    ctxDone,        \* ctxDone[s]: the context of CloseRead has ended
    wire            \* wire[s]: the messages written to the connection

hub == <<closed, subscribers, published, joined>>
link == <<conn, code, ctxDone>>
vars == <<hub, msgs, loop, sending, closers, link, wire>>
-----------------------------------------------------------------------------
Running == {"select", "writing", "pinging", "leaving", "closedNow"}
Codes == {"slow", "goingAway", "unexpected"}

TypeOK ==
    /\ closed \in BOOLEAN
    /\ subscribers \in SUBSET Subs
    /\ published \in 0..MaxMsgs
    /\ joined \in [Subs -> 0..MaxMsgs]
    /\ msgs \in [Subs -> Seq(1..MaxMsgs)]
    /\ \A s \in Subs : Len(msgs[s]) <= MessageBuffer
    /\ loop \in [Subs -> Running \cup {"none", "returned"}]
    /\ sending \in [Subs -> Seq(1..MaxMsgs)]
    /\ closers \in [Subs -> SUBSET Codes]
    /\ conn \in [Subs -> {"open", "closing", "closed"}]
    /\ code \in [Subs -> Codes \cup {"none"}]
    /\ ctxDone \in [Subs -> BOOLEAN]
    /\ wire \in [Subs -> Seq(1..MaxMsgs)]

Init ==
    /\ closed = FALSE /\ subscribers = {} /\ published = 0
    /\ joined = [s \in Subs |-> 0]
    /\ msgs = [s \in Subs |-> <<>>]
    /\ loop = [s \in Subs |-> "none"]
    /\ sending = [s \in Subs |-> <<>>]
    /\ closers = [s \in Subs |-> {}]
    /\ conn = [s \in Subs |-> "open"]
    /\ code = [s \in Subs |-> "none"]
    /\ ctxDone = [s \in Subs |-> FALSE]
    /\ wire = [s \in Subs |-> <<>>]
-----------------------------------------------------------------------------
\* The hub's mutex makes each of these one step.

\* Subscribe up to the loop: CloseRead, the channel, addSubscriber, which
\* does not look at closed.
Subscribe(s) ==
    /\ loop[s] = "none"
    /\ subscribers' = subscribers \cup {s}
    /\ joined' = [joined EXCEPT ![s] = published]
    /\ loop' = [loop EXCEPT ![s] = "select"]
    /\ ctxDone' = [ctxDone EXCEPT ![s] = conn[s] = "closed"]
    /\ UNCHANGED <<closed, published, msgs, sending, closers, conn, code, wire>>

FullMutant(s) == Len(msgs[s]) > MessageBuffer      \* a channel one too long

Full(s) == Len(msgs[s]) >= MessageBuffer

PublishMutant ==      \* a full channel just drops the message
    /\ ~closed /\ published < MaxMsgs
    /\ published' = published + 1
    /\ msgs' = [s \in Subs |-> IF s \in subscribers /\ ~Full(s)
                               THEN Append(msgs[s], published + 1) ELSE msgs[s]]
    /\ UNCHANGED <<closed, subscribers, joined, loop, sending, closers, link, wire>>

PublishEagerMutant ==      \* kicks whoever this message fills up
    /\ ~closed /\ published < MaxMsgs
    /\ published' = published + 1
    /\ msgs' = [s \in Subs |-> IF s \in subscribers /\ ~Full(s)
                               THEN Append(msgs[s], published + 1) ELSE msgs[s]]
    /\ closers' = [s \in Subs |-> IF s \in subscribers /\ Len(msgs'[s]) = MessageBuffer
                                  THEN closers[s] \cup {"slow"} ELSE closers[s]]
    /\ UNCHANGED <<closed, subscribers, joined, loop, sending, link, wire>>

\* Never blocks: a full channel drops the message and has the subscriber
\* closed by a goroutine of its own.  After Close it does nothing.
Publish ==
    /\ ~closed /\ published < MaxMsgs
    /\ published' = published + 1
    /\ msgs' = [s \in Subs |-> IF s \in subscribers /\ ~Full(s)
                               THEN Append(msgs[s], published + 1) ELSE msgs[s]]
    /\ closers' = [s \in Subs |-> IF s \in subscribers /\ Full(s)
                                  THEN closers[s] \cup {"slow"} ELSE closers[s]]
    /\ UNCHANGED <<closed, subscribers, joined, loop, sending, link, wire>>

\* Leaves the map alone; a second call does nothing.
Close ==
    /\ ~closed
    /\ closed' = TRUE
    /\ closers' = [s \in Subs |-> IF s \in subscribers
                                  THEN closers[s] \cup {"goingAway"} ELSE closers[s]]
    /\ UNCHANGED <<subscribers, published, joined, msgs, loop, sending, link, wire>>
-----------------------------------------------------------------------------
\* The writer loop of a subscriber.
Goto(s, from, to) ==
    /\ loop[s] = from
    /\ loop' = [loop EXCEPT ![s] = to]

\* The connection is gone, for the peer and for the context of CloseRead.
Down(s) ==
    /\ conn' = [conn EXCEPT ![s] = "closed"]
    /\ ctxDone' = [ctxDone EXCEPT ![s] = loop[s] # "none"]
    /\ UNCHANGED code

\* case msg := <-s.msgs
TakeMessage(s) ==
    /\ msgs[s] # <<>>
    /\ Goto(s, "select", "writing")
    /\ sending' = [sending EXCEPT ![s] = <<Head(msgs[s])>>]
    /\ msgs' = [msgs EXCEPT ![s] = Tail(@)]
    /\ UNCHANGED <<hub, closers, link, wire>>

WriteDone(s) ==
    /\ conn[s] = "open"
    /\ Goto(s, "writing", "select")
    /\ wire' = [wire EXCEPT ![s] = @ \o sending[s]]
    /\ sending' = [sending EXCEPT ![s] = <<>>]
    /\ UNCHANGED <<hub, msgs, closers, link>>

WriteFailsMutant(s) ==      \* queues the message again and goes on
    /\ Goto(s, "writing", "select")
    /\ msgs' = [msgs EXCEPT ![s] = @ \o sending[s]]
    /\ sending' = [sending EXCEPT ![s] = <<>>]
    /\ UNCHANGED <<hub, closers, link, wire>>

\* conn.Write fails: the connection is closing or closed, or WriteTimeout
\* expires on a peer that does not read, and the library drops the connection.
WriteFails(s) ==
    /\ Goto(s, "writing", "leaving")
    /\ sending' = [sending EXCEPT ![s] = <<>>]
    /\ IF conn[s] = "open" THEN Down(s) ELSE UNCHANGED link
    /\ UNCHANGED <<hub, msgs, closers, wire>>

\* case <-tick.C
Tick(s) ==
    /\ Goto(s, "select", "pinging")
    /\ UNCHANGED <<hub, msgs, sending, closers, link, wire>>

PingDone(s) ==
    /\ conn[s] = "open"
    /\ Goto(s, "pinging", "select")
    /\ UNCHANGED <<hub, msgs, sending, closers, link, wire>>

\* conn.Ping fails, or PingTimeout expires: the loop returns.
PingFails(s) ==
    /\ Goto(s, "pinging", "leaving")
    /\ UNCHANGED <<hub, msgs, sending, closers, link, wire>>

\* case <-ctx.Done()
SeeCtxDone(s) ==
    /\ ctxDone[s]
    /\ Goto(s, "select", "leaving")
    /\ UNCHANGED <<hub, msgs, sending, closers, link, wire>>

\* defer conn.CloseNow(): no close frame.
CloseNow(s) ==
    /\ Goto(s, "leaving", "closedNow")
    /\ Down(s)
    /\ UNCHANGED <<hub, msgs, sending, closers, wire>>

RemoveSubscriberMutant(s) ==      \* the entry stays in the map
    /\ Goto(s, "closedNow", "returned")
    /\ UNCHANGED <<hub, msgs, sending, closers, link, wire>>

\* defer h.removeSubscriber(s), and the return of Subscribe.
RemoveSubscriber(s) ==
    /\ Goto(s, "closedNow", "returned")
    /\ subscribers' = subscribers \ {s}
    /\ UNCHANGED <<closed, published, joined, msgs, sending, closers, link, wire>>
-----------------------------------------------------------------------------
RunCloserMutant(s, c) ==      \* gives up when a write is in progress
    /\ c \in closers[s]
    /\ closers' = [closers EXCEPT ![s] = @ \ {c}]
    /\ \/ /\ conn[s] = "open" /\ loop[s] # "writing"
          /\ conn' = [conn EXCEPT ![s] = "closing"]
          /\ code' = [code EXCEPT ![s] = c]
          /\ UNCHANGED ctxDone
       \/ (conn[s] # "open" \/ loop[s] = "writing") /\ UNCHANGED link
    /\ UNCHANGED <<hub, msgs, loop, sending, wire>>

\* A closing goroutine calls conn.Close: the first one sends its close frame
\* (or cannot, and drops the connection), the others do nothing.
RunCloser(s, c) ==
    /\ c \in closers[s]
    /\ closers' = [closers EXCEPT ![s] = @ \ {c}]
    /\ \/ /\ conn[s] = "open"
          /\ conn' = [conn EXCEPT ![s] = "closing"]
          /\ code' = [code EXCEPT ![s] = c]
          /\ UNCHANGED ctxDone
       \/ conn[s] = "open" /\ Down(s)
       \/ conn[s] # "open" /\ UNCHANGED link
    /\ UNCHANGED <<hub, msgs, loop, sending, wire>>

\* The peer answers the close frame or the library stops waiting for it.
CloseHandshakeEnds(s) ==
    /\ conn[s] = "closing"
    /\ Down(s)
    /\ UNCHANGED <<hub, msgs, loop, sending, closers, wire>>

\* The peer closes, or the network does.
PeerLeaves(s) ==
    /\ conn[s] = "open"
    /\ Down(s)
    /\ UNCHANGED <<hub, msgs, loop, sending, closers, wire>>

\* A data message from the peer: CloseRead closes the connection.
PeerSpeaks(s) ==
    /\ conn[s] = "open" /\ loop[s] \in Running
    /\ closers' = [closers EXCEPT ![s] = @ \cup {"unexpected"}]
    /\ UNCHANGED <<hub, msgs, loop, sending, link, wire>>

Write(s) == TakeMessage(s) \/ WriteDone(s) \/ WriteFails(s)
Ping(s) == PingDone(s) \/ PingFails(s)
Return(s) == SeeCtxDone(s) \/ CloseNow(s) \/ RemoveSubscriber(s)
Environment(s) == PeerLeaves(s) \/ PeerSpeaks(s)

Next ==
    \/ Publish \/ Close
    \/ \E s \in Subs :
         \/ Subscribe(s) \/ Write(s) \/ Tick(s) \/ Ping(s) \/ Return(s)
         \/ \E c \in Codes : RunCloser(s, c)
         \/ CloseHandshakeEnds(s) \/ Environment(s)

Spec == Init /\ [][Next]_vars

\* Goroutines run; a call of the library returns (its timeouts); a select
\* that finds a case ready again and again takes it at some point.
Fairness ==
    \A s \in Subs :
        /\ WF_vars(WriteDone(s) \/ WriteFails(s)) /\ WF_vars(Ping(s))
        /\ SF_vars(TakeMessage(s)) /\ SF_vars(SeeCtxDone(s))
        /\ WF_vars(CloseNow(s)) /\ WF_vars(RemoveSubscriber(s))
        /\ \A c \in Codes : WF_vars(RunCloser(s, c))
        /\ WF_vars(CloseHandshakeEnds(s))

FairSpec == Spec /\ Fairness
-----------------------------------------------------------------------------
(* Correctness.                                                            *)

\* Everything s was or will be sent, in the order it gets it.
Stream(s) == wire[s] \o sending[s] \o msgs[s]
Interval(m, n) == [i \in 1..(n - m) |-> m + i]

\* No subscriber ever gets a message twice or out of order, or one published
\* before it was added.
InOrder ==
    \A s \in Subs : /\ \A i \in 1..(Len(Stream(s)) - 1) :
                         Stream(s)[i] < Stream(s)[i + 1]
                    /\ Stream(s) # <<>> => Stream(s)[1] > joined[s]

\* A message is never missing unnoticed: while a connection is open and no
\* goroutine is about to close it, its subscriber has, or has queued, every
\* message since it was added (hub.go:105, slow subscribers are kicked).
NoSilentGap ==
    \A s \in subscribers :
        conn[s] = "open" /\ "slow" \notin closers[s]
            => Stream(s) = Interval(joined[s], published)

\* A subscriber is closed as slow only if a message was dropped for it, and
\* as going away only if the hub was closed.
ClosedForCause ==
    \A s \in Subs : \A c \in closers[s] \cup {code[s]} :
        /\ c = "slow" => Len(Stream(s)) < published - joined[s]
        /\ c = "goingAway" => closed

\* Whoever is cut off, for whatever reason, leaves the hub's map: a dead
\* connection, a slow subscriber, everyone there when the hub was closed.
DeadAreRemoved ==
    \A s \in Subs : (s \in subscribers /\ (conn[s] # "open" \/ closers[s] # {}))
                        ~> s \notin subscribers
-----------------------------------------------------------------------------
\* What the peers can tell: a connection with a closing goroutine is cut,
\* one whose close frame was sent or that is down is gone.
MemberOf(s) ==
    IF conn[s] # "open" \/ loop[s] \in {"leaving", "closedNow", "returned"}
    THEN "gone"
    ELSE IF loop[s] = "none" THEN "out"
    ELSE IF closers[s] # {} THEN "cut" ELSE "in"

Contract == INSTANCE BroadcastContract WITH
    sent   <- published,
    member <- [s \in Subs |-> MemberOf(s)],
    due    <- [s \in Subs |-> IF MemberOf(s) = "gone" THEN <<>>
                              ELSE sending[s] \o msgs[s]],
    got    <- wire

\* The hub implements the contract, its promise of progress included.
ImplementsContract == Contract!BFairSpec
=============================================================================
