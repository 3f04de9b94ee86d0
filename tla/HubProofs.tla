------------------------------ MODULE HubProofs ------------------------------
(***************************************************************************)
(* Proofs about Hub, for any number of subscribers, any capacity of their  *)
(* channels and any number of messages: its safety properties, and that it *)
(* implements the safety part of BroadcastContract.                        *)
(***************************************************************************)
EXTENDS Hub, SequenceTheorems, TLAPS

\* Subscribe's goroutine holds a message just while it writes, and is in the
\* hub's map until it returns; before it nothing has happened to a connection.
LoopInv ==
    \A s \in Subs :
        /\ s \in subscribers <=> loop[s] \in Running
        /\ Len(sending[s]) = IF loop[s] = "writing" THEN 1 ELSE 0
        /\ loop[s] = "none" => /\ msgs[s] = <<>> /\ wire[s] = <<>>
                               /\ closers[s] = {} /\ code[s] = "none"

\* Stream(s) by its parts: each is ascending, and all of one is older than all
\* of the next; and there never is more than was published since s was added.
Before(a, b) == \A i \in 1..Len(a), j \in 1..Len(b) : a[i] < b[j]
Ascending(a) == \A i, j \in 1..Len(a) : i < j => a[i] < a[j]
Between(m, n, a) == \A i \in 1..Len(a) : m < a[i] /\ a[i] <= n
Since(s, a) == Between(joined[s], published, a)

StreamOK(s) ==
    /\ Ascending(wire[s]) /\ Ascending(msgs[s])
    /\ Before(wire[s], sending[s]) /\ Before(wire[s], msgs[s])
    /\ Before(sending[s], msgs[s])
    /\ Since(s, wire[s]) /\ Since(s, sending[s]) /\ Since(s, msgs[s])

Length(s) == Len(wire[s]) + Len(sending[s]) + Len(msgs[s])

\* a is the messages published after the first k.
From(k, a) == \A i \in 1..Len(a) : a[i] = k + i

\* NoSilentGap by the parts of Stream(s).
Complete(s) ==
    /\ From(joined[s], wire[s])
    /\ From(joined[s] + Len(wire[s]), sending[s])
    /\ From(joined[s] + Len(wire[s]) + Len(sending[s]), msgs[s])
    /\ joined[s] + Length(s) = published

Causes(s) == closers[s] \cup {code[s]}

StreamInv == \A s \in Subs : StreamOK(s)
LengthInv == \A s \in Subs : joined[s] + Length(s) <= published
GapInv == \A s \in subscribers : conn[s] = "open" /\ "slow" \notin closers[s] => Complete(s)
CauseInv == \A s \in Subs : /\ "slow" \in Causes(s) => joined[s] + Length(s) < published
                            /\ "goingAway" \in Causes(s) => closed

IInv == TypeOK /\ LoopInv /\ StreamInv /\ LengthInv /\ GapInv /\ CauseInv
-----------------------------------------------------------------------------
(* Sequences of messages.                                                  *)

Messages == Seq(1..MaxMsgs)

\* Messages are natural numbers.
LEMMA Elements ==
    ASSUME NEW a \in Messages
    PROVE  Len(a) \in Nat /\ \A i \in 1..Len(a) : a[i] \in Nat
BY HubAssumption DEF Messages

\* The next message is appended.
LEMMA AppendNext ==
    ASSUME NEW a \in Messages, NEW m \in Nat, NEW n \in Nat, n < MaxMsgs, m <= n,
           Between(m, n, a)
    PROVE  /\ Append(a, n + 1) \in Messages /\ Len(Append(a, n + 1)) = Len(a) + 1
           /\ Between(m, n + 1, Append(a, n + 1))
           /\ Ascending(a) => Ascending(Append(a, n + 1))
           /\ \A b \in Messages : Before(b, a) /\ Between(m, n, b)
                                   => Before(b, Append(a, n + 1))
           /\ \A k \in Nat : From(k, a) /\ k + Len(a) = n => From(k, Append(a, n + 1))
<1> DEFINE c == Append(a, n + 1)
<1>1. c \in Messages /\ Len(c) = Len(a) + 1
  BY HubAssumption DEF Messages
<1>2. (\A i \in 1..Len(a) : c[i] = a[i]) /\ c[Len(a) + 1] = n + 1
  BY HubAssumption
<1> HIDE DEF c
<1>3. Len(a) \in Nat /\ \A i \in 1..Len(a) : a[i] \in Nat /\ a[i] <= n
  BY Elements DEF Between
<1>4. \A i \in 1..Len(c) :
        (i \in 1..Len(a) /\ c[i] = a[i]) \/ (i = Len(a) + 1 /\ c[i] = n + 1)
  BY <1>1, <1>2, <1>3
<1>5. Between(m, n + 1, c)
  BY <1>3, <1>4 DEF Between
<1>6. Ascending(a) => Ascending(c)
  BY <1>3, <1>4 DEF Ascending
<1>7. ASSUME NEW b \in Messages, Before(b, a), Between(m, n, b) PROVE Before(b, c)
  <2>1. \A i \in 1..Len(b) : b[i] \in Nat /\ b[i] <= n
    BY <1>7, Elements DEF Between
  <2> QED BY <1>4, <1>7, <2>1 DEF Before
<1>8. ASSUME NEW k \in Nat, From(k, a), k + Len(a) = n PROVE From(k, c)
  BY <1>3, <1>4, <1>8 DEF From
<1> QED BY <1>1, <1>5, <1>6, <1>7, <1>8 DEF c

\* The first message of a channel is taken.
LEMMA TakeFirst ==
    ASSUME NEW a \in Messages, a # <<>>, NEW m \in Nat, NEW n \in Nat, Ascending(a),
           Between(m, n, a)
    PROVE  /\ <<Head(a)>> \in Messages /\ Tail(a) \in Messages
           /\ Len(Tail(a)) = Len(a) - 1 /\ Len(<<Head(a)>>) = 1
           /\ Ascending(Tail(a)) /\ Before(<<Head(a)>>, Tail(a))
           /\ Between(m, n, <<Head(a)>>) /\ Between(m, n, Tail(a))
           /\ \A b \in Messages : Before(b, a)
                                   => Before(b, <<Head(a)>>) /\ Before(b, Tail(a))
           /\ \A k \in Nat : From(k, a) => From(k, <<Head(a)>>) /\ From(k + 1, Tail(a))
<1> DEFINE h == <<Head(a)>>  t == Tail(a)
<1>1. /\ h \in Messages /\ t \in Messages /\ Len(a) \in Nat \ {0} /\ Len(t) = Len(a) - 1
      /\ Len(h) = 1 /\ h[1] = a[1] /\ \A i \in 1..Len(t) : t[i] = a[i + 1]
  <2>1. t \in Messages /\ Len(t) = Len(a) - 1 /\ \A i \in 1..Len(t) : t[i] = a[i + 1]
    BY DEF Messages
  <2>2. h \in Messages /\ Len(h) = 1
    <3>1. Head(a) \in 1..MaxMsgs
      BY HeadTailProperties DEF Messages
    <3> QED BY <3>1 DEF Messages
  <2>3. Len(a) \in Nat \ {0}
    BY Elements
  <2> QED BY <2>1, <2>2
<1> HIDE DEF h, t
<1>2. \A i \in 1..Len(a) : a[i] \in Nat
  BY Elements
<1>3. /\ \A i \in 1..Len(h) : i = 1 /\ 1 \in 1..Len(a) /\ h[i] = a[1]
      /\ \A i \in 1..Len(t) : i + 1 \in 1..Len(a) /\ t[i] = a[i + 1] /\ 1 < i + 1
  BY <1>1
<1>4. Ascending(t) /\ Before(h, t)
  BY <1>3 DEF Ascending, Before
<1>5. Between(m, n, h) /\ Between(m, n, t)
  BY <1>3 DEF Between
<1>6. ASSUME NEW b \in Messages, Before(b, a) PROVE Before(b, h) /\ Before(b, t)
  BY <1>3, <1>6 DEF Before
<1>7. ASSUME NEW k \in Nat, From(k, a) PROVE From(k, h) /\ From(k + 1, t)
  BY <1>3, <1>7 DEF From
<1> QED BY <1>1, <1>4, <1>5, <1>6, <1>7 DEF h, t

\* Messages after others.
LEMMA Concat ==
    ASSUME NEW a \in Messages, NEW x \in Messages, NEW m \in Nat, NEW n \in Nat,
           Ascending(a), Ascending(x), Before(a, x), Between(m, n, a), Between(m, n, x)
    PROVE  /\ a \o x \in Messages /\ Len(a \o x) = Len(a) + Len(x)
           /\ Ascending(a \o x) /\ Between(m, n, a \o x)
           /\ \A b \in Messages : Before(a, b) /\ Before(x, b) => Before(a \o x, b)
           /\ \A k \in Nat : From(k, a) /\ From(k + Len(a), x) => From(k, a \o x)
<1> DEFINE c == a \o x
<1>1. /\ c \in Messages /\ Len(c) = Len(a) + Len(x)
      /\ \A i \in 1..(Len(a) + Len(x)) : c[i] = IF i <= Len(a) THEN a[i] ELSE x[i - Len(a)]
  BY DEF Messages
<1> HIDE DEF c
<1>2. /\ Len(a) \in Nat /\ (\A i \in 1..Len(a) : a[i] \in Nat)
      /\ Len(x) \in Nat /\ (\A i \in 1..Len(x) : x[i] \in Nat)
  BY Elements
<1>3. ASSUME NEW i \in 1..Len(c), i > Len(a)
      PROVE  i - Len(a) \in 1..Len(x) /\ c[i] = x[i - Len(a)]
  BY <1>1, <1>3
<1>4. ASSUME NEW i \in 1..Len(c), i <= Len(a)
      PROVE  i \in 1..Len(a) /\ c[i] = a[i]
  BY <1>1, <1>4
<1>5. Ascending(c)
  <2> SUFFICES ASSUME NEW i \in 1..Len(c), NEW k \in 1..Len(c), i < k PROVE c[i] < c[k]
    BY DEF Ascending
  <2>1. CASE k <= Len(a)
    BY <1>4, <2>1 DEF Ascending
  <2>2. CASE i <= Len(a) /\ k > Len(a)
    BY <1>3, <1>4, <2>2 DEF Before
  <2>3. CASE i > Len(a)
    <3>1. /\ i - Len(a) \in 1..Len(x) /\ k - Len(a) \in 1..Len(x) /\ i - Len(a) < k - Len(a)
          /\ c[i] = x[i - Len(a)] /\ c[k] = x[k - Len(a)]
      BY <1>3, <2>3
    <3> QED BY <3>1 DEF Ascending
  <2> QED BY <2>1, <2>2, <2>3
<1>6. Between(m, n, c)
  BY <1>3, <1>4 DEF Between
<1>7. ASSUME NEW b \in Messages, Before(a, b), Before(x, b) PROVE Before(c, b)
  <2> SUFFICES ASSUME NEW i \in 1..Len(c), NEW k \in 1..Len(b) PROVE c[i] < b[k]
    BY DEF Before
  <2>1. CASE i <= Len(a)
    BY <1>4, <1>7, <2>1 DEF Before
  <2>2. CASE i > Len(a)
    BY <1>3, <1>7, <2>2 DEF Before
  <2> QED BY <2>1, <2>2
<1>8. ASSUME NEW k \in Nat, From(k, a), From(k + Len(a), x) PROVE From(k, c)
  <2> SUFFICES ASSUME NEW i \in 1..Len(c) PROVE c[i] = k + i
    BY DEF From
  <2>1. CASE i <= Len(a)
    BY <1>4, <1>8, <2>1 DEF From
  <2>2. CASE i > Len(a)
    <3>1. c[i] = (k + Len(a)) + (i - Len(a))
      BY <1>3, <1>8, <2>2 DEF From
    <3> QED BY <3>1
  <2> QED BY <2>1, <2>2
<1> QED BY <1>1, <1>5, <1>6, <1>7, <1>8 DEF c
-----------------------------------------------------------------------------
(* Steps that leave what is sent alone.                                    *)

parts == <<published, joined, msgs, sending, wire>>

\* The steps of the loop that only move it.
LEMMA MoveKeeps ==
    ASSUME IInv, NEW s \in Subs,
           Tick(s) \/ Ping(s) \/ SeeCtxDone(s) \/ CloseNow(s) \/ RemoveSubscriber(s)
    PROVE  IInv'
<1> USE DEF IInv
<1>1. UNCHANGED parts /\ UNCHANGED <<closed, closers, code>>
  BY DEF Tick, Ping, PingDone, PingFails, SeeCtxDone, CloseNow,
      RemoveSubscriber, Down, parts, hub, link
<1>2. TypeOK'
  BY DEF Tick, Ping, PingDone, PingFails, SeeCtxDone, CloseNow,
      RemoveSubscriber, Down, Goto, hub, link, TypeOK, Running
<1>3. LoopInv'
  BY <1>1 DEF Tick, Ping, PingDone, PingFails, SeeCtxDone, CloseNow,
      RemoveSubscriber, Goto, parts, hub, TypeOK, LoopInv, Running
<1>4. StreamInv' /\ LengthInv' /\ CauseInv'
  BY <1>1 DEF parts, StreamInv, StreamOK, LengthInv, Length, CauseInv,
      Causes, Since
<1>5. GapInv'
  BY DEF Tick, Ping, PingDone, PingFails, SeeCtxDone, CloseNow,
      RemoveSubscriber, Down, parts, hub, link, TypeOK, GapInv, Complete,
      Length
<1> QED BY <1>2, <1>3, <1>4, <1>5

\* The connection, its peer and the closing goroutines.
LEMMA LinkKeeps ==
    ASSUME IInv, NEW s \in Subs,
           \/ \E c \in Codes : RunCloser(s, c)
           \/ CloseHandshakeEnds(s) \/ Environment(s)
    PROVE  IInv'
<1> USE DEF IInv
<1>1. UNCHANGED parts /\ UNCHANGED <<closed, subscribers, loop>>
  BY DEF RunCloser, CloseHandshakeEnds, Environment, PeerLeaves, PeerSpeaks,
      parts, hub
<1>2. /\ closers' \in [Subs -> SUBSET Codes]
      /\ conn' \in [Subs -> {"open", "closing", "closed"}]
      /\ code' \in [Subs -> Codes \cup {"none"}]
      /\ ctxDone' \in [Subs -> BOOLEAN]
      /\ \A t \in Subs :
           /\ closers'[t] \subseteq closers[t] \cup {"unexpected"}
           /\ code'[t] \in {code[t]} \cup closers[t]
           /\ loop[t] = "none" /\ closers[t] = {} => closers'[t] = {}
           /\ conn'[t] = "open" => conn[t] = "open" /\ closers[t] \subseteq closers'[t]
  <2>1. ASSUME NEW c \in Codes, RunCloser(s, c) PROVE <1>2!:
    <3>1. CASE conn[s] = "open" /\ conn' = [conn EXCEPT ![s] = "closing"]
                 /\ code' = [code EXCEPT ![s] = c] /\ UNCHANGED ctxDone
      BY <2>1, <3>1 DEF RunCloser, TypeOK
    <3>2. CASE conn[s] = "open" /\ Down(s)
      BY <2>1, <3>2 DEF RunCloser, Down, TypeOK
    <3>3. CASE conn[s] # "open" /\ UNCHANGED link
      BY <2>1, <3>3 DEF RunCloser, link, TypeOK
    <3> QED BY <2>1, <3>1, <3>2, <3>3 DEF RunCloser
  <2>2. CASE CloseHandshakeEnds(s) \/ PeerLeaves(s)
    BY <2>2 DEF CloseHandshakeEnds, PeerLeaves, Down, TypeOK
  <2>3. CASE PeerSpeaks(s)
    BY <2>3 DEF PeerSpeaks, link, TypeOK, Codes, Running
  <2> QED BY <2>1, <2>2, <2>3 DEF Environment
<1>3. TypeOK'
  BY <1>1, <1>2 DEF parts, TypeOK
<1>4. LoopInv'
  BY <1>1, <1>2 DEF parts, LoopInv
<1>5. StreamInv' /\ LengthInv'
  BY <1>1 DEF parts, StreamInv, StreamOK, LengthInv, Length, Since
<1>6. CauseInv'
  BY <1>1, <1>2 DEF parts, CauseInv, Causes, Length
<1>7. GapInv'
  BY <1>1, <1>2 DEF parts, TypeOK, GapInv, Complete, Length
<1> QED BY <1>3, <1>4, <1>5, <1>6, <1>7

\* Close only adds closing goroutines, and their cause is true from then on.
LEMMA CloseKeeps == IInv /\ Close => IInv'
<1> SUFFICES ASSUME IInv, Close PROVE IInv'
  OBVIOUS
<1> USE DEF IInv
<1>1. UNCHANGED parts /\ UNCHANGED <<subscribers, loop, link>>
  BY DEF Close, parts
<1>2. TypeOK'
  BY DEF Close, link, TypeOK, Codes
<1>3. LoopInv'
  BY DEF Close, link, LoopInv, Running
<1>4. StreamInv' /\ LengthInv'
  BY <1>1 DEF parts, StreamInv, StreamOK, LengthInv, Length, Since
<1>5. \A t \in Subs : closers[t] \subseteq closers'[t]
                       /\ closers'[t] \subseteq closers[t] \cup {"goingAway"}
  BY DEF Close
<1>6. CauseInv'
  BY DEF Close, link, CauseInv, Causes, Length
<1>7. GapInv'
  BY <1>1, <1>5 DEF parts, link, TypeOK, GapInv, Complete, Length
<1> QED BY <1>2, <1>3, <1>4, <1>6, <1>7
-----------------------------------------------------------------------------
(* Steps that move or drop messages.                                       *)

\* A subscriber starts with an empty stream, complete from what is published now.
LEMMA SubscribeKeeps ==
    ASSUME IInv, NEW s \in Subs, Subscribe(s)
    PROVE  IInv'
<1> USE DEF IInv, Subscribe
<1>1. /\ msgs[s] = <<>> /\ wire[s] = <<>> /\ Len(sending[s]) = 0
      /\ closers[s] = {} /\ code[s] = "none"
  BY DEF LoopInv
<1>2. TypeOK'
  BY DEF TypeOK, Running
<1>3. LoopInv'
  BY DEF TypeOK, LoopInv, Running
<1>4. StreamInv'
  <2> SUFFICES ASSUME NEW t \in Subs PROVE StreamOK(t)'
    BY DEF StreamInv
  <2>1. CASE t = s
    BY <1>1, <2>1 DEF StreamOK, Ascending, Before, Since, Between
  <2>2. CASE t # s
    BY <2>2 DEF StreamInv, StreamOK, Since
  <2> QED BY <2>1, <2>2
<1>5. LengthInv' /\ CauseInv'
  BY <1>1 DEF TypeOK, LengthInv, Length, CauseInv, Causes
<1>6. GapInv'
  BY <1>1 DEF TypeOK, GapInv, Complete, Length, From
<1> QED BY <1>2, <1>3, <1>4, <1>5, <1>6

\* The parts of a stream are sequences of messages.
LEMMA PartTypes ==
    ASSUME TypeOK, NEW t \in Subs
    PROVE  /\ wire[t] \in Messages /\ sending[t] \in Messages /\ msgs[t] \in Messages
           /\ Len(wire[t]) \in Nat /\ Len(sending[t]) \in Nat /\ Len(msgs[t]) \in Nat
           /\ joined[t] \in Nat /\ published \in Nat /\ Length(t) \in Nat
BY DEF TypeOK, Messages, Length

\* A subscriber whose stream is not touched by a step that publishes or not.
LEMMA SameStream ==
    ASSUME IInv, NEW t \in Subs, published' \in Nat, published <= published',
           wire'[t] = wire[t], sending'[t] = sending[t], msgs'[t] = msgs[t],
           joined'[t] = joined[t]
    PROVE  /\ StreamOK(t)' /\ Length(t)' = Length(t)
           /\ Complete(t) /\ published' = published => Complete(t)'
<1>1. \A i \in Nat : i <= published => i <= published'
  BY PartTypes DEF IInv
<1>2. (Since(t, wire[t]) /\ Since(t, sending[t]) /\ Since(t, msgs[t]))'
  BY <1>1, PartTypes, Elements DEF IInv, StreamInv, StreamOK, Since, Between
<1>3. StreamOK(t)'
  BY <1>2 DEF IInv, StreamInv, StreamOK
<1>4. Length(t)' = Length(t)
  BY DEF Length
<1>5. Complete(t) /\ published' = published => Complete(t)'
  BY <1>4 DEF Complete
<1> QED BY <1>3, <1>4, <1>5

\* What Publish does to the channel of a subscriber that has room in it.
LEMMA AppendToChannel ==
    ASSUME IInv, TypeOK', NEW t \in subscribers, ~Full(t), published < MaxMsgs,
           published' = published + 1, msgs'[t] = Append(msgs[t], published + 1),
           UNCHANGED <<joined, sending, wire>>
    PROVE  StreamOK(t)' /\ Length(t)' = Length(t) + 1 /\ (Complete(t) => Complete(t)')
<1> USE DEF IInv
<1> DEFINE w == wire[t]  x == sending[t]  m == msgs[t]  j == joined[t]  n == msgs'[t]
<1>1. t \in Subs
  BY DEF TypeOK
<1>2. /\ w \in Messages /\ x \in Messages /\ m \in Messages
      /\ j \in Nat /\ published \in Nat
      /\ Len(w) \in Nat /\ Len(x) \in Nat /\ Len(m) \in Nat
  BY <1>1, PartTypes
<1>3. /\ Ascending(w) /\ Ascending(m) /\ Before(w, x) /\ Before(w, m) /\ Before(x, m)
      /\ Between(j, published, w) /\ Between(j, published, x) /\ Between(j, published, m)
  BY <1>1 DEF StreamInv, StreamOK, Since
<1>4. Length(t) = Len(w) + Len(x) + Len(m) /\ j + Length(t) <= published
  BY <1>1 DEF Length, LengthInv
<1>5. /\ wire'[t] = w /\ sending'[t] = x /\ msgs'[t] = n /\ joined'[t] = j
      /\ n = Append(m, published + 1) /\ Length(t)' = Len(w) + Len(x) + Len(n)
  BY DEF Length
<1> HIDE DEF w, x, m, j, n
<1>6. j <= published
  BY <1>2, <1>4
<1>7. /\ Len(n) = Len(m) + 1 /\ Between(j, published + 1, n) /\ Ascending(n)
      /\ Before(w, n) /\ Before(x, n)
      /\ \A k \in Nat : From(k, m) /\ k + Len(m) = published => From(k, n)
  BY <1>2, <1>3, <1>5, <1>6, AppendNext
<1>8. Between(j, published + 1, w) /\ Between(j, published + 1, x)
  BY <1>2, <1>3, Elements DEF Between
<1>9. StreamOK(t)'
  BY <1>3, <1>5, <1>7, <1>8 DEF StreamOK, Since
<1>10. Length(t)' = Length(t) + 1
  BY <1>4, <1>5
<1>11. ASSUME Complete(t) PROVE Complete(t)'
  <2>1. /\ From(j, w) /\ From(j + Len(w), x) /\ From(j + Len(w) + Len(x), m)
        /\ j + Length(t) = published
    BY <1>11 DEF Complete, w, x, m, j
  <2>2. From(j + Len(w) + Len(x), n)
    BY <1>2, <1>4, <1>7, <2>1
  <2>3. j + Length(t)' = published + 1
    BY <1>2, <1>4, <1>10, <2>1
  <2> QED BY <1>5, <2>1, <2>2, <2>3 DEF Complete
<1> QED BY <1>9, <1>10, <1>11

\* A subscriber with room gets the next message, the others are closed as slow.
LEMMA PublishKeeps == IInv /\ Publish => IInv'
<1> SUFFICES ASSUME IInv, Publish PROVE IInv'
  OBVIOUS
<1> USE DEF IInv
<1>1. /\ published' = published + 1 /\ published \in Nat /\ published' \in Nat
      /\ published < MaxMsgs /\ published <= published'
  BY DEF Publish, TypeOK
<1>2. UNCHANGED <<closed, subscribers, joined, loop, sending, link, wire>>
  BY DEF Publish
<1>3. \A t \in Subs : t \notin subscribers \/ Full(t) => msgs'[t] = msgs[t]
  BY DEF Publish
<1>4. ASSUME NEW t \in subscribers, ~Full(t)
      PROVE  /\ msgs'[t] = Append(msgs[t], published + 1)
             /\ msgs'[t] \in Messages /\ Len(msgs'[t]) <= MessageBuffer
  <2>1. t \in Subs
    BY DEF TypeOK
  <2>2. msgs'[t] = Append(msgs[t], published + 1)
    BY <1>4, <2>1 DEF Publish
  <2>3. msgs[t] \in Messages /\ published + 1 \in 1..MaxMsgs
    BY <1>1, <2>1, PartTypes, HubAssumption
  <2> QED BY <1>4, <2>2, <2>3, HubAssumption DEF Messages, Full
<1>5. \A t \in Subs : closers'[t] = IF t \in subscribers /\ Full(t)
                                     THEN closers[t] \cup {"slow"} ELSE closers[t]
  BY DEF Publish
<1>6. TypeOK'
  <2>1. msgs' \in [Subs -> Messages]
    <3>1. \A t \in Subs : msgs'[t] \in Messages
      BY <1>3, <1>4, PartTypes
    <3> QED BY <3>1 DEF Publish
  <2>2. \A t \in Subs : Len(msgs'[t]) <= MessageBuffer
    BY <1>3, <1>4 DEF TypeOK
  <2>3. closers' \in [Subs -> SUBSET Codes]
    BY DEF Publish, TypeOK, Codes
  <2>4. published' \in 0..MaxMsgs
    BY <1>1, HubAssumption
  <2> QED BY <1>2, <2>1, <2>2, <2>3, <2>4 DEF TypeOK, link, Messages
<1>7. LoopInv'
  BY <1>2, <1>3, <1>5 DEF LoopInv, link, Running
<1>8. ASSUME NEW t \in Subs, t \notin subscribers \/ Full(t)
      PROVE  StreamOK(t)' /\ Length(t)' = Length(t)
  BY <1>1, <1>2, <1>3, <1>8, SameStream
<1>9. ASSUME NEW t \in subscribers, ~Full(t)
      PROVE  StreamOK(t)' /\ Length(t)' = Length(t) + 1 /\ (Complete(t) => Complete(t)')
  BY <1>1, <1>2, <1>4, <1>6, <1>9, AppendToChannel
<1>10. ASSUME NEW t \in Subs
       PROVE  /\ joined[t] \in Nat /\ Length(t) \in Nat /\ joined'[t] = joined[t]
              /\ joined[t] + Length(t) <= published
  BY <1>2, PartTypes DEF LengthInv
<1>11. StreamInv'
  BY <1>8, <1>9 DEF StreamInv
<1>12. ASSUME NEW t \in Subs
       PROVE  (joined[t] + Length(t) <= published)'
  <2> DEFINE j == joined[t]
  <2>1. j \in Nat /\ Length(t) \in Nat /\ joined'[t] = j /\ j + Length(t) <= published
    BY <1>10
  <2> HIDE DEF j
  <2> QED BY <1>1, <1>8, <1>9, <2>1
<1>13. ASSUME NEW t \in Subs
       PROVE  /\ ("slow" \in Causes(t) => joined[t] + Length(t) < published)'
              /\ ("goingAway" \in Causes(t) => closed)'
  <2> DEFINE j == joined[t]
  <2>1. j \in Nat /\ Length(t) \in Nat /\ joined'[t] = j /\ j + Length(t) <= published
    BY <1>10
  <2>2. "slow" \in Causes(t) => j + Length(t) < published
    BY DEF CauseInv
  <2> HIDE DEF j
  <2>3. CASE t \notin subscribers \/ Full(t)
    <3>1. j + Length(t)' < published'
      BY <1>1, <1>8, <2>1, <2>3
    <3>2. "goingAway" \in Causes(t)' => "goingAway" \in Causes(t)
      <4>1. code'[t] = code[t]
        BY <1>2 DEF link
      <4>2. closers'[t] \in {closers[t], closers[t] \cup {"slow"}}
        BY <1>5
      <4> QED BY <4>1, <4>2 DEF Causes
    <3> QED BY <1>2, <2>1, <3>1, <3>2 DEF CauseInv
  <2>4. CASE t \in subscribers /\ ~Full(t)
    <3>1. Causes(t)' = Causes(t)
      BY <1>2, <1>5, <2>4 DEF Causes, link
    <3>2. j + Length(t) < published => j + Length(t)' < published'
      BY <1>1, <1>9, <2>1, <2>4
    <3> QED BY <1>2, <2>1, <3>1, <3>2 DEF CauseInv
  <2> QED BY <2>3, <2>4
<1>14. GapInv'
  BY <1>2, <1>5, <1>9 DEF GapInv, TypeOK, link
<1> QED BY <1>6, <1>7, <1>11, <1>12, <1>13, <1>14 DEF LengthInv, CauseInv

\* The first message of the channel is on its way.
LEMMA TakeMessageKeeps ==
    ASSUME IInv, NEW s \in Subs, TakeMessage(s)
    PROVE  IInv'
<1> USE DEF IInv
<1> DEFINE w == wire[s]  x == sending[s]  m == msgs[s]  j == joined[s]
           h == <<Head(msgs[s])>>  n == Tail(msgs[s])
<1>1. UNCHANGED <<hub, closers, link, wire>>
  BY DEF TakeMessage
<1>2. /\ sending' = [sending EXCEPT ![s] = h] /\ msgs' = [msgs EXCEPT ![s] = n]
      /\ loop[s] = "select" /\ loop' = [loop EXCEPT ![s] = "writing"] /\ m # <<>>
  BY DEF TakeMessage, Goto
<1>3. /\ w \in Messages /\ x \in Messages /\ m \in Messages
      /\ j \in Nat /\ published \in Nat
      /\ Len(w) \in Nat /\ Len(x) \in Nat /\ Len(m) \in Nat /\ Len(x) = 0
  BY <1>2, PartTypes DEF LoopInv
<1>4. /\ Ascending(w) /\ Ascending(m) /\ Before(w, m) /\ Between(j, published, w)
      /\ Between(j, published, m) /\ Length(s) = Len(w) + Len(x) + Len(m)
  BY DEF StreamInv, StreamOK, Since, Length
<1>5. /\ wire'[s] = w /\ joined'[s] = j /\ published' = published /\ sending'[s] = h
      /\ msgs'[s] = n /\ Length(s)' = Len(w) + Len(h) + Len(n)
  BY <1>1, <1>2 DEF hub, Length, TypeOK
<1>6. \A t \in Subs \ {s} : /\ sending'[t] = sending[t] /\ msgs'[t] = msgs[t]
                            /\ wire'[t] = wire[t] /\ joined'[t] = joined[t]
  BY <1>1, <1>2 DEF hub
<1>7. Len(m) <= MessageBuffer
  BY DEF TypeOK
<1>8. h = <<Head(m)>> /\ n = Tail(m)
  OBVIOUS
<1> HIDE DEF w, x, m, j, h, n
<1>9. /\ h \in Messages /\ n \in Messages /\ Len(n) = Len(m) - 1 /\ Len(h) = 1
      /\ Ascending(n) /\ Before(h, n)
      /\ Between(j, published, h) /\ Between(j, published, n)
      /\ Before(w, h) /\ Before(w, n)
      /\ \A k \in Nat : From(k, m) => From(k, h) /\ From(k + 1, n)
  BY <1>2, <1>3, <1>4, <1>8, TakeFirst
<1>10. Len(n) <= MessageBuffer
  BY <1>7, <1>9, HubAssumption
<1>11. TypeOK'
  BY <1>1, <1>2, <1>9, <1>10 DEF TypeOK, hub, link, Messages, Running
<1>12. LoopInv'
  BY <1>1, <1>2, <1>9 DEF LoopInv, TypeOK, hub, link, Running
<1>13. StreamOK(s)' /\ Length(s)' = Length(s)
  <2>1. StreamOK(s)'
    BY <1>4, <1>5, <1>9 DEF StreamOK, Since
  <2>2. Length(s)' = Length(s)
    BY <1>3, <1>4, <1>5, <1>9
  <2> QED BY <2>1, <2>2
<1>14. ASSUME Complete(s) PROVE Complete(s)'
  <2>1. /\ From(j, w) /\ From(j + Len(w) + Len(x), m) /\ j + Length(s) = published
    BY <1>14 DEF Complete, w, x, m, j
  <2>2. j + Len(w) + Len(x) = j + Len(w) /\ j + Len(w) + Len(h) = (j + Len(w) + Len(x)) + 1
    BY <1>3, <1>9
  <2>3. From(j + Len(w), h) /\ From(j + Len(w) + Len(h), n)
    BY <1>3, <1>9, <2>1
  <2> QED BY <1>5, <1>13, <2>1, <2>3 DEF Complete
<1>15. ASSUME NEW t \in Subs
       PROVE  StreamOK(t)' /\ Length(t)' = Length(t) /\ (Complete(t) => Complete(t)')
  BY <1>3, <1>5, <1>6, <1>13, <1>14, SameStream
<1>16. StreamInv' /\ LengthInv' /\ CauseInv' /\ GapInv'
  BY <1>1, <1>15 DEF StreamInv, LengthInv, CauseInv, Causes, GapInv, hub,
      link, TypeOK
<1> QED BY <1>11, <1>12, <1>16

\* The message moves from the loop to the connection; the stream stays as it is.
LEMMA WriteDoneKeeps ==
    ASSUME IInv, NEW s \in Subs, WriteDone(s)
    PROVE  IInv'
<1> USE DEF IInv
<1> DEFINE w == wire[s]  x == sending[s]  m == msgs[s]  j == joined[s]  n == w \o x
<1>1. UNCHANGED <<hub, msgs, closers, link>>
  BY DEF WriteDone
<1>2. /\ sending' = [sending EXCEPT ![s] = <<>>] /\ wire' = [wire EXCEPT ![s] = n]
      /\ loop[s] = "writing" /\ loop' = [loop EXCEPT ![s] = "select"]
  BY DEF WriteDone, Goto
<1>3. /\ w \in Messages /\ x \in Messages /\ m \in Messages
      /\ j \in Nat /\ published \in Nat
      /\ Len(w) \in Nat /\ Len(x) \in Nat /\ Len(m) \in Nat /\ Len(x) = 1
  BY <1>2, PartTypes DEF LoopInv
<1>4. /\ Ascending(w) /\ Ascending(m) /\ Before(w, x) /\ Before(w, m) /\ Before(x, m)
      /\ Between(j, published, w) /\ Between(j, published, x) /\ Between(j, published, m)
      /\ Length(s) = Len(w) + Len(x) + Len(m)
  BY DEF StreamInv, StreamOK, Since, Length
<1>5. /\ wire'[s] = n /\ joined'[s] = j /\ published' = published /\ sending'[s] = <<>>
      /\ msgs'[s] = m /\ Length(s)' = Len(n) + 0 + Len(m)
  BY <1>1, <1>2 DEF hub, Length, TypeOK
<1>6. \A t \in Subs \ {s} : /\ sending'[t] = sending[t] /\ msgs'[t] = msgs[t]
                            /\ wire'[t] = wire[t] /\ joined'[t] = joined[t]
  BY <1>1, <1>2 DEF hub
<1>7. n = w \o x
  OBVIOUS
<1> HIDE DEF w, x, m, j, n
<1>8. /\ n \in Messages /\ Len(n) = Len(w) + 1 /\ Ascending(n) /\ Between(j, published, n)
      /\ Before(n, m)
      /\ \A k \in Nat : From(k, w) /\ From(k + Len(w), x) => From(k, n)
  <2>1. Ascending(x)
    BY <1>3 DEF Ascending
  <2> QED BY <1>3, <1>4, <1>7, <2>1, Concat
<1>9. TypeOK'
  BY <1>1, <1>2, <1>8 DEF TypeOK, hub, link, Messages, Running
<1>10. LoopInv'
  BY <1>1, <1>2 DEF LoopInv, TypeOK, hub, link, Running
<1>11. StreamOK(s)' /\ Length(s)' = Length(s)
  <2>1. StreamOK(s)'
    BY <1>4, <1>5, <1>8 DEF StreamOK, Since, Before, Between
  <2>2. Length(s)' = Length(s)
    BY <1>3, <1>4, <1>5, <1>8
  <2> QED BY <2>1, <2>2
<1>12. ASSUME Complete(s) PROVE Complete(s)'
  <2>1. /\ From(j, w) /\ From(j + Len(w), x) /\ From(j + Len(w) + Len(x), m)
        /\ j + Length(s) = published
    BY <1>12 DEF Complete, w, x, m, j
  <2>2. j + Len(n) + 0 = j + Len(w) + Len(x)
    BY <1>3, <1>8
  <2>3. From(j, n) /\ From(j + Len(n) + 0, m)
    BY <1>3, <1>8, <2>1
  <2> QED BY <1>5, <1>11, <2>1, <2>3 DEF Complete, From
<1>13. ASSUME NEW t \in Subs
       PROVE  StreamOK(t)' /\ Length(t)' = Length(t) /\ (Complete(t) => Complete(t)')
  BY <1>3, <1>5, <1>6, <1>11, <1>12, SameStream
<1>14. StreamInv' /\ LengthInv' /\ CauseInv' /\ GapInv'
  BY <1>1, <1>13 DEF StreamInv, LengthInv, CauseInv, Causes, GapInv, hub,
      link, TypeOK
<1> QED BY <1>9, <1>10, <1>14

\* A message is lost: the connection is down by then.
LEMMA WriteFailsKeeps ==
    ASSUME IInv, NEW s \in Subs, WriteFails(s)
    PROVE  IInv'
<1> USE DEF IInv
<1> DEFINE w == wire[s]  m == msgs[s]  j == joined[s]
<1>1. UNCHANGED <<hub, msgs, closers, wire, code>>
  BY DEF WriteFails, Down, link
<1>2. /\ sending' = [sending EXCEPT ![s] = <<>>]
      /\ loop[s] = "writing" /\ loop' = [loop EXCEPT ![s] = "leaving"]
  BY DEF WriteFails, Goto
<1>3. conn' = [conn EXCEPT ![s] = IF @ = "open" THEN "closed" ELSE @]
  BY DEF WriteFails, Down, link, TypeOK
<1>4. TypeOK'
  <2>1. ctxDone' \in [Subs -> BOOLEAN]
    BY DEF WriteFails, Down, link, TypeOK
  <2>2. conn' \in [Subs -> {"open", "closing", "closed"}]
    BY <1>3 DEF TypeOK
  <2>3. /\ sending' \in [Subs -> Messages]
        /\ loop' \in [Subs -> Running \cup {"none", "returned"}]
    BY <1>2 DEF TypeOK, Messages, Running
  <2> QED BY <1>1, <2>1, <2>2, <2>3 DEF TypeOK, hub, Messages
<1>5. LoopInv'
  BY <1>1, <1>2 DEF LoopInv, TypeOK, hub, Running
<1>6. ASSUME NEW t \in Subs, t # s
      PROVE  StreamOK(t)' /\ Length(t)' = Length(t) /\ (Complete(t) => Complete(t)')
  BY <1>1, <1>2, <1>6, PartTypes, SameStream DEF hub
<1>7. StreamOK(s)'
  BY <1>1, <1>2 DEF StreamInv, StreamOK, Since, Before, Between, hub
<1>8. Length(s)' <= Length(s) /\ Length(s)' \in Nat /\ Length(s) \in Nat
  BY <1>1, <1>2 DEF Length, TypeOK
<1>9. StreamInv'
  BY <1>6, <1>7 DEF StreamInv
<1>10. LengthInv'
  <2>1. ASSUME NEW t \in Subs PROVE Length(t)' <= Length(t) /\ Length(t)' \in Nat
    BY <1>6, <1>8, PartTypes
  <2> QED BY <1>1, <2>1, PartTypes DEF LengthInv, hub, TypeOK
<1>11. CauseInv'
  <2>1. ASSUME NEW t \in Subs PROVE Length(t)' <= Length(t) /\ Length(t)' \in Nat
    BY <1>6, <1>8, PartTypes
  <2>2. ASSUME NEW t \in Subs PROVE Causes(t)' = Causes(t)
    BY <1>1 DEF Causes
  <2> QED BY <1>1, <2>1, <2>2, PartTypes DEF CauseInv, hub, TypeOK
<1>12. GapInv'
  BY <1>1, <1>3, <1>6 DEF GapInv, hub, TypeOK
<1> QED BY <1>4, <1>5, <1>9, <1>10, <1>11, <1>12
-----------------------------------------------------------------------------
\* Nothing was published and nobody has subscribed.
LEMMA InitIInv == Init => IInv
<1> SUFFICES ASSUME Init PROVE IInv
  OBVIOUS
<1>1. TypeOK
  <2>1. <<>> \in Seq(1..MaxMsgs) /\ Len(<<>>) = 0 /\ 0 \in 0..MaxMsgs
    BY HubAssumption
  <2>2. /\ msgs \in [Subs -> Seq(1..MaxMsgs)] /\ sending \in [Subs -> Seq(1..MaxMsgs)]
        /\ wire \in [Subs -> Seq(1..MaxMsgs)] /\ joined \in [Subs -> 0..MaxMsgs]
    BY <2>1 DEF Init
  <2>3. \A s \in Subs : Len(msgs[s]) <= MessageBuffer
    <3>1. \A s \in Subs : msgs[s] = <<>>
      BY DEF Init
    <3> QED BY <3>1, HubAssumption
  <2>4. /\ loop \in [Subs -> Running \cup {"none", "returned"}]
        /\ closers \in [Subs -> SUBSET Codes]
        /\ conn \in [Subs -> {"open", "closing", "closed"}]
        /\ code \in [Subs -> Codes \cup {"none"}] /\ ctxDone \in [Subs -> BOOLEAN]
        /\ closed \in BOOLEAN /\ subscribers \in SUBSET Subs /\ published \in 0..MaxMsgs
    BY <2>1 DEF Init
  <2> QED BY <2>2, <2>3, <2>4 DEF TypeOK
<1>2. LoopInv /\ LengthInv /\ CauseInv /\ GapInv
  BY DEF Init, LoopInv, LengthInv, Length, CauseInv, Causes, GapInv, Running
<1>3. StreamInv
  BY DEF Init, StreamInv, StreamOK, Since, Ascending, Before, Between
<1> QED BY <1>1, <1>2, <1>3 DEF IInv

\* No step of the hub, of its goroutines or of a peer breaks the invariant.
LEMMA StepIInv == IInv /\ [Next]_vars => IInv'
<1> SUFFICES ASSUME IInv, [Next]_vars PROVE IInv'
  OBVIOUS
<1>1. CASE Publish \/ Close
  BY <1>1, PublishKeeps, CloseKeeps
<1>2. ASSUME NEW s \in Subs, Subscribe(s) \/ Write(s) PROVE IInv'
  BY <1>2, SubscribeKeeps, TakeMessageKeeps, WriteDoneKeeps, WriteFailsKeeps
      DEF Write
<1>3. ASSUME NEW s \in Subs, Tick(s) \/ Ping(s) \/ Return(s) PROVE IInv'
  BY <1>3, MoveKeeps DEF Return
<1>4. ASSUME NEW s \in Subs,
             \/ \E c \in Codes : RunCloser(s, c)
             \/ CloseHandshakeEnds(s) \/ Environment(s)
      PROVE  IInv'
  BY <1>4, LinkKeeps
<1>5. CASE UNCHANGED vars
  <2>1. TypeOK' /\ LoopInv'
    BY <1>5 DEF vars, hub, link, IInv, TypeOK, LoopInv
  <2>2. StreamInv' /\ LengthInv' /\ CauseInv' /\ GapInv'
    BY <1>5 DEF vars, hub, link, IInv, StreamInv, StreamOK, Since, Ascending,
        Before, Between, LengthInv, Length, CauseInv, Causes, GapInv,
        Complete, From
  <2> QED BY <2>1, <2>2 DEF IInv
<1> QED BY <1>1, <1>2, <1>3, <1>4, <1>5 DEF Next

\* hub.go, subscribe.go: the inductive invariant holds in every reachable state.
THEOREM Invariance == Spec => []IInv
BY InitIInv, StepIInv, PTL DEF Spec
-----------------------------------------------------------------------------
(* The properties, put together from the parts.                            *)

\* What the parts say of the stream as a whole.
LEMMA StreamOfParts ==
    ASSUME IInv, NEW s \in Subs
    PROVE  /\ Stream(s) \in Messages /\ Len(Stream(s)) = Length(s)
           /\ Ascending(Stream(s)) /\ Since(s, Stream(s))
           /\ Complete(s) => From(joined[s], Stream(s))
<1> DEFINE w == wire[s]  x == sending[s]  m == msgs[s]  j == joined[s]
<1>1. /\ w \in Messages /\ x \in Messages /\ m \in Messages
      /\ j \in Nat /\ published \in Nat
      /\ Len(w) \in Nat /\ Len(x) \in Nat /\ Len(m) \in Nat
  BY PartTypes DEF IInv
<1>2. /\ Ascending(w) /\ Ascending(m) /\ Before(w, x) /\ Before(w, m) /\ Before(x, m)
      /\ Between(j, published, w) /\ Between(j, published, x) /\ Between(j, published, m)
  BY DEF IInv, StreamInv, StreamOK, Since
<1>3. Len(x) \in {0, 1}
  BY DEF IInv, LoopInv
<1>4. Stream(s) = (w \o x) \o m /\ Length(s) = Len(w) + Len(x) + Len(m)
  BY DEF Stream, Length
<1>5. Complete(s) => /\ From(j, w) /\ From(j + Len(w), x)
                     /\ From(j + Len(w) + Len(x), m)
  BY DEF Complete
<1> HIDE DEF w, x, m, j
<1>6. Ascending(x)
  BY <1>3 DEF Ascending
<1> DEFINE a == w \o x
<1>7. /\ a \in Messages /\ Len(a) = Len(w) + Len(x)
      /\ Ascending(a) /\ Between(j, published, a)
      /\ Before(a, m) /\ (From(j, w) /\ From(j + Len(w), x) => From(j, a))
  BY <1>1, <1>2, <1>6, Concat
<1>8. Stream(s) = a \o m
  BY <1>4
<1> HIDE DEF a
<1>9. /\ a \o m \in Messages /\ Len(a \o m) = Len(a) + Len(m)
      /\ Ascending(a \o m) /\ Between(j, published, a \o m)
      /\ From(j, a) /\ From(j + Len(a), m) => From(j, a \o m)
  BY <1>1, <1>2, <1>7, Concat
<1>10. j + Len(a) = j + Len(w) + Len(x) /\ Len(a) + Len(m) = Length(s)
  BY <1>1, <1>4, <1>7
<1> QED BY <1>5, <1>7, <1>8, <1>9, <1>10 DEF Since, j

\* The variables of the hub and of its connections keep their types; a channel
\* never holds more than its capacity.
THEOREM TypeCorrect == Spec => []TypeOK
<1>1. IInv => TypeOK
  BY DEF IInv
<1> QED BY <1>1, Invariance, PTL

\* hub.go and subscribe.go: what a peer gets is in order, without duplicates.
THEOREM Ordered == Spec => []InOrder
<1>1. ASSUME IInv PROVE InOrder
  <2> SUFFICES ASSUME NEW s \in Subs
               PROVE  /\ \A i \in 1..(Len(Stream(s)) - 1) : Stream(s)[i] < Stream(s)[i + 1]
                      /\ Stream(s) # <<>> => Stream(s)[1] > joined[s]
    BY DEF InOrder
  <2> DEFINE a == Stream(s)
  <2>1. a \in Messages /\ Ascending(a) /\ Between(joined[s], published, a)
    BY <1>1, StreamOfParts DEF Since
  <2>2. joined[s] \in Nat
    BY <1>1, PartTypes DEF IInv
  <2> HIDE DEF a
  <2>3. Len(a) \in Nat /\ (a # <<>> => Len(a) # 0) /\ \A i \in 1..Len(a) : a[i] \in Nat
    BY <2>1, Elements
  <2>4. \A i \in 1..(Len(a) - 1) : a[i] < a[i + 1]
    BY <2>1 DEF Ascending
  <2>5. a # <<>> => a[1] > joined[s]
    BY <2>1 DEF Between
  <2> QED BY <2>4, <2>5 DEF a
<1> QED BY <1>1, Invariance, PTL

\* Publish: whoever misses a message is closed, or about to be.
THEOREM NothingSkipped == Spec => []NoSilentGap
<1>1. ASSUME IInv PROVE NoSilentGap
  <2> SUFFICES ASSUME NEW s \in subscribers, conn[s] = "open", "slow" \notin closers[s]
               PROVE  Stream(s) = Interval(joined[s], published)
    BY DEF NoSilentGap
  <2> DEFINE a == Stream(s)  j == joined[s]
  <2>1. s \in Subs
    BY <1>1 DEF IInv, TypeOK
  <2>2. /\ a \in Messages /\ From(j, a) /\ Len(a) = Length(s) /\ j + Length(s) = published
        /\ Length(s) \in Nat /\ j \in Nat
    BY <1>1, <2>1, StreamOfParts, PartTypes DEF IInv, GapInv, Complete
  <2> HIDE DEF a, j
  <2>3. Len(a) = published - j
    BY <2>2
  <2>4. a = [i \in 1..Len(a) |-> a[i]]
    BY <2>2 DEF Messages
  <2>5. a = [i \in 1..(published - j) |-> j + i]
    BY <2>2, <2>4 DEF From
  <2> QED BY <2>5 DEF a, j, Interval
<1> QED BY <1>1, Invariance, PTL

\* Publish and Close: nobody is closed for a reason that is not there.
THEOREM CutForCause == Spec => []ClosedForCause
<1>1. ASSUME IInv PROVE ClosedForCause
  <2> SUFFICES ASSUME NEW s \in Subs, NEW c \in closers[s] \cup {code[s]}
               PROVE  /\ c = "slow" => Len(Stream(s)) < published - joined[s]
                      /\ c = "goingAway" => closed
    BY DEF ClosedForCause
  <2> DEFINE j == joined[s]
  <2>1. /\ c = "slow" => j + Length(s) < published
        /\ c = "goingAway" => closed
    BY <1>1 DEF IInv, CauseInv, Causes
  <2>2. j \in Nat /\ Length(s) \in Nat /\ published \in Nat /\ Len(Stream(s)) = Length(s)
    BY <1>1, PartTypes, StreamOfParts DEF IInv
  <2> HIDE DEF j
  <2>3. c = "slow" => Len(Stream(s)) < published - j
    BY <2>1, <2>2
  <2> QED BY <2>1, <2>3 DEF j
<1> QED BY <1>1, Invariance, PTL
-----------------------------------------------------------------------------
(* BroadcastContract, step by step.                                        *)

DueOf(s) == IF MemberOf(s) = "gone" THEN <<>> ELSE sending[s] \o msgs[s]
Member == [s \in Subs |-> MemberOf(s)]
Due == [s \in Subs |-> DueOf(s)]

\* What MemberOf and DueOf look at.
SameFor(t) == /\ loop'[t] = loop[t] /\ closers'[t] = closers[t] /\ conn'[t] = conn[t]
              /\ sending'[t] = sending[t] /\ msgs'[t] = msgs[t]

\* A subscriber no step touched is what it was in the contract.
LEMMA SameMember ==
    ASSUME NEW t \in Subs, SameFor(t)
    PROVE  MemberOf(t)' = MemberOf(t) /\ DueOf(t)' = DueOf(t)
BY DEF SameFor, MemberOf, DueOf

\* The state functions of the contract, by these names.
LEMMA ContractState ==
    /\ Contract!bvars = <<published, Member, Due, wire>>
    /\ Contract!Members = {s \in Subs : MemberOf(s) = "in"}
    /\ Contract!CutOnes = {s \in Subs : MemberOf(s) = "cut"}
BY DEF Contract!bvars, Contract!Members, Contract!CutOnes, Member, Due, DueOf

\* A step nobody can tell from the outside.
LEMMA Stutters ==
    ASSUME \A t \in Subs : MemberOf(t)' = MemberOf(t) /\ DueOf(t)' = DueOf(t),
           UNCHANGED <<published, wire>>
    PROVE  UNCHANGED Contract!bvars
<1>1. Member' = Member /\ Due' = Due
  BY DEF Member, Due
<1> QED BY DEF Contract!bvars, DueOf

\* A connection that is gone now left with this step or before.
LEMMA Leaves ==
    ASSUME NEW s \in Subs, \A t \in Subs \ {s} : SameFor(t), MemberOf(s)' = "gone",
           UNCHANGED <<published, wire>>
    PROVE  Contract!Leave(s) \/ UNCHANGED Contract!bvars
<1>1. DueOf(s)' = <<>>
  BY DEF DueOf
<1>2. CASE MemberOf(s) = "gone"
  <2>1. DueOf(s) = <<>>
    BY <1>2 DEF DueOf
  <2> QED BY <1>1, <1>2, <2>1, SameMember, Stutters
<1>3. CASE MemberOf(s) # "gone"
  <2>1. Member' = [Member EXCEPT ![s] = "gone"]
    BY SameMember DEF Member
  <2>2. Due' = [Due EXCEPT ![s] = <<>>]
    BY <1>1, SameMember DEF Due
  <2>3. Member[s] # "gone"
    BY <1>3 DEF Member
  <2> QED BY <2>1, <2>2, <2>3 DEF Contract!Leave, Member, Due, DueOf
<1> QED BY <1>2, <1>3

\* Sequences of messages in the contract's terms.
LEMMA Delivering ==
    ASSUME NEW w \in Messages, NEW x \in Messages, NEW m \in Messages, Len(x) = 1
    PROVE  /\ x \o m # <<>> /\ Tail(x \o m) = <<>> \o m
           /\ w \o x = Append(w, Head(x \o m))
<1> DEFINE d == x \o m
<1>1. Len(w) \in Nat /\ Len(m) \in Nat /\ 1 \in 1..MaxMsgs
  BY Elements, ElementOfSeq, HubAssumption DEF Messages
<1>2. /\ d \in Messages /\ Len(d) = 1 + Len(m) /\ d[1] = x[1]
      /\ \A i \in 1..Len(m) : d[i + 1] = m[i]
  <2>1. /\ d \in Messages /\ Len(d) = Len(x) + Len(m)
        /\ \A i \in 1..(Len(x) + Len(m)) :
             d[i] = IF i <= Len(x) THEN x[i] ELSE m[i - Len(x)]
    BY ConcatProperties DEF Messages
  <2> HIDE DEF d
  <2>2. ASSUME NEW i \in 1..Len(m) PROVE d[i + 1] = m[i]
    <3>1. i + 1 \in 1..(Len(x) + Len(m)) /\ ~(i + 1 <= Len(x)) /\ (i + 1) - Len(x) = i
      BY <1>1
    <3> QED BY <2>1
  <2> QED BY <2>1
<1> HIDE DEF d
<1>3. d # <<>>
  BY <1>2
<1>4. Tail(d) = m
  <2>1. /\ Tail(d) \in Messages /\ Len(Tail(d)) = Len(m)
        /\ \A i \in 1..Len(m) : Tail(d)[i] = m[i]
    BY <1>2 DEF Messages
  <2> QED BY <2>1, SeqEqual DEF Messages
<1>5. <<>> \o m = m
  BY ConcatEmptySeq
<1>6. x = <<x[1]>> /\ Head(d) = x[1]
  BY <1>2 DEF Messages
<1>7. w \o <<x[1]>> = Append(w, x[1])
  BY AppendIsConcat
<1> QED BY <1>3, <1>4, <1>6 DEF d

\* A message taken from the channel is still due.
LEMMA Taking ==
    ASSUME NEW m \in Messages, m # <<>>
    PROVE  <<Head(m)>> \o Tail(m) = <<>> \o m
BY DEF Messages

\* What is queued last is due last.
LEMMA Appending ==
    ASSUME NEW x \in Messages, NEW m \in Messages, NEW e \in 1..MaxMsgs
    PROVE  x \o Append(m, e) = Append(x \o m, e)
BY ConcatProperties

\* A write that is done delivers the first message due.
LEMMA WriteDoneDelivers ==
    ASSUME IInv, NEW s \in Subs, WriteDone(s)
    PROVE  Contract!Deliver(s)
<1>1. /\ conn[s] = "open" /\ loop[s] = "writing" /\ loop' = [loop EXCEPT ![s] = "select"]
      /\ UNCHANGED <<published, msgs, closers, conn>>
      /\ wire' = [wire EXCEPT ![s] = wire[s] \o sending[s]]
      /\ sending' = [sending EXCEPT ![s] = <<>>]
  BY DEF WriteDone, Goto, hub, link
<1>2. MemberOf(s) \in {"in", "cut"} /\ MemberOf(s)' = MemberOf(s)
  BY <1>1 DEF MemberOf
<1>3. \A t \in Subs \ {s} : SameFor(t)
  BY <1>1 DEF SameFor
<1>4. /\ wire[s] \in Messages /\ sending[s] \in Messages /\ msgs[s] \in Messages
      /\ Len(sending[s]) = 1
  BY <1>1, PartTypes DEF IInv, LoopInv
<1>5. DueOf(s) = sending[s] \o msgs[s] /\ DueOf(s)' = <<>> \o msgs[s]
  BY <1>1, <1>2 DEF DueOf, IInv, TypeOK
<1>6. /\ DueOf(s) # <<>> /\ DueOf(s)' = Tail(DueOf(s))
      /\ wire' = [wire EXCEPT ![s] = Append(wire[s], Head(DueOf(s)))]
  <2>1. /\ sending[s] \o msgs[s] # <<>> /\ Tail(sending[s] \o msgs[s]) = <<>> \o msgs[s]
        /\ wire[s] \o sending[s] = Append(wire[s], Head(sending[s] \o msgs[s]))
    BY <1>4, Delivering
  <2> QED BY <1>1, <1>5, <2>1
<1>7. Member' = Member
  BY <1>2, <1>3, SameMember DEF Member
<1>8. Due' = [Due EXCEPT ![s] = Tail(Due[s])]
  BY <1>3, <1>6, SameMember DEF Due
<1> QED BY <1>1, <1>2, <1>6, <1>7, <1>8 DEF Contract!Deliver, Member, Due,
            DueOf

\* To take a message from the channel changes nothing that is due.
LEMMA TakeMessageStutters ==
    ASSUME IInv, NEW s \in Subs, TakeMessage(s)
    PROVE  UNCHANGED Contract!bvars
<1>1. /\ loop[s] = "select" /\ loop' = [loop EXCEPT ![s] = "writing"] /\ msgs[s] # <<>>
      /\ sending' = [sending EXCEPT ![s] = <<Head(msgs[s])>>]
      /\ msgs' = [msgs EXCEPT ![s] = Tail(msgs[s])]
      /\ UNCHANGED <<published, closers, conn, wire>>
  BY DEF TakeMessage, Goto, hub, link
<1>2. MemberOf(s)' = MemberOf(s)
  BY <1>1 DEF MemberOf
<1>3. msgs[s] \in Messages /\ sending[s] = <<>>
  <2>1. sending[s] \in Messages /\ msgs[s] \in Messages /\ Len(sending[s]) = 0
    BY <1>1, PartTypes DEF IInv, LoopInv
  <2> QED BY <2>1
<1>4. sending'[s] \o msgs'[s] = sending[s] \o msgs[s]
  BY <1>1, <1>3 DEF IInv, TypeOK
<1>5. DueOf(s)' = DueOf(s)
  BY <1>2, <1>4 DEF DueOf
<1>6. \A t \in Subs \ {s} : SameFor(t)
  BY <1>1 DEF SameFor
<1> QED BY <1>1, <1>2, <1>5, <1>6, SameMember, Stutters

\* The members that have no room are cut, those cut before may get it.
LEMMA PublishBroadcasts ==
    ASSUME IInv, Publish
    PROVE  \E cut \in SUBSET Contract!Members, spared \in SUBSET Contract!CutOnes :
              Contract!Broadcast(cut, spared)
<1>0. PICK cut, spared : /\ cut = {t \in Subs : MemberOf(t) = "in" /\ Full(t)}
                         /\ spared = {t \in Subs : MemberOf(t) = "cut" /\ ~Full(t)}
  OBVIOUS
<1>1. /\ published < MaxMsgs /\ published' = published + 1 /\ UNCHANGED wire
      /\ UNCHANGED <<loop, conn, sending>> /\ published + 1 \in 1..MaxMsgs
  BY HubAssumption DEF Publish, link, IInv, TypeOK
<1>2. \A t \in Subs : /\ msgs'[t] = IF t \in subscribers /\ ~Full(t)
                                     THEN Append(msgs[t], published + 1) ELSE msgs[t]
                      /\ closers'[t] = IF t \in subscribers /\ Full(t)
                                        THEN closers[t] \cup {"slow"} ELSE closers[t]
  BY DEF Publish
<1>3. \A t \in Subs : MemberOf(t) \in {"in", "cut"} => t \in subscribers
  BY DEF MemberOf, IInv, LoopInv, TypeOK
<1>4. \A t \in Subs : MemberOf(t) = "out" => t \notin subscribers
  BY DEF MemberOf, IInv, LoopInv, Running
<1>5. ASSUME NEW t \in Subs
      PROVE  MemberOf(t)' = IF t \in cut THEN "cut" ELSE MemberOf(t)
  BY <1>0, <1>1, <1>2, <1>3 DEF MemberOf
<1>6. ASSUME NEW t \in Subs
      PROVE  DueOf(t)' = IF (MemberOf(t) = "in" /\ t \notin cut) \/ t \in spared
                         THEN Append(DueOf(t), published + 1) ELSE DueOf(t)
  <2>1. sending[t] \in Messages /\ msgs[t] \in Messages /\ sending'[t] = sending[t]
    BY <1>1, PartTypes DEF IInv
  <2>2. MemberOf(t) \in {"in", "cut", "out", "gone"}
    BY DEF MemberOf
  <2>3. CASE MemberOf(t) \in {"in", "cut"} /\ ~Full(t)
    <3>1. msgs'[t] = Append(msgs[t], published + 1)
      BY <1>2, <1>3, <2>3
    <3>2. sending[t] \o Append(msgs[t], published + 1) =
            Append(sending[t] \o msgs[t], published + 1)
      BY <1>1, <2>1, Appending
    <3> QED BY <1>0, <1>5, <2>1, <2>3, <3>1, <3>2 DEF DueOf
  <2>4. CASE MemberOf(t) \in {"in", "cut"} /\ Full(t)
    BY <1>0, <1>2, <1>5, <2>1, <2>4 DEF DueOf
  <2>5. CASE MemberOf(t) = "out"
    BY <1>0, <1>2, <1>4, <1>5, <2>1, <2>5 DEF DueOf
  <2>6. CASE MemberOf(t) = "gone"
    BY <1>0, <1>5, <2>6 DEF DueOf
  <2> QED BY <2>2, <2>3, <2>4, <2>5, <2>6
<1>7. cut \in SUBSET Contract!Members /\ spared \in SUBSET Contract!CutOnes
  BY <1>0, ContractState
<1>8. Member' = [t \in Subs |-> IF t \in cut THEN "cut" ELSE Member[t]]
  BY <1>5 DEF Member
<1>9. Due' = [t \in Subs |-> IF t \in (Contract!Members \ cut) \cup spared
                            THEN Append(Due[t], published + 1) ELSE Due[t]]
  BY <1>6, ContractState DEF Due
<1>10. Contract!Broadcast(cut, spared)
  <2>1. Contract!Broadcast(cut, spared) <=>
          /\ published < MaxMsgs /\ published' = published + 1
          /\ Member' = [s \in Subs |-> IF s \in cut THEN "cut" ELSE Member[s]]
          /\ Due' = [s \in Subs |-> IF s \in (Contract!Members \ cut) \cup spared
                                    THEN Append(Due[s], published + 1) ELSE Due[s]]
          /\ UNCHANGED wire
    BY DEF Contract!Broadcast, Member, Due, DueOf
  <2> QED BY <1>1, <1>8, <1>9, <2>1
<1> QED BY <1>7, <1>10

\* Close gives every member a closing goroutine.
LEMMA CloseCuts ==
    ASSUME IInv, Close
    PROVE  Contract!Cut(Contract!Members)
<1>1. /\ UNCHANGED <<published, msgs, loop, sending, conn, wire>>
      /\ \A t \in Subs : closers'[t] = IF t \in subscribers
                                       THEN closers[t] \cup {"goingAway"} ELSE closers[t]
  BY DEF Close, link
<1>2. \A t \in Subs : t \in subscribers <=> loop[t] \in Running
  BY DEF IInv, LoopInv
<1>3. ASSUME NEW t \in Subs
      PROVE  MemberOf(t)' = IF MemberOf(t) = "in" THEN "cut" ELSE MemberOf(t)
  <2>1. loop[t] \in Running \cup {"none", "returned"}
    BY DEF IInv, TypeOK
  <2> QED BY <1>1, <1>2, <2>1 DEF MemberOf
<1>4. ASSUME NEW t \in Subs PROVE DueOf(t)' = DueOf(t)
  BY <1>1, <1>3 DEF DueOf
<1>5. Member' = [t \in Subs |-> IF t \in Contract!Members THEN "cut" ELSE Member[t]]
  BY <1>3, ContractState DEF Member
<1>6. Due' = Due
  BY <1>4 DEF Due
<1> QED BY <1>1, <1>5, <1>6 DEF Contract!Cut, Member, Due, DueOf

\* CloseRead cuts a member that speaks.
LEMMA PeerSpeaksCuts ==
    ASSUME IInv, NEW s \in Subs, PeerSpeaks(s)
    PROVE  \/ \E cut \in SUBSET Contract!Members : Contract!Cut(cut)
           \/ UNCHANGED Contract!bvars
<1>1. /\ UNCHANGED <<published, msgs, loop, sending, conn, wire>>
      /\ closers'[s] = closers[s] \cup {"unexpected"}
      /\ \A t \in Subs \ {s} : SameFor(t)
  BY DEF PeerSpeaks, hub, link, IInv, TypeOK, SameFor
<1>2. CASE MemberOf(s) = "in"
  <2>1. MemberOf(s)' = "cut"
    BY <1>1, <1>2 DEF MemberOf
  <2>2. DueOf(s)' = DueOf(s)
    BY <1>1, <1>2, <2>1 DEF DueOf
  <2>3. Member' = [t \in Subs |-> IF t \in {s} THEN "cut" ELSE Member[t]]
    BY <1>1, <2>1, SameMember DEF Member
  <2>4. Due' = Due
    BY <1>1, <2>2, SameMember DEF Due
  <2>5. Contract!Cut({s})
    BY <1>1, <2>3, <2>4 DEF Contract!Cut, Member, Due, DueOf
  <2>6. {s} \in SUBSET Contract!Members
    BY <1>2, ContractState
  <2> QED BY <2>5, <2>6
<1>3. CASE MemberOf(s) # "in"
  <2>1. MemberOf(s)' = MemberOf(s)
    BY <1>1, <1>3 DEF MemberOf
  <2>2. DueOf(s)' = DueOf(s)
    BY <1>1, <2>1 DEF DueOf
  <2> QED BY <1>1, <2>1, <2>2, SameMember, Stutters
<1> QED BY <1>2, <1>3

\* A subscriber joins, unless its connection is already down.
LEMMA SubscribeJoins ==
    ASSUME IInv, NEW s \in Subs, Subscribe(s)
    PROVE  Contract!Join(s) \/ UNCHANGED Contract!bvars
<1>1. /\ loop[s] = "none" /\ loop'[s] = "select"
      /\ UNCHANGED <<published, msgs, sending, closers, conn, wire>>
      /\ \A t \in Subs \ {s} : SameFor(t)
  BY DEF Subscribe, IInv, TypeOK, SameFor
<1>2. closers[s] = {}
  BY <1>1 DEF IInv, LoopInv
<1>3. CASE conn[s] = "open"
  <2>1. MemberOf(s) = "out" /\ MemberOf(s)' = "in"
    BY <1>1, <1>2, <1>3 DEF MemberOf
  <2>2. DueOf(s)' = DueOf(s)
    BY <1>1, <2>1 DEF DueOf
  <2>3. Member' = [Member EXCEPT ![s] = "in"] /\ Member[s] = "out"
    BY <1>1, <2>1, SameMember DEF Member
  <2>4. Due' = Due
    BY <1>1, <2>2, SameMember DEF Due
  <2> QED BY <1>1, <2>3 DEF Contract!Join, Member
<1>4. CASE conn[s] # "open"
  <2>1. MemberOf(s) = "gone" /\ MemberOf(s)' = "gone"
    BY <1>1, <1>4 DEF MemberOf
  <2>2. DueOf(s)' = DueOf(s)
    BY <2>1 DEF DueOf
  <2> QED BY <1>1, <2>1, <2>2, SameMember, Stutters
<1> QED BY <1>3, <1>4

\* The loop between a message and the next: nobody can tell.
LEMMA LoopStutters ==
    ASSUME IInv, NEW s \in Subs, Tick(s) \/ PingDone(s)
    PROVE  UNCHANGED Contract!bvars
<1>1. /\ loop[s] \in {"select", "pinging"} /\ loop'[s] \in {"select", "pinging"}
      /\ UNCHANGED <<published, msgs, sending, closers, conn, wire>>
      /\ \A t \in Subs \ {s} : SameFor(t)
  BY DEF Tick, PingDone, Goto, hub, link, IInv, TypeOK, SameFor
<1>2. MemberOf(s)' = MemberOf(s)
  BY <1>1 DEF MemberOf
<1>3. DueOf(s)' = DueOf(s)
  BY <1>1, <1>2 DEF DueOf
<1> QED BY <1>1, <1>2, <1>3, SameMember, Stutters

\* Whatever ends the loop or the connection.
LEMMA EndLeaves ==
    ASSUME IInv, NEW s \in Subs,
           \/ WriteFails(s) \/ PingFails(s) \/ Return(s)
           \/ CloseHandshakeEnds(s) \/ PeerLeaves(s)
    PROVE  Contract!Leave(s) \/ UNCHANGED Contract!bvars
<1>1. UNCHANGED <<published, wire>> /\ \A t \in Subs \ {s} : SameFor(t)
  BY DEF WriteFails, PingFails, Return, SeeCtxDone, CloseNow,
      RemoveSubscriber, CloseHandshakeEnds, PeerLeaves, Down, Goto, hub,
      link, IInv, TypeOK, SameFor
<1>2. conn'[s] # "open" \/ loop'[s] \in {"leaving", "closedNow", "returned"}
  BY DEF WriteFails, PingFails, Return, SeeCtxDone, CloseNow,
      RemoveSubscriber, CloseHandshakeEnds, PeerLeaves, Down, Goto, IInv,
      TypeOK
<1>3. MemberOf(s)' = "gone"
  BY <1>2 DEF MemberOf
<1> QED BY <1>1, <1>3, Leaves

\* Whoever gets a close frame, or is dropped, leaves.
LEMMA RunCloserLeaves ==
    ASSUME IInv, NEW s \in Subs, NEW c \in Codes, RunCloser(s, c)
    PROVE  Contract!Leave(s) \/ UNCHANGED Contract!bvars
<1>1. UNCHANGED <<published, wire>> /\ \A t \in Subs \ {s} : SameFor(t)
  BY DEF RunCloser, Down, hub, link, IInv, TypeOK, SameFor
<1>2. conn'[s] # "open"
  BY DEF RunCloser, Down, link, IInv, TypeOK
<1>3. MemberOf(s)' = "gone"
  BY <1>2 DEF MemberOf
<1> QED BY <1>1, <1>3, Leaves

\* Nobody has joined.
LEMMA InitRefines == Init => Contract!BInit
<1> SUFFICES ASSUME Init PROVE Contract!BInit
  OBVIOUS
<1>1. \A s \in Subs : MemberOf(s) = "out" /\ sending[s] \o msgs[s] = <<>>
  BY DEF Init, MemberOf
<1> QED BY <1>1 DEF Init, Contract!BInit

\* Every step of the hub is one of the contract, or none.
LEMMA StepRefines == IInv /\ [Next]_vars => [Contract!BNext]_(Contract!bvars)
<1> SUFFICES ASSUME IInv, [Next]_vars
             PROVE  Contract!BNext \/ UNCHANGED Contract!bvars
  OBVIOUS
<1>1. CASE Publish
  BY <1>1, PublishBroadcasts DEF Contract!BNext
<1>2. CASE Close
  BY <1>2, CloseCuts DEF Contract!BNext
<1>3. ASSUME NEW s \in Subs, Subscribe(s) PROVE Contract!BNext \/ UNCHANGED Contract!bvars
  BY <1>3, SubscribeJoins DEF Contract!BNext
<1>4. ASSUME NEW s \in Subs, Write(s) PROVE Contract!BNext \/ UNCHANGED Contract!bvars
  BY <1>4, TakeMessageStutters, WriteDoneDelivers, EndLeaves DEF Write,
      Contract!BNext
<1>5. ASSUME NEW s \in Subs, Tick(s) \/ Ping(s)
      PROVE  Contract!BNext \/ UNCHANGED Contract!bvars
  BY <1>5, LoopStutters, EndLeaves DEF Ping, Contract!BNext
<1>6. ASSUME NEW s \in Subs, Return(s) \/ CloseHandshakeEnds(s)
      PROVE  Contract!BNext \/ UNCHANGED Contract!bvars
  BY <1>6, EndLeaves DEF Contract!BNext
<1>7. ASSUME NEW s \in Subs, NEW c \in Codes, RunCloser(s, c)
      PROVE  Contract!BNext \/ UNCHANGED Contract!bvars
  BY <1>7, RunCloserLeaves DEF Contract!BNext
<1>8. ASSUME NEW s \in Subs, Environment(s) PROVE Contract!BNext \/ UNCHANGED Contract!bvars
  BY <1>8, EndLeaves, PeerSpeaksCuts DEF Environment, Contract!BNext
<1>9. CASE UNCHANGED vars
  BY <1>9 DEF vars, hub, link, Contract!bvars, MemberOf
<1> QED BY <1>1, <1>2, <1>3, <1>4, <1>5, <1>6, <1>7, <1>8, <1>9 DEF Next

\* hub.go and subscribe.go do what BroadcastContract promises, its fairness
\* apart: every member gets all that is broadcast, in order, until it is gone,
\* and whoever misses a message is cut.
THEOREM KeepsTheContract == Spec => Contract!BSpec
BY InitRefines, StepRefines, Invariance, PTL DEF Spec, Contract!BSpec
=============================================================================
