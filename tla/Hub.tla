--------------------------------- MODULE Hub ---------------------------------
(***************************************************************************)
(* The market-data hub (exchange/hub.go) and the WebSocket handlers that   *)
(* read from it (handleWS in exchange/server.go).  A subscriber is one     *)
(* connection: it subscribes once, to one symbol.  The hub's mutex makes   *)
(* each of Publish, Subscribe and the cancel function one step.            *)
(***************************************************************************)
EXTENDS Naturals, Sequences

CONSTANTS
  Subscribers,  \* WebSocket connections
  FeedSymbols,  \* symbols a batch of events may carry
  Topic,        \* Topic[c]: the symbol connection c asks for
  BufCap        \* batches a subscriber's channel holds (64)

ASSUME HubAssumption ==
  BufCap \in Nat \ {0} /\ Topic \in [Subscribers -> FeedSymbols]

VARIABLES
  feed,     \* feed[c]: "none", "open" (registered), "dropped" (cut off while
            \* lagging, its handler still draining), "gone" (handler returned)
  buf,      \* buf[c]: its channel
  closes,   \* closes[c]: how often its channel was closed (twice panics)
  got,      \* history, got[c]: the batches its connection has written
  joined,   \* history, joined[c]: batches published before it subscribed
  sent      \* history, sent[s]: the batches published for symbol s

hubVars == <<feed, buf, closes, got, joined, sent>>

HubInit ==
  /\ feed = [c \in Subscribers |-> "none"]
  /\ buf = [c \in Subscribers |-> <<>>]
  /\ closes = [c \in Subscribers |-> 0]
  /\ got = [c \in Subscribers |-> <<>>]
  /\ joined = [c \in Subscribers |-> 0]
  /\ sent = [s \in FeedSymbols |-> <<>>]

\* The channels registered for symbol s.
subs(s) == {c \in Subscribers : feed[c] = "open" /\ Topic[c] = s}

Lagging(s) == {c \in subs(s) : Len(buf[c]) >= BufCap}

\* Mutant of Publish: a full subscriber loses the batch and stays.
PublishDrops(s, batch) ==
  /\ buf' = [c \in Subscribers |->
               IF c \in subs(s) \ Lagging(s) THEN Append(buf[c], batch) ELSE buf[c]]
  /\ sent' = [sent EXCEPT ![s] = Append(@, batch)]
  /\ UNCHANGED <<feed, closes, got, joined>>

\* Mutant of Publish: the send waits for room in every channel.
PublishBlocks(s, batch) ==
  /\ Lagging(s) = {}
  /\ buf' = [c \in Subscribers |-> IF c \in subs(s) THEN Append(buf[c], batch) ELSE buf[c]]
  /\ sent' = [sent EXCEPT ![s] = Append(@, batch)]
  /\ UNCHANGED <<feed, closes, got, joined>>

\* Deliver a batch to every subscriber of its symbol; cut the lagging ones.
Publish(s, batch) ==
  /\ buf' = [c \in Subscribers |->
               IF c \in subs(s) \ Lagging(s) THEN Append(buf[c], batch) ELSE buf[c]]
  /\ feed' = [c \in Subscribers |-> IF c \in Lagging(s) THEN "dropped" ELSE feed[c]]
  /\ closes' = [c \in Subscribers |->
                  IF c \in Lagging(s) THEN closes[c] + 1 ELSE closes[c]]
  /\ sent' = [sent EXCEPT ![s] = Append(@, batch)]
  /\ UNCHANGED <<got, joined>>

Subscribe(c) ==
  /\ feed[c] = "none"
  /\ feed' = [feed EXCEPT ![c] = "open"]
  /\ joined' = [joined EXCEPT ![c] = Len(sent[Topic[c]])]
  /\ UNCHANGED <<buf, closes, got, sent>>

\* handleWS takes a batch off the channel and writes it to the connection.
\* A closed channel still yields what it holds.
Deliver(c) ==
  /\ feed[c] \in {"open", "dropped"} /\ buf[c] # <<>>
  /\ got' = [got EXCEPT ![c] = Append(@, Head(buf[c]))]
  /\ buf' = [buf EXCEPT ![c] = Tail(@)]
  /\ UNCHANGED <<feed, closes, joined, sent>>

\* Mutant of Unsubscribe: the channel is closed whether registered or not.
UnsubscribeAlways(c) ==
  /\ feed' = [feed EXCEPT ![c] = "gone"]
  /\ closes' = [closes EXCEPT ![c] = @ + 1]
  /\ UNCHANGED <<buf, got, joined, sent>>

\* The cancel function handleWS defers: it closes what is still registered.
Unsubscribe(c) ==
  /\ feed' = [feed EXCEPT ![c] = "gone"]
  /\ closes' = [closes EXCEPT ![c] = IF feed[c] = "open" THEN @ + 1 ELSE @]
  /\ UNCHANGED <<buf, got, joined, sent>>

\* The channel is closed and drained: the client is told to resynchronize.
Resync(c) == feed[c] = "dropped" /\ buf[c] = <<>> /\ Unsubscribe(c)

\* The connection ends: the request's context is done, or a write failed.
Disconnect(c) == feed[c] \in {"open", "dropped"} /\ Unsubscribe(c)

HubNext ==
  \E c \in Subscribers : Subscribe(c) \/ Deliver(c) \/ Resync(c) \/ Disconnect(c)

-----------------------------------------------------------------------------

\* The feed has no gaps: what a subscriber was sent or still has in its
\* channel is a contiguous run of the batches published for its symbol,
\* starting where it subscribed, and up to the last one while it is
\* registered.  A subscriber that lags is cut off, never skipped over.
FeedHasNoGaps ==
  \A c \in Subscribers : feed[c] # "none" =>
    LET seen == got[c] \o buf[c]
        all == sent[Topic[c]]
    IN  /\ seen = SubSeq(all, joined[c] + 1, joined[c] + Len(seen))
        /\ feed[c] = "open" => joined[c] + Len(seen) = Len(all)

\* No channel is closed twice (a panic that would take the engine down), and
\* none that is closed is ever sent to: Publish and the cancel function may
\* race for the same subscriber.
ClosedOnce ==
  \A c \in Subscribers : /\ closes[c] <= 1
                         /\ feed[c] = "open" => closes[c] = 0
                         /\ feed[c] = "dropped" => closes[c] = 1

=============================================================================
