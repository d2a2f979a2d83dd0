------------------------------- MODULE Board -------------------------------
(***************************************************************************)
(* How the board in a browser follows the tracker.                         *)
(*                                                                         *)
(*   commands --file events--> server: watchFiles, one debounce timer      *)
(*     --broadcast, a channel of Room messages--> event stream             *)
(*     --"update t" / "delete t"--> client: fetches t, updates its store   *)
(*                                                                         *)
(* The server is internal/tickboard/server/server.go, the client           *)
(* internal/tickboard/ui/src: comms/local.ts, stores/ticks.ts and          *)
(* components/tick-board.ts.  Several boards do not affect each other, so  *)
(* there is one here.                                                      *)
(*                                                                         *)
(* A definition named Def_Change is a faulty variant of the Def below it.  *)
(***************************************************************************)
EXTENDS Naturals, Sequences

CONSTANTS
  Ids,
  BlockersOf,   \* the sets of blockers a tick may have
  Room,         \* messages the server keeps for a client
  MaxChanges,   \* bound: files written or deleted
  MaxDrops      \* bound: connections and requests lost

\* There is more than one id, so a request for the list is not one for a tick.
ASSUME BoardAssumption ==
  /\ \A t \in Ids : Ids # {t}
  /\ BlockersOf \subseteq SUBSET Ids
  /\ Room \in Nat \ {0}
  /\ MaxChanges \in Nat /\ MaxDrops \in Nat

\* Of a tick the board shows whether it is closed and what blocks it.
Absent == [there |-> FALSE, closed |-> FALSE, by |-> {}]
Ticks  == [there : {TRUE}, closed : BOOLEAN, by : BlockersOf]

VARIABLES
  disk,       \* the files
  events,     \* file events the server has not taken yet
  known,      \* the files whose modification time is in fileMtimes
  timer,      \* tickTimer is running
  last,       \* lastTickEvent
  stream,     \* the client is registered
  channel,    \* messages to it
  requests,   \* its requests under way: for one tick or for the list, answered or not
  asked,      \* how many there have been
  shown,      \* $ticks: what was fetched, and is_blocked
  error,      \* $error: the board is replaced by a message
  changes, drops,
  missed,     \* history: ticks of which the last message, or answer, was lost
  newest      \* history: of each tick, the newest answer shown, or its removal

vars == <<disk, events, known, timer, last, stream, channel, requests, asked, shown, error,
          changes, drops, missed, newest>>
server == <<known, timer, last>>
browser == <<requests, asked, shown, error, newest>>

Event   == [id : Ids, removed : BOOLEAN]
Disk    == [Ids -> Ticks \cup {Absent}]
Card    == [there : BOOLEAN, closed : BOOLEAN, by : SUBSET Ids, blocked : BOOLEAN]
NoCard  == [there |-> FALSE, closed |-> FALSE, by |-> {}, blocked |-> FALSE]

\* Requests are numbered, and again when they are served; the answer to one for a
\* single tick is in that tick's place of a list of all.
Unanswered == [t \in Ids |-> Absent]
Request == [n : Nat, of : SUBSET Ids, answered : BOOLEAN, answer : Disk]
Ask(n, S) == [n |-> n, of |-> S, answered |-> FALSE, answer |-> Unanswered]

TypeOK ==
  /\ disk \in Disk
  /\ events \in Seq(Event)
  /\ known \subseteq Ids /\ timer \in BOOLEAN /\ last \in Event
  /\ stream \in BOOLEAN
  /\ channel \in Seq(Event) /\ Len(channel) <= Room
  /\ requests \subseteq Request /\ asked \in Nat
  /\ shown \in [Ids -> Card] /\ \A t \in Ids : ~shown[t].there => shown[t] = NoCard
  /\ error \in BOOLEAN /\ changes \in 0 .. MaxChanges /\ drops \in 0 .. MaxDrops
  /\ missed \subseteq Ids /\ newest \in [Ids -> Nat]

\* A board is opened: it asks for the list, and opens the stream.
Init ==
  /\ disk \in Disk
  /\ events = <<>> /\ known = {} /\ timer = FALSE
  /\ last \in [id : Ids, removed : {FALSE}]
  /\ stream = FALSE /\ channel = <<>>
  /\ requests = {Ask(0, Ids)} /\ asked = 1
  /\ shown = [t \in Ids |-> NoCard] /\ error = FALSE
  /\ changes = 0 /\ drops = 0
  /\ missed = {} /\ newest = [t \in Ids |-> 0]

-----------------------------------------------------------------------------
(***************************************************************************)
(* What is lost on the way to the board.  A message is lost when another   *)
(* tick's event takes its place in the timer, when the board has no        *)
(* connection or its channel is full, and when the connection breaks; an   *)
(* answer when its request fails, and when a newer one, or a removal, has  *)
(* come before it.  An event that is taken makes good for a loss, and so   *)
(* does an answer that is read from disk later, unless an older message    *)
(* of the tick is still on its way.                                        *)
(***************************************************************************)
InChannel == {channel[i].id : i \in DOMAIN channel}
Superseded(e) == IF timer /\ last.id # e.id THEN {last.id} ELSE {}
Dropped == IF stream /\ Len(channel) < Room THEN {} ELSE {last.id}
Overtaken(r) == {t \in r.of : r.n < newest[t]}

Latest(r, t) == IF r.n < newest[t] THEN newest[t] ELSE r.n

\* An answer of its own does not tell the board that a tick is gone.
Brings(r, t) == t \in r.of /\ (r.of = Ids \/ disk[t].there)

\* Commands change files.
Change(t) ==
  /\ changes < MaxChanges
  /\ \E c \in (Ticks \cup {Absent}) \ {disk[t]} :
       /\ disk' = [disk EXCEPT ![t] = c]
       /\ events' = Append(events, [id |-> t, removed |-> c = Absent])
  /\ known' = known \ {t}
  /\ changes' = changes + 1
  /\ UNCHANGED <<timer, last, stream, channel, browser, drops, missed>>

-----------------------------------------------------------------------------
(***************************************************************************)
(* The server                                                              *)
(***************************************************************************)

\* watchFiles skips an event of a file that is gone, or has not changed since
\* the last event of it.
Spurious_Removed(e) == disk[e.id] = Absent \/ (~e.removed /\ e.id \in known)
Spurious(e) == ~e.removed /\ (disk[e.id] = Absent \/ e.id \in known)

\* Of the events within a tenth of a second it remembers the last.
WatchFiles ==
  LET e == Head(events) IN
  /\ events # <<>>
  /\ events' = Tail(events)
  /\ IF Spurious(e) THEN UNCHANGED <<server, missed>>
     ELSE /\ missed' = (missed \cup Superseded(e)) \ {e.id}
          /\ known' = IF e.removed THEN known \ {e.id} ELSE known \cup {e.id}
          /\ timer' = TRUE
          /\ last' = e
  /\ UNCHANGED <<disk, stream, channel, browser, changes, drops>>

\* A client whose channel is full misses the message.
Fits == Len(channel) < Room

\* The timer fires: broadcast.
Broadcast ==
  /\ timer
  /\ timer' = FALSE
  /\ channel' = IF stream /\ Fits THEN Append(channel, last) ELSE channel
  /\ missed' = missed \cup Dropped
  /\ UNCHANGED <<disk, events, known, last, stream, browser, changes, drops>>

\* The answer to a request is read from disk.  The list takes its files as they
\* are at one moment; LoadTicks has them one by one.
Serve(r) ==
  /\ ~r.answered
  /\ requests' = (requests \ {r}) \cup
       {[r EXCEPT !.answered = TRUE, !.n = asked,
                  !.answer = [t \in Ids |-> IF t \in r.of THEN disk[t] ELSE Absent]]}
  /\ asked' = asked + 1
  /\ missed' = missed \ {t \in Ids \ InChannel : Brings(r, t)}
  /\ UNCHANGED <<disk, events, server, stream, channel, shown, error, newest, changes, drops>>

-----------------------------------------------------------------------------
(***************************************************************************)
(* The client                                                              *)
(***************************************************************************)

\* isTickBlocked, of a tick among others; a blocker that is not there is closed.
IsBlocked(c, others) ==
  ~c.closed /\ \E b \in c.by : others[b].there /\ ~others[b].closed

CardOf(c, others) ==
  IF c.there THEN [there |-> TRUE, closed |-> c.closed, by |-> c.by,
                   blocked |-> IsBlocked(c, others)]
  ELSE NoCard

\* setTicks
SetTicks(d) == [t \in Ids |-> CardOf(d[t], d)]

\* updateTick: the ticks that the updated one blocks are looked at again if its
\* status is another.
Again_OnClose(t, c) == c.closed /\ ~shown[t].closed
Again(t, c) == ~shown[t].there \/ shown[t].closed # c.closed

UpdateTick(t, c) ==
  LET base == [shown EXCEPT ![t] = CardOf(c, shown)] IN
  [u \in Ids |->
     IF u = t THEN CardOf(c, base)
     ELSE IF shown[u].there /\ t \in shown[u].by /\ Again(t, c) THEN CardOf(shown[u], base)
     ELSE shown[u]]

\* removeTick
RemoveTick(t) == [shown EXCEPT ![t] = NoCard]

\* The stream opens; nothing is fetched for what was missed.
Connect ==
  /\ ~stream
  /\ stream' = TRUE /\ channel' = <<>>
  /\ UNCHANGED <<disk, events, server, browser, changes, drops, missed>>

\* The stream breaks, and what is in the channel is gone.
Disconnect ==
  /\ stream
  /\ drops < MaxDrops
  /\ stream' = FALSE /\ channel' = <<>>
  /\ drops' = drops + 1
  /\ missed' = missed \cup InChannel
  /\ UNCHANGED <<disk, events, server, browser, changes>>

\* handleUpdateEvent: a deleted tick is removed, another one fetched.
Fetched_New(t) == IF shown[t].there THEN requests ELSE requests \cup {Ask(asked, {t})}
Fetched(t) == requests \cup {Ask(asked, {t})}

Receive ==
  LET m == Head(channel) IN
  /\ channel # <<>>
  /\ channel' = Tail(channel)
  /\ \/ m.removed /\ shown' = RemoveTick(m.id)
        /\ newest' = [newest EXCEPT ![m.id] = asked]
        /\ UNCHANGED <<requests, asked>>
     \/ ~m.removed /\ requests' = Fetched(m.id) /\ asked' = asked + 1
        /\ UNCHANGED <<shown, newest>>
  /\ UNCHANGED <<disk, events, server, stream, error, changes, drops, missed>>

\* The answer to a request arrives, before or after those to later requests.
\* loadData shows the list and drops an error.
AnswerList(r) ==
  /\ r.answered /\ r.of = Ids
  /\ requests' = requests \ {r}
  /\ shown' = SetTicks(r.answer) /\ error' = FALSE
  /\ missed' = missed \cup Overtaken(r)
  /\ newest' = [t \in Ids |-> Latest(r, t)]
  /\ UNCHANGED <<disk, events, server, stream, channel, asked, changes, drops>>

\* fetchAndEmitTick; a tick that was not found is an error.
AnswerTick(r, t) ==
  /\ r.answered /\ r.of = {t}
  /\ requests' = requests \ {r}
  /\ \/ r.answer[t].there /\ shown' = UpdateTick(t, r.answer[t])
        /\ missed' = missed \cup Overtaken(r)
        /\ newest' = [newest EXCEPT ![t] = Latest(r, t)]
        /\ UNCHANGED error
     \/ ~r.answer[t].there /\ error' = TRUE /\ UNCHANGED <<shown, missed, newest>>
  /\ UNCHANGED <<disk, events, server, stream, channel, asked, changes, drops>>

\* A request of either kind fails: its connection is lost, or the server cannot
\* read all files.
Lose(r) ==
  /\ drops < MaxDrops /\ drops' = drops + 1
  /\ requests' = requests \ {r}
  /\ error' = TRUE
  /\ missed' = missed \cup r.of
  /\ UNCHANGED <<disk, events, server, stream, channel, asked, shown, newest, changes>>

-----------------------------------------------------------------------------
System ==
  \/ WatchFiles \/ Broadcast \/ Connect \/ Receive
  \/ \E r \in requests : Serve(r) \/ AnswerList(r) \/ \E t \in Ids : AnswerTick(r, t)

Next == System \/ Disconnect \/ (\E r \in requests : Lose(r)) \/ \E t \in Ids : Change(t)

Spec == Init /\ [][Next]_vars

\* The server's goroutines, the network and the browser go on when they can.
FairSpec == Spec /\ WF_vars(System)

-----------------------------------------------------------------------------
(***************************************************************************)
(* Properties                                                              *)
(***************************************************************************)

\* Nothing that could change what is shown is under way.
Quiet == events = <<>> /\ ~timer /\ channel = <<>> /\ requests = {}

\* The board shows a tick as it is on disk.
Current(t) == /\ shown[t].there = disk[t].there
              /\ shown[t].closed = disk[t].closed /\ shown[t].by = disk[t].by

\* A board that is out of date will be told, however files change, the stream
\* breaks and answers overtake each other: when nothing is under way it shows
\* every tick as it is on disk, but for those of which the last word was lost.
StaleIsNoticed == Quiet => \A t \in Ids \ missed : Current(t)

\* When the commands stop, the board comes to show their outcome, but for what
\* was lost.
Follows == <>[](\A t \in Ids \ missed : Current(t))

\* A tick is shown as blocked while a blocker that is shown is open, and as free
\* when all its blockers are shown closed, however it and they came and changed.
BlockedIsTrue ==
  \A t \in Ids :
    shown[t].there /\ ~shown[t].closed =>
      /\ (\E b \in shown[t].by : shown[b].there /\ ~shown[b].closed) => shown[t].blocked
      /\ (\A b \in shown[t].by : shown[b].there /\ shown[b].closed) => ~shown[t].blocked
=============================================================================
